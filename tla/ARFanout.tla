------------------------------ MODULE ARFanout ------------------------------
(***************************************************************************)
(* An active-response command fanned out across a cluster.                 *)
(*                                                                         *)
(* Every node runs run_command (securics/active_response.py) over the      *)
(* requested agents it owns: it opens the AR queue, reads the registered   *)
(* agents once, then for each agent either records a failure with          *)
(* add_failed_item or sends the command through SecuricsQueue and appends  *)
(* the agent to affected_items (send_ar_message in                         *)
(* securics/core/active_response.py, send_msg_to_agent in                  *)
(* securics/core/securics_queue.py).  The coordinator reduces the node     *)
(* results with the combination operator as they arrive, in any order;    *)
(* a node whose call raised makes the reduction re-raise.                  *)
(*                                                                         *)
(* Agents register, are removed, connect and disconnect while the nodes    *)
(* run.  Two ghost variables record what really happened: sent (the        *)
(* agents whose command the AR queue accepted) and outcome (the error      *)
(* each failed agent got).                                                 *)
(***************************************************************************)
EXTENDS FanoutResult, Naturals, FiniteSets

CONSTANTS
    Agent,        \* agent ids; 0 is the manager, "000"
    Node,         \* cluster nodes
    Owner,        \* the node each agent reports to
    ARDisabled,   \* agents whose configuration disables active response
    CommandKind   \* the kinds of command argument a request may carry

Manager == 0

ASSUME AgentAssumption == Agent \subseteq Nat /\ Manager \in Agent
ASSUME OwnerAssumption == Owner \in [Agent -> Node]
ASSUME DisabledAssumption == ARDisabled \subseteq Agent
ASSUME CommandAssumption ==
    CommandKind \subseteq {"listed", "custom", "empty", "unlisted"}

VARIABLES
    registered,   \* agents in the agent database
    active,       \* registered agents whose status is active
    requested,    \* agent_list of the request
    command,      \* the kind of the command argument
    npc,          \* npc[n]: where node n is in run_command
    snapshot,     \* snapshot[n]: system_agents, read once by node n
    todo,         \* todo[n]: agents of node n the loop has not reached
    res,          \* res[n]: node n's AffectedItemsSecuricsResult
    sent,         \* ghost: agents whose AR command the queue accepted
    outcome,      \* ghost: outcome[a] is the error agent a failed with
    cpc,          \* the coordinator: "wait", "done" or "aborted"
    pending,      \* nodes whose result the coordinator has not combined
    combined      \* the coordinator's reduction of the node results

envVars   == <<registered, active>>
nodeVars  == <<npc, snapshot, todo, res>>
coordVars == <<cpc, pending, combined>>
vars == <<envVars, requested, command, nodeVars, sent, outcome, coordVars>>

-----------------------------------------------------------------------------
(* Error records, as identities [code, msg].  msg is the extra text the    *)
(* code appends to the catalog template ("" when there is none).           *)

Error(code, extra) == [code |-> code, msg |-> extra]

AgentNotFound    == Error(1701, "")          \* SecuricsResourceNotFound(1701)
ManagerNotTarget == Error(1703, "")          \* SecuricsError(1703)
AgentNotActive   == Error(1707, "")          \* SecuricsError(1707)
ARIsDisabled     == Error(1750, "")          \* SecuricsError(1750)
CommandMissing   == Error(1650, "")          \* SecuricsError(1650)
CommandUnknown   == Error(1652, "")          \* SecuricsError(1652)
QueueSendFailed  == Error(1014, "ar-queue")  \* SecuricsError(1014, ": ... path")
NoError          == Error(0, "")

ErrorRecord ==
    {AgentNotFound, ManagerNotTarget, AgentNotActive, ARIsDisabled,
     CommandMissing, CommandUnknown, QueueSendFailed}

\* r is a result over the agents and error records of this model.
IsResult(r) ==
    /\ r = [affected |-> r.affected, failed |-> r.failed]
    /\ r.affected \subseteq Agent
    /\ DOMAIN r.failed \subseteq ErrorRecord
    /\ r.failed \in [DOMAIN r.failed -> SUBSET Agent]

\* The requested agents node n handles.
Mine(n) == {a \in requested : Owner[a] = n}

-----------------------------------------------------------------------------
\* Bug variant of validate_command: the unknown command is appended to the
\* message of SecuricsError(1652), which the catalog does not do.
ValidateCommandWithText ==
    IF command = "empty" THEN CommandMissing
    ELSE IF command = "unlisted" THEN Error(1652, command)
    ELSE NoError

\* validate_command of the message builder: no command (1650), or a command
\* that is neither custom ("!" prefix) nor listed in the AR configuration
\* read by get_commands (1652).
ValidateCommand ==
    IF command = "empty" THEN CommandMissing
    ELSE IF command = "unlisted" THEN CommandUnknown
    ELSE NoError

\* The error send_ar_message raises for agent a before it reaches the
\* queue: Agent(a).get_basic_information on a removed agent (1701), a
\* status other than active (1707), active response disabled in the
\* agent's configuration (1750), then the builder's validate_command.
SendARMessage(a) ==
    IF a \notin registered THEN AgentNotFound
    ELSE IF a \notin active THEN AgentNotActive
    ELSE IF a \in ARDisabled THEN ARIsDisabled
    ELSE ValidateCommand

\* The error the body of run_command's loop raises for agent a on node n:
\* not in the system_agents read at the start (1701), the manager (1703),
\* or what send_ar_message raises; NoError when the command reaches
\* wq.send_msg_to_agent.
RunCommandCheck(n, a) ==
    IF a \notin snapshot[n] THEN AgentNotFound
    ELSE IF a = Manager THEN ManagerNotTarget
    ELSE SendARMessage(a)

-----------------------------------------------------------------------------
Init ==
    /\ registered \in {R \in SUBSET Agent : Manager \in R}
    /\ active \in {A \in SUBSET registered : Manager \in A}
    /\ requested \in SUBSET Agent
    /\ command \in CommandKind
    /\ npc = [n \in Node |-> "idle"]
    /\ snapshot = [n \in Node |-> {}]
    /\ todo = [n \in Node |-> {}]
    /\ res = [n \in Node |-> EmptyResult]
    /\ sent = {}
    /\ outcome = [a \in Agent |-> NoError]
    /\ cpc = "wait"
    /\ pending = Node
    /\ combined = EmptyResult

\* Node n enters run_command.  With an empty agent_list it returns the
\* empty result; otherwise SecuricsQueue(AR_SOCKET) connects, the node
\* reads the registered agents (get_agents_info) and starts its loop.
RunCommandStart(n) ==
    /\ npc[n] = "idle"
    /\ \/ /\ Mine(n) = {}
          /\ npc' = [npc EXCEPT ![n] = "done"]
          /\ UNCHANGED <<snapshot, todo>>
       \/ /\ Mine(n) # {}
          /\ npc' = [npc EXCEPT ![n] = "loop"]
          /\ snapshot' = [snapshot EXCEPT ![n] = registered]
          /\ todo' = [todo EXCEPT ![n] = Mine(n)]
    /\ UNCHANGED <<envVars, requested, command, res, sent, outcome, coordVars>>

\* The AR queue socket cannot be opened: BaseQueue._connect raises
\* SecuricsInternalError(1010), which run_command does not catch.
QueueConnectFails(n) ==
    /\ npc[n] = "idle"
    /\ Mine(n) # {}
    /\ npc' = [npc EXCEPT ![n] = "failed"]
    /\ UNCHANGED <<envVars, requested, command, snapshot, todo, res, sent,
                   outcome, coordVars>>

\* Bug variant of RunCommandAgent: the agent is appended to affected_items
\* before the queue send, so an agent whose send fails is both affected and
\* failed.
RunCommandAgentAppendFirst(n, a) ==
    /\ npc[n] = "loop"
    /\ a \in todo[n]
    /\ todo' = [todo EXCEPT ![n] = @ \ {a}]
    /\ LET e == RunCommandCheck(n, a)
       IN  \/ /\ e # NoError
              /\ res' = [res EXCEPT ![n] = AddFailedItem(@, a, e)]
              /\ outcome' = [outcome EXCEPT ![a] = e]
              /\ UNCHANGED sent
           \/ /\ e = NoError
              /\ sent' = sent \cup {a}
              /\ res' = [res EXCEPT ![n].affected = @ \cup {a}]
              /\ UNCHANGED outcome
           \/ /\ e = NoError
              /\ res' = [res EXCEPT ![n] =
                           AddFailedItem([@ EXCEPT !.affected = @ \cup {a}],
                                         a, QueueSendFailed)]
              /\ outcome' = [outcome EXCEPT ![a] = QueueSendFailed]
              /\ UNCHANGED sent
    /\ UNCHANGED <<envVars, requested, command, npc, snapshot, coordVars>>

\* One iteration of the loop for agent a: a SecuricsException is caught and
\* recorded with add_failed_item; otherwise the command goes to the AR
\* queue, whose datagram send either succeeds (the agent is appended) or
\* fails and is re-raised as SecuricsError(1014).
RunCommandAgent(n, a) ==
    /\ npc[n] = "loop"
    /\ a \in todo[n]
    /\ todo' = [todo EXCEPT ![n] = @ \ {a}]
    /\ LET e == RunCommandCheck(n, a)
       IN  \/ /\ e # NoError
              /\ res' = [res EXCEPT ![n] = AddFailedItem(@, a, e)]
              /\ outcome' = [outcome EXCEPT ![a] = e]
              /\ UNCHANGED sent
           \/ /\ e = NoError
              /\ sent' = sent \cup {a}
              /\ res' = [res EXCEPT ![n].affected = @ \cup {a}]
              /\ UNCHANGED outcome
           \/ /\ e = NoError
              /\ res' = [res EXCEPT ![n] = AddFailedItem(@, a, QueueSendFailed)]
              /\ outcome' = [outcome EXCEPT ![a] = QueueSendFailed]
              /\ UNCHANGED sent
    /\ UNCHANGED <<envVars, requested, command, npc, snapshot, coordVars>>

\* The loop is over: the queue is closed, affected_items is sorted by id
\* and run_command returns its result.
RunCommandReturn(n) ==
    /\ npc[n] = "loop"
    /\ todo[n] = {}
    /\ npc' = [npc EXCEPT ![n] = "done"]
    /\ UNCHANGED <<envVars, requested, command, snapshot, todo, res, sent,
                   outcome, coordVars>>

\* Bug variant of Collect: only answers that are results are taken, the
\* answer of a node whose call raised is never picked up.
CollectResultsOnly(n) ==
    /\ cpc = "wait"
    /\ n \in pending
    /\ npc[n] = "done"
    /\ combined' = Combine(combined, res[n])
    /\ pending' = pending \ {n}
    /\ UNCHANGED <<cpc, envVars, requested, command, nodeVars, sent, outcome>>

\* The coordinator folds the answer of node n into its reduction; an
\* answer that is an exception is re-raised and ends the request.
Collect(n) ==
    /\ cpc = "wait"
    /\ n \in pending
    /\ npc[n] \in {"done", "failed"}
    /\ IF npc[n] = "failed"
          THEN /\ cpc' = "aborted"
               /\ UNCHANGED <<pending, combined>>
          ELSE /\ combined' = Combine(combined, res[n])
               /\ pending' = pending \ {n}
               /\ UNCHANGED cpc
    /\ UNCHANGED <<envVars, requested, command, nodeVars, sent, outcome>>

\* Bug variant of Reply: the coordinator replies without waiting for the
\* answers still pending.
ReplyEarly ==
    /\ cpc = "wait"
    /\ cpc' = "done"
    /\ UNCHANGED <<envVars, requested, command, nodeVars, sent, outcome,
                   pending, combined>>

\* Every node has answered: the combined result is returned.
Reply ==
    /\ cpc = "wait"
    /\ pending = {}
    /\ cpc' = "done"
    /\ UNCHANGED <<envVars, requested, command, nodeVars, sent, outcome,
                   pending, combined>>

\* Agents are removed from the database or disconnect while the request
\* runs.  Registrations and reconnections are left out: an agent that
\* appears after a node read system_agents fails exactly as one that never
\* did, and an agent's status is read once, by get_basic_information.
\* What happens after the reply is outside the model.
AgentRemove(a) ==
    /\ a \in registered \ {Manager}
    /\ registered' = registered \ {a}
    /\ active' = active \ {a}

AgentDisconnect(a) ==
    /\ a \in active \ {Manager}
    /\ active' = active \ {a}
    /\ UNCHANGED registered

Environment ==
    /\ cpc = "wait"
    /\ \E a \in Agent :
          \/ AgentRemove(a) \/ AgentDisconnect(a)
    /\ UNCHANGED <<requested, command, nodeVars, sent, outcome, coordVars>>

Next ==
    \/ \E n \in Node :
          \/ RunCommandStart(n) \/ QueueConnectFails(n)
          \/ RunCommandReturn(n) \/ Collect(n)
          \/ \E a \in Agent : RunCommandAgent(n, a)
    \/ Reply
    \/ Environment

\* Each node runs its call to the end and the coordinator keeps reducing:
\* none of these steps waits on anything the model leaves out.
Fairness ==
    /\ \A n \in Node :
          /\ WF_vars(RunCommandStart(n) \/ QueueConnectFails(n))
          /\ WF_vars(\E a \in Agent : RunCommandAgent(n, a))
          /\ WF_vars(RunCommandReturn(n))
          /\ WF_vars(Collect(n))
    /\ WF_vars(Reply)

Spec == Init /\ [][Next]_vars /\ Fairness

-----------------------------------------------------------------------------
(* Properties                                                              *)

TypeOK ==
    /\ registered \subseteq Agent
    /\ active \subseteq registered
    /\ requested \subseteq Agent
    /\ command \in CommandKind
    /\ npc \in [Node -> {"idle", "loop", "done", "failed"}]
    /\ snapshot \in [Node -> SUBSET Agent]
    /\ todo \in [Node -> SUBSET Agent]
    /\ DOMAIN res = Node
    /\ \A n \in Node : IsResult(res[n])
    /\ sent \subseteq Agent
    /\ outcome \in [Agent -> ErrorRecord \cup {NoError}]
    /\ cpc \in {"wait", "done", "aborted"}
    /\ pending \subseteq Node
    /\ IsResult(combined)

\* The response reports delivery truthfully: once the coordinator replies,
\* affected_items holds exactly the requested agents whose command the AR
\* queue accepted, on whichever node, and every other requested agent is a
\* failed item.  It is about run_command's append after a successful send,
\* its per-agent add_failed_item, and the reduction over all nodes.
ReportedIsDelivered ==
    cpc = "done" =>
        /\ combined.affected = requested \cap sent
        /\ FailedIds(combined.failed) = requested \ sent

\* Failures are grouped by error identity across nodes: each entry of the
\* replied failed_items holds exactly the requested agents that failed with
\* that error, whichever node they were on.  It is about add_failed_item's
\* grouping and the merge of failed items in the combination.
ErrorGrouping ==
    cpc = "done" =>
        \A k \in DOMAIN combined.failed :
            combined.failed[k] = {a \in requested \ sent : outcome[a] = k}

-----------------------------------------------------------------------------
(* Refinement of the abstract fan-out                                      *)

\* Agent a has its outcome: its node's loop has handled it.
Decided(a) ==
    /\ a \in requested
    /\ npc[Owner[a]] \in {"loop", "done"}
    /\ a \notin todo[Owner[a]]

FS == INSTANCE FanoutSpec WITH
        Item    <- Agent,
        ErrorId <- ErrorRecord,
        targets <- requested,
        status  <- [a \in Agent |->
                      IF ~Decided(a) THEN [kind |-> "pending"]
                      ELSE IF a \in sent THEN [kind |-> "affected"]
                      ELSE [kind |-> "failed", error |-> outcome[a]]],
        phase   <- IF cpc = "wait" THEN "run" ELSE cpc,
        reply   <- IF cpc = "done" THEN combined ELSE EmptyResult

\* The fan-out implements the abstract one: each requested agent gets one
\* outcome that never changes (run_command handles it once, appending it
\* after a successful send or recording its error), the coordinator replies
\* only after all of them, and its reduced reply is exactly the one the
\* outcomes determine, affected agents and failed agents grouped by error.
ImplementsFanoutSpec == FS!Spec

\* The request always ends: every node's call returns or raises and the
\* coordinator replies or re-raises.
Termination == <>(cpc \in {"done", "aborted"})
=============================================================================
