------------------------------ MODULE Rootcheck ------------------------------
(***************************************************************************)
(* rootcheck.run and rootcheck.clear (securics/rootcheck.py) on one node,  *)
(* while other requests and the agents themselves change the agent         *)
(* database: agents register, are removed, connect and disconnect.         *)
(*                                                                         *)
(* run reads the registered agents, records the unknown ones (1701), then  *)
(* queries the database for the non-active ones and records them (1707),  *)
(* opens the AR queue and sends "syscheck restart" to each remaining       *)
(* agent.  clear reads the registered agents, records the unknown ones and *)
(* deletes the rootcheck database of each remaining agent.  The two reads  *)
(* of run are separate database calls, so the agent set can change        *)
(* between them.  Ghost variables restarted and wiped record what really  *)
(* happened to each agent.                                                 *)
(***************************************************************************)
EXTENDS FanoutResult, Naturals, FiniteSets

CONSTANTS
    Agent    \* agent ids; 0 is the manager, "000"

Manager == 0

ASSUME RootcheckAgentAssumption == Agent \subseteq Nat /\ Manager \in Agent

VARIABLES
    registered,   \* agents in the agent database
    active,       \* registered agents whose status is active
    removed,      \* agents deleted from the database; ids are not reused
    runList,      \* agent_list of the run request
    rpc,          \* where run is
    rsys,         \* system_agents read by run
    rrows,        \* the rows {id, status} of the non-active agents query
    rtodo,        \* eligible agents run has not sent to yet
    rres,         \* run's AffectedItemsSecuricsResult
    restarted,    \* ghost: agents whose restart message the queue accepted
    clearList,    \* agent_list of the clear request
    cpc,          \* where clear is
    ctodo,        \* agents clear has not deleted the database of yet
    cres,         \* clear's AffectedItemsSecuricsResult
    wiped         \* ghost: agents whose rootcheck database was deleted

envVars   == <<registered, active, removed>>
runVars   == <<runList, rpc, rsys, rrows, rtodo, rres, restarted>>
clearVars == <<clearList, cpc, ctodo, cres, wiped>>
vars == <<envVars, runVars, clearVars>>

-----------------------------------------------------------------------------
Error(code, extra) == [code |-> code, msg |-> extra]

AgentNotFound   == Error(1701, "")          \* SecuricsResourceNotFound(1701)
AgentNotActive  == Error(1707, "")          \* SecuricsError(1707)
QueueSendFailed == Error(1014, "ar-queue")  \* SecuricsError(1014, ": ... path")
\* What rootcheck_delete_agent raises when the database call fails
\* (core/rootcheck.py, not in this repository): one SecuricsError identity.
DeleteFailed    == Error(2004, "wdb")

ErrorRecord == {AgentNotFound, AgentNotActive, QueueSendFailed, DeleteFailed}

\* A row of the non-active agents query (select=["id", "status"]); the
\* status is never read, so only the id is kept.
Row == [id : Agent]

\* r is a result over the agents and error records of this model.
IsResult(r) ==
    /\ r = [affected |-> r.affected, failed |-> r.failed]
    /\ r.affected \subseteq Agent
    /\ DOMAIN r.failed \subseteq ErrorRecord
    /\ r.failed \in [DOMAIN r.failed -> SUBSET Agent]

\* r with every agent of S added to the failed items of error e: the list
\* comprehensions of add_failed_item calls.
AddFailedAll(r, S, e) ==
    IF S = {} THEN r
    ELSE [r EXCEPT !.failed =
            [k \in DOMAIN r.failed \cup {e} |->
                IdsOf(r.failed, k) \cup (IF k = e THEN S ELSE {})]]

-----------------------------------------------------------------------------
Init ==
    /\ registered \in {R \in SUBSET Agent : Manager \in R}
    /\ active \in {A \in SUBSET registered : Manager \in A}
    /\ removed = {}
    /\ runList \in SUBSET Agent
    /\ rpc = "start"
    /\ rsys = {}
    /\ rrows = {}
    /\ rtodo = {}
    /\ rres = EmptyResult
    /\ restarted = {}
    /\ clearList \in SUBSET Agent
    /\ cpc = "start"
    /\ ctodo = {}
    /\ cres = EmptyResult
    /\ wiped = {}

(* ----------------------------- rootcheck.run ---------------------------- *)

\* run reads system_agents and records every requested agent not in it as
\* SecuricsResourceNotFound(1701).
RunStart ==
    /\ rpc = "start"
    /\ rsys' = registered
    /\ rres' = AddFailedAll(rres, runList \ registered, AgentNotFound)
    /\ rpc' = "query"
    /\ UNCHANGED <<envVars, runList, rrows, rtodo, restarted, clearVars>>

\* The SecuricsDBQueryAgents query (status!=active, restricted by the RBAC
\* filters to the requested agents) runs against the database as it is
\* now; every row's id is recorded as SecuricsError(1707).
RunQuery ==
    /\ rpc = "query"
    /\ rrows' = {[id |-> a] :
                    a \in (runList \cap registered) \ active}
    /\ rres' = AddFailedAll(rres, {d.id : d \in rrows'}, AgentNotActive)
    /\ rpc' = "connect"
    /\ UNCHANGED <<envVars, runList, rsys, rtodo, restarted, clearVars>>

\* Bug variant of RunConnect: the eligible agents are computed without
\* removing the agents that were not found.
RunConnectKeepUnknown ==
    /\ rpc = "connect"
    /\ \/ /\ rpc' = "failed"
          /\ UNCHANGED rtodo
       \/ /\ rpc' = "loop"
          /\ rtodo' = runList \ {d.id : d \in rrows}
    /\ UNCHANGED <<envVars, runList, rsys, rrows, rres, restarted, clearVars>>

\* SecuricsQueue(AR_SOCKET) either fails to connect, raising
\* SecuricsInternalError(1010) out of run with the failures recorded so far,
\* or connects; the eligible agents are the requested ones minus the
\* unknown and the non-active ones.
RunConnect ==
    /\ rpc = "connect"
    /\ \/ /\ rpc' = "failed"
          /\ UNCHANGED rtodo
       \/ /\ rpc' = "loop"
          /\ rtodo' = (runList \ (runList \ rsys)) \ {d.id : d \in rrows}
    /\ UNCHANGED <<envVars, runList, rsys, rrows, rres, restarted, clearVars>>

\* Bug variant of RunSend: the SecuricsInternalError(1011) of the socket
\* send reaches the loop unwrapped instead of as SecuricsError(1014).
RunSendUnwrapped(a) ==
    /\ rpc = "loop"
    /\ a \in rtodo
    /\ rtodo' = rtodo \ {a}
    /\ \/ /\ restarted' = restarted \cup {a}
          /\ rres' = [rres EXCEPT !.affected = @ \cup {a}]
       \/ /\ rres' = AddFailedAll(rres, {a}, Error(1011, "ar-queue"))
          /\ UNCHANGED restarted
    /\ UNCHANGED <<envVars, runList, rpc, rsys, rrows, clearVars>>

\* send_msg_to_agent(HC_SK_RESTART, a): the datagram is accepted and the
\* agent appended to affected_items, or the send fails and is recorded as
\* SecuricsError(1014).
RunSend(a) ==
    /\ rpc = "loop"
    /\ a \in rtodo
    /\ rtodo' = rtodo \ {a}
    /\ \/ /\ restarted' = restarted \cup {a}
          /\ rres' = [rres EXCEPT !.affected = @ \cup {a}]
       \/ /\ rres' = AddFailedAll(rres, {a}, QueueSendFailed)
          /\ UNCHANGED restarted
    /\ UNCHANGED <<envVars, runList, rpc, rsys, rrows, clearVars>>

\* The loop is over: affected_items is sorted, total_affected_items set,
\* and the result returned.
RunReturn ==
    /\ rpc = "loop"
    /\ rtodo = {}
    /\ rpc' = "done"
    /\ UNCHANGED <<envVars, runList, rsys, rrows, rtodo, rres, restarted,
                   clearVars>>

(* ---------------------------- rootcheck.clear --------------------------- *)

\* clear reads system_agents, records every requested agent not in it as
\* SecuricsResourceNotFound(1701) and keeps the others as eligible.
ClearStart ==
    /\ cpc = "start"
    /\ cres' = AddFailedAll(cres, clearList \ registered, AgentNotFound)
    /\ ctodo' = clearList \ (clearList \ registered)
    /\ cpc' = "loop"
    /\ UNCHANGED <<envVars, runVars, clearList, wiped>>

\* rootcheck_delete_agent(a) either deletes the agent's rootcheck database,
\* and the agent is appended, or raises a SecuricsError that is recorded.
ClearAgent(a) ==
    /\ cpc = "loop"
    /\ a \in ctodo
    /\ ctodo' = ctodo \ {a}
    /\ \/ /\ wiped' = wiped \cup {a}
          /\ cres' = [cres EXCEPT !.affected = @ \cup {a}]
       \/ /\ cres' = AddFailedAll(cres, {a}, DeleteFailed)
          /\ UNCHANGED wiped
    /\ UNCHANGED <<envVars, runVars, clearList, cpc>>

\* The loop is over: affected_items is sorted and the result returned.
ClearReturn ==
    /\ cpc = "loop"
    /\ ctodo = {}
    /\ cpc' = "done"
    /\ UNCHANGED <<envVars, runVars, clearList, ctodo, cres, wiped>>

(* ------------------------------ environment ----------------------------- *)

\* An agent registers (authd); it is not active until it connects.  Ids
\* are not reused.
AgentRegister(a) ==
    /\ a \notin registered \cup removed
    /\ registered' = registered \cup {a}
    /\ UNCHANGED <<active, removed>>

\* Another request deletes an agent.
AgentRemove(a) ==
    /\ a \in registered \ {Manager}
    /\ registered' = registered \ {a}
    /\ active' = active \ {a}
    /\ removed' = removed \cup {a}

\* An agent connects, or its connection drops.
AgentConnect(a) ==
    /\ a \in registered \ active
    /\ active' = active \cup {a}
    /\ UNCHANGED <<registered, removed>>

AgentDisconnect(a) ==
    /\ a \in active \ {Manager}
    /\ active' = active \ {a}
    /\ UNCHANGED <<registered, removed>>

\* The database changes while a call still runs; what happens after both
\* calls returned is outside the model.
Environment ==
    /\ rpc \notin {"done", "failed"} \/ cpc # "done"
    /\ \E a \in Agent :
          \/ AgentRegister(a) \/ AgentRemove(a)
          \/ AgentConnect(a) \/ AgentDisconnect(a)
    /\ UNCHANGED <<runVars, clearVars>>

RunStep == RunStart \/ RunQuery \/ RunConnect \/ RunReturn
           \/ \E a \in Agent : RunSend(a)

ClearStep == ClearStart \/ ClearReturn \/ \E a \in Agent : ClearAgent(a)

Next == RunStep \/ ClearStep \/ Environment

\* Each call runs to its end: no step of run or clear waits on anything
\* the model leaves out (the datagram send is taken to return).
Fairness == WF_vars(RunStep) /\ WF_vars(ClearStep)

Spec == Init /\ [][Next]_vars /\ Fairness

-----------------------------------------------------------------------------
(* Properties                                                              *)

TypeOK ==
    /\ registered \subseteq Agent
    /\ active \subseteq registered
    /\ removed \subseteq Agent \ registered
    /\ runList \subseteq Agent
    /\ rpc \in {"start", "query", "connect", "loop", "done", "failed"}
    /\ rsys \subseteq Agent
    /\ rrows \subseteq Row
    /\ rtodo \subseteq Agent
    /\ IsResult(rres)
    /\ restarted \subseteq Agent
    /\ clearList \subseteq Agent
    /\ cpc \in {"start", "loop", "done"}
    /\ ctodo \subseteq Agent
    /\ IsResult(cres)
    /\ wiped \subseteq Agent

\* r reports every agent of L once: as affected or as failed, never both,
\* and no agent outside L.
ReportsEachOnce(r, L) ==
    /\ r.affected \cup FailedIds(r.failed) = L
    /\ r.affected \cap FailedIds(r.failed) = {}

\* Whatever the database does meanwhile, a returned run or clear accounts
\* for every requested agent, and no agent is both restarted (or cleared)
\* and failed.  It is about the set algebra of rootcheck.run
\* (agent_list - not_found_agents - non-eligible ids) and of clear, and
\* the per-agent try/except of their loops.
ReportedPartition ==
    /\ rpc = "done" => ReportsEachOnce(rres, runList)
    /\ cpc = "done" => ReportsEachOnce(cres, clearList)

\* Each failed agent of a returned run is in one failure group: the run
\* records one error per agent.  The agent database is read twice
\* (get_agents_info, then the non-active query), so an agent registered
\* in between is both "not found" and "not active".
OneGroupPerAgent ==
    rpc = "done" =>
        \A k1, k2 \in DOMAIN rres.failed :
            k1 # k2 => rres.failed[k1] \cap rres.failed[k2] = {}

=============================================================================
