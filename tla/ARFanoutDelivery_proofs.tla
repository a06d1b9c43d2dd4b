----------------------- MODULE ARFanoutDelivery_proofs -----------------------
(***************************************************************************)
(* The active-response reply is truthful for every cluster: once the      *)
(* coordinator replies, affected_items is exactly the requested agents    *)
(* whose command the AR queue accepted (ReportedIsDelivered), and every   *)
(* failed-items entry holds exactly the agents that failed with its error *)
(* (ErrorGrouping), whatever the order nodes run, answer and are combined *)
(* in, and whatever agents are removed or disconnect meanwhile.           *)
(***************************************************************************)
EXTENDS ARFanout_proofs

-----------------------------------------------------------------------------
(* The inductive invariant                                                 *)

\* The agents node n's loop has handled.
Handled(n) == IF npc[n] \in {"loop", "done"} THEN Mine(n) \ todo[n] ELSE {}

\* Node n's result splits the agents it handled: the sent ones are
\* affected, the others are failed, each under the error it got.
NodeInv(n) ==
    /\ todo[n] \subseteq Mine(n)
    /\ npc[n] \in {"idle", "failed"} => res[n] = EmptyResult
    /\ npc[n] = "done" => todo[n] = {}
    /\ res[n].affected = Handled(n) \cap sent
    /\ FailedIds(res[n].failed) = Handled(n) \ sent
    /\ \A k \in DOMAIN res[n].failed :
          res[n].failed[k] = {a \in Handled(n) \ sent : outcome[a] = k}

\* Only a handled, requested agent is ever sent the command.
SentInv == \A a \in sent : a \in requested /\ a \in Handled(Owner[a])

\* The nodes the coordinator has combined.
Collected == Node \ pending

\* The coordinator's reduction is the union of the collected results,
\* which are final.
CoordInv ==
    /\ \A n \in Collected : npc[n] = "done"
    /\ combined.affected = UNION {res[n].affected : n \in Collected}
    /\ DOMAIN combined.failed = UNION {DOMAIN res[n].failed : n \in Collected}
    /\ \A k \in ErrorRecord :
          IdsOf(combined.failed, k) = UNION {IdsOf(res[n].failed, k) : n \in Collected}
    /\ cpc = "done" => pending = {}

IInv == TypeOK /\ (\A n \in Node : NodeInv(n)) /\ SentInv /\ CoordInv

-----------------------------------------------------------------------------
(* Lemmas on the result operators                                          *)

\* add_failed_item(a, e) leaves affected_items alone and adds a under e.
LEMMA AddFailedItemFacts ==
    ASSUME NEW r, IsResult(r), NEW a, NEW e
    PROVE  /\ AddFailedItem(r, a, e).affected = r.affected
           /\ DOMAIN AddFailedItem(r, a, e).failed = DOMAIN r.failed \cup {e}
           /\ \A k : IdsOf(AddFailedItem(r, a, e).failed, k)
                        = IdsOf(r.failed, k) \cup (IF k = e THEN {a} ELSE {})
BY DEF AddFailedItem, IdsOf, IsResult

\* The failed ids of a map are the union of its IdsOf.
LEMMA FailedIdsByKey ==
    ASSUME NEW f, NEW x
    PROVE  x \in FailedIds(f) <=> \E k \in DOMAIN f : x \in IdsOf(f, k)
BY DEF FailedIds, IdsOf

\* Combine unions the affected items and the ids under every key.
LEMMA CombineFacts ==
    ASSUME NEW r, NEW s
    PROVE  /\ Combine(r, s).affected = r.affected \cup s.affected
           /\ DOMAIN Combine(r, s).failed = DOMAIN r.failed \cup DOMAIN s.failed
           /\ \A k : IdsOf(Combine(r, s).failed, k) = IdsOf(r.failed, k) \cup IdsOf(s.failed, k)
BY DEF Combine, MergeFailed, IdsOf

-----------------------------------------------------------------------------
(* Initial states                                                          *)

LEMMA InitIInv == Init => IInv
<1> SUFFICES ASSUME Init PROVE IInv
    OBVIOUS
<1>1. TypeOK
    BY InitTypeOK
<1>2. ASSUME NEW n \in Node PROVE NodeInv(n)
    BY DEF Init, NodeInv, Handled, EmptyResult, FailedIds
<1>3. SentInv
    BY DEF Init, SentInv
<1>4. CoordInv
    BY DEF Init, CoordInv, Collected, EmptyResult, IdsOf
<1> QED
    BY <1>1, <1>2, <1>3, <1>4 DEF IInv

-----------------------------------------------------------------------------
(* The steps that do not touch a result                                    *)

USE DEF envVars, nodeVars, coordVars

\* A node entering run_command, failing to open the queue, or returning
\* keeps every node's handled set.
LEMMA StartStep ==
    ASSUME IInv, TypeOK', NEW n \in Node, RunCommandStart(n)
    PROVE  IInv'
<1>1. \A m \in Node : Handled(m)' = Handled(m)
    <2> SUFFICES ASSUME NEW m \in Node PROVE Handled(m)' = Handled(m)
        OBVIOUS
    <2>1. CASE m = n /\ Mine(n) = {}
        BY <2>1 DEF IInv, TypeOK, RunCommandStart, Handled, Mine
    <2>2. CASE m = n /\ Mine(n) # {}
        BY <2>2 DEF IInv, TypeOK, RunCommandStart, Handled, Mine
    <2>3. CASE m # n
        BY <2>3 DEF IInv, TypeOK, RunCommandStart, Handled, Mine
    <2> QED
        BY <2>1, <2>2, <2>3
<1>2. ASSUME NEW m \in Node PROVE NodeInv(m)'
    <2>1. CASE m = n
        BY <1>1, <2>1 DEF IInv, TypeOK, NodeInv, RunCommandStart, Mine
    <2>2. CASE m # n
        BY <1>1, <2>2 DEF IInv, TypeOK, NodeInv, RunCommandStart, Mine
    <2> QED
        BY <2>1, <2>2
<1>3. SentInv'
    <2> SUFFICES ASSUME NEW a \in sent' PROVE a \in requested' /\ a \in Handled(Owner[a])'
        BY DEF SentInv
    <2>1. a \in sent /\ requested' = requested
        BY DEF RunCommandStart
    <2>2. a \in requested /\ a \in Handled(Owner[a]) /\ Owner[a] \in Node
        BY <2>1, OwnerAssumption DEF IInv, SentInv, TypeOK
    <2> QED
        BY <2>1, <2>2, <1>1
<1>4. CoordInv'
    BY DEF IInv, TypeOK, CoordInv, Collected, RunCommandStart
<1> QED
    BY <1>2, <1>3, <1>4 DEF IInv

LEMMA ConnectFailsStep ==
    ASSUME IInv, TypeOK', NEW n \in Node, QueueConnectFails(n)
    PROVE  IInv'
<1>1. \A m \in Node : Handled(m)' = Handled(m)
    BY DEF IInv, TypeOK, NodeInv, QueueConnectFails, Handled, Mine
<1>2. ASSUME NEW m \in Node PROVE NodeInv(m)'
    BY <1>1 DEF IInv, TypeOK, NodeInv, QueueConnectFails, Mine
<1>3. SentInv'
    <2> SUFFICES ASSUME NEW a \in sent' PROVE a \in requested' /\ a \in Handled(Owner[a])'
        BY DEF SentInv
    <2>1. a \in sent /\ requested' = requested
        BY DEF QueueConnectFails
    <2>2. a \in requested /\ a \in Handled(Owner[a]) /\ Owner[a] \in Node
        BY <2>1, OwnerAssumption DEF IInv, SentInv, TypeOK
    <2> QED
        BY <2>1, <2>2, <1>1
<1>4. CoordInv'
    BY DEF IInv, TypeOK, CoordInv, Collected, QueueConnectFails
<1> QED
    BY <1>2, <1>3, <1>4 DEF IInv

LEMMA ReturnStep ==
    ASSUME IInv, TypeOK', NEW n \in Node, RunCommandReturn(n)
    PROVE  IInv'
<1>1. \A m \in Node : Handled(m)' = Handled(m)
    BY DEF IInv, TypeOK, NodeInv, RunCommandReturn, Handled, Mine
<1>2. ASSUME NEW m \in Node PROVE NodeInv(m)'
    BY <1>1 DEF IInv, TypeOK, NodeInv, RunCommandReturn, Mine
<1>3. SentInv'
    <2> SUFFICES ASSUME NEW a \in sent' PROVE a \in requested' /\ a \in Handled(Owner[a])'
        BY DEF SentInv
    <2>1. a \in sent /\ requested' = requested
        BY DEF RunCommandReturn
    <2>2. a \in requested /\ a \in Handled(Owner[a]) /\ Owner[a] \in Node
        BY <2>1, OwnerAssumption DEF IInv, SentInv, TypeOK
    <2> QED
        BY <2>1, <2>2, <1>1
<1>4. CoordInv'
    BY DEF IInv, TypeOK, CoordInv, Collected, RunCommandReturn
<1> QED
    BY <1>2, <1>3, <1>4 DEF IInv

\* The coordinator replies only once nothing is pending.
LEMMA ReplyStep ==
    ASSUME IInv, TypeOK', Reply
    PROVE  IInv'
<1>1. \A m \in Node : NodeInv(m)'
    BY DEF IInv, NodeInv, Handled, Mine, Reply
<1>2. SentInv'
    BY DEF IInv, SentInv, Handled, Mine, Reply
<1>3. CoordInv'
    BY DEF IInv, CoordInv, Collected, Reply
<1> QED
    BY <1>1, <1>2, <1>3 DEF IInv

\* Agents removed or disconnected change nothing the invariant reads.
LEMMA EnvironmentStep ==
    ASSUME IInv, TypeOK', Environment
    PROVE  IInv'
<1>1. \A m \in Node : NodeInv(m)'
    BY DEF IInv, NodeInv, Handled, Mine, Environment
<1>2. SentInv'
    BY DEF IInv, SentInv, Handled, Mine, Environment
<1>3. CoordInv'
    BY DEF IInv, CoordInv, Collected, Environment
<1> QED
    BY <1>1, <1>2, <1>3 DEF IInv

-----------------------------------------------------------------------------
(* One iteration of run_command's loop                                     *)

\* What every branch of an iteration for agent a on node n does.
AgentFrame(n, a) ==
    /\ npc[n] = "loop"
    /\ a \in todo[n]
    /\ todo' = [todo EXCEPT ![n] = @ \ {a}]
    /\ UNCHANGED <<envVars, requested, command, npc, snapshot, coordVars>>

\* The iteration records a under error err.
FailBranch(n, a, err) ==
    /\ res' = [res EXCEPT ![n] = AddFailedItem(@, a, err)]
    /\ outcome' = [outcome EXCEPT ![a] = err]
    /\ UNCHANGED sent

\* The iteration sends the command to a and appends it.
SendBranch(n, a) ==
    /\ sent' = sent \cup {a}
    /\ res' = [res EXCEPT ![n].affected = @ \cup {a}]
    /\ UNCHANGED outcome

\* add_failed_item adds exactly a to the failed ids.
LEMMA AddFailedItemIds ==
    ASSUME NEW r, IsResult(r), NEW a, NEW e
    PROVE  FailedIds(AddFailedItem(r, a, e).failed) = FailedIds(r.failed) \cup {a}
<1> DEFINE g == AddFailedItem(r, a, e).failed
<1>1. DOMAIN g = DOMAIN r.failed \cup {e}
    BY DEF AddFailedItem, IsResult
<1>2. \A k \in DOMAIN g : g[k] = IdsOf(r.failed, k) \cup (IF k = e THEN {a} ELSE {})
    BY DEF AddFailedItem, IsResult
<1>3. ASSUME NEW x PROVE x \in FailedIds(g) <=> x \in FailedIds(r.failed) \cup {a}
    <2>1. x \in FailedIds(g) <=> \E k \in DOMAIN g : x \in g[k]
        BY DEF FailedIds
    <2>2. x \in FailedIds(r.failed) <=> \E k \in DOMAIN r.failed : x \in r.failed[k]
        BY DEF FailedIds
    <2> QED
        BY <1>1, <1>2, <2>1, <2>2 DEF IdsOf
<1> QED
    BY <1>3

\* The agent of an iteration is one of the node's, not yet handled nor sent;
\* the iteration hands it to the node, and no other node's handled set moves.
LEMMA AgentFacts ==
    ASSUME IInv, NEW n \in Node, NEW a \in Agent, AgentFrame(n, a)
    PROVE  /\ Owner[a] = n
           /\ a \in requested
           /\ a \notin sent
           /\ a \notin Handled(n)
           /\ Handled(n)' = Handled(n) \cup {a}
           /\ \A m \in Node \ {n} : a \notin Handled(m) /\ Handled(m)' = Handled(m)
           /\ n \notin Collected
<1>1. a \in Mine(n)
    BY DEF IInv, NodeInv, AgentFrame
<1>2. Owner[a] = n /\ a \in requested
    BY <1>1 DEF Mine
<1>3. a \notin Handled(n)
    BY DEF AgentFrame, Handled
<1>4. a \notin sent
    BY <1>2, <1>3 DEF IInv, SentInv
<1>5. Handled(n)' = Handled(n) \cup {a}
    BY <1>1 DEF IInv, TypeOK, NodeInv, AgentFrame, Handled, Mine
<1>6. ASSUME NEW m \in Node \ {n} PROVE a \notin Handled(m) /\ Handled(m)' = Handled(m)
    BY <1>2 DEF IInv, TypeOK, AgentFrame, Handled, Mine
<1>7. n \notin Collected
    BY DEF IInv, CoordInv, AgentFrame
<1> QED
    BY <1>2, <1>3, <1>4, <1>5, <1>6, <1>7

\* The coordinator's side holds across an iteration: n is not collected.
LEMMA AgentCoord ==
    ASSUME IInv, NEW n \in Node, NEW a \in Agent, AgentFrame(n, a),
           res' = [res EXCEPT ![n] = res'[n]]
    PROVE  CoordInv'
<1>1. n \notin Collected
    BY AgentFacts
<1>2. \A c \in Collected : res'[c] = res[c]
    BY <1>1 DEF IInv, TypeOK, Collected
<1> QED
    BY <1>2 DEF IInv, CoordInv, Collected, AgentFrame

\* Every sent agent stays handled: handled sets only grow.
LEMMA AgentSentKept ==
    ASSUME IInv, NEW n \in Node, NEW a \in Agent, AgentFrame(n, a)
    PROVE  \A b \in sent : b \in requested' /\ b \in Handled(Owner[b])'
<1> SUFFICES ASSUME NEW b \in sent PROVE b \in requested' /\ b \in Handled(Owner[b])'
    OBVIOUS
<1>1. b \in requested /\ b \in Handled(Owner[b]) /\ Owner[b] \in Node
    BY OwnerAssumption DEF IInv, SentInv, TypeOK
<1>2. CASE Owner[b] = n
    BY <1>1, <1>2, AgentFacts DEF AgentFrame
<1>3. CASE Owner[b] # n
    BY <1>1, <1>3, AgentFacts DEF AgentFrame
<1> QED
    BY <1>2, <1>3

\* The failed agents a node handled are grouped under errors it recorded.
LEMMA OutcomeRecorded ==
    ASSUME IInv, NEW n \in Node, NEW b \in Handled(n) \ sent
    PROVE  outcome[b] \in DOMAIN res[n].failed
<1>1. b \in FailedIds(res[n].failed)
    BY DEF IInv, NodeInv
<1>2. PICK k \in DOMAIN res[n].failed : b \in res[n].failed[k]
    BY <1>1 DEF FailedIds
<1>3. outcome[b] = k
    BY <1>2 DEF IInv, NodeInv
<1> QED
    BY <1>2, <1>3

\* Another node's invariant survives an iteration on n: its handled set,
\* result and the outcomes of its agents do not move.
LEMMA OtherNodeKept ==
    ASSUME IInv, NEW n \in Node, NEW a \in Agent, AgentFrame(n, a),
           NEW m \in Node \ {n},
           res'[m] = res[m],
           sent' \in {sent, sent \cup {a}},
           \A b \in Agent \ {a} : outcome'[b] = outcome[b]
    PROVE  NodeInv(m)'
<1>1. a \notin Handled(m) /\ Handled(m)' = Handled(m)
    BY AgentFacts
<1>2. Handled(m) \subseteq Agent
    BY DEF IInv, TypeOK, Handled, Mine
<1>3. Handled(m)' \cap sent' = Handled(m) \cap sent
    BY <1>1
<1>4. Handled(m)' \ sent' = Handled(m) \ sent
    BY <1>1
<1>5. \A k : {b \in Handled(m)' \ sent' : outcome'[b] = k}
              = {b \in Handled(m) \ sent : outcome[b] = k}
    BY <1>1, <1>2, <1>4
<1>6. todo'[m] = todo[m] /\ npc'[m] = npc[m] /\ Mine(m)' = Mine(m)
    BY DEF IInv, TypeOK, AgentFrame, Mine
<1> QED
    BY <1>3, <1>4, <1>5, <1>6 DEF IInv, NodeInv

\* An iteration that records a under err keeps the invariant.
LEMMA FailStep ==
    ASSUME IInv, TypeOK', NEW n \in Node, NEW a \in Agent,
           NEW err \in ErrorRecord, AgentFrame(n, a), FailBranch(n, a, err)
    PROVE  IInv'
<1>1. /\ a \notin sent /\ a \notin Handled(n)
      /\ Handled(n)' = Handled(n) \cup {a}
    BY AgentFacts
<1>2. IsResult(res[n]) /\ DOMAIN res = Node
    BY DEF IInv, TypeOK
<1>3. res'[n] = AddFailedItem(res[n], a, err)
    BY <1>2 DEF FailBranch
<1>4. NodeInv(n)'
    <2>1. todo'[n] \subseteq Mine(n)' /\ npc'[n] = "loop"
        BY DEF IInv, TypeOK, NodeInv, AgentFrame, Mine
    <2>2. res'[n].affected = Handled(n)' \cap sent'
        BY <1>1, <1>2, <1>3, AddFailedItemFacts DEF IInv, NodeInv, FailBranch
    <2>3. FailedIds(res'[n].failed) = Handled(n)' \ sent'
        <3>1. FailedIds(res'[n].failed) = FailedIds(res[n].failed) \cup {a}
            BY <1>2, <1>3, AddFailedItemIds
        <3>2. FailedIds(res[n].failed) = Handled(n) \ sent
            BY DEF IInv, NodeInv
        <3> QED
            BY <1>1, <3>1, <3>2 DEF FailBranch
    <2>4. ASSUME NEW k \in DOMAIN res'[n].failed
          PROVE  res'[n].failed[k] = {b \in Handled(n)' \ sent' : outcome'[b] = k}
        <3>1. res'[n].failed[k] = IdsOf(res[n].failed, k) \cup (IF k = err THEN {a} ELSE {})
            BY <1>2, <1>3, AddFailedItemFacts DEF IdsOf
        <3>2. IdsOf(res[n].failed, k) = {b \in Handled(n) \ sent : outcome[b] = k}
            BY OutcomeRecorded DEF IInv, NodeInv, IdsOf
        <3>3. \A b \in Handled(n) : outcome'[b] = outcome[b]
            BY <1>1 DEF IInv, TypeOK, FailBranch, Handled, Mine
        <3>4. outcome'[a] = err
            BY DEF IInv, TypeOK, FailBranch
        <3> QED
            BY <1>1, <3>1, <3>2, <3>3, <3>4 DEF FailBranch
    <2> QED
        BY <2>1, <2>2, <2>3, <2>4 DEF NodeInv
<1>5. ASSUME NEW m \in Node \ {n} PROVE NodeInv(m)'
    <2>1. res'[m] = res[m]
        BY <1>2 DEF FailBranch
    <2>2. \A b \in Agent \ {a} : outcome'[b] = outcome[b]
        BY DEF IInv, TypeOK, FailBranch
    <2> QED
        BY <2>1, <2>2, OtherNodeKept DEF FailBranch
<1>6. SentInv'
    BY AgentSentKept DEF SentInv, FailBranch
<1>7. CoordInv'
    BY <1>2, AgentCoord DEF FailBranch
<1> QED
    BY <1>4, <1>5, <1>6, <1>7 DEF IInv

\* An iteration that sends the command to a and appends it keeps the
\* invariant.
LEMMA SendStep ==
    ASSUME IInv, TypeOK', NEW n \in Node, NEW a \in Agent,
           AgentFrame(n, a), SendBranch(n, a)
    PROVE  IInv'
<1>1. /\ Owner[a] = n /\ a \in requested
      /\ a \notin sent /\ a \notin Handled(n)
      /\ Handled(n)' = Handled(n) \cup {a}
    BY AgentFacts
<1>2. IsResult(res[n]) /\ DOMAIN res = Node
    BY DEF IInv, TypeOK
<1>3. /\ res'[n].affected = res[n].affected \cup {a}
      /\ res'[n].failed = res[n].failed
    BY <1>2 DEF SendBranch, IsResult
<1>4. NodeInv(n)'
    <2>1. todo'[n] \subseteq Mine(n)' /\ npc'[n] = "loop"
        BY DEF IInv, TypeOK, NodeInv, AgentFrame, Mine
    <2>2. res'[n].affected = Handled(n)' \cap sent'
        BY <1>1, <1>3 DEF IInv, NodeInv, SendBranch
    <2>3. Handled(n)' \ sent' = Handled(n) \ sent
        BY <1>1 DEF SendBranch
    <2>4. FailedIds(res'[n].failed) = Handled(n)' \ sent'
        BY <1>3, <2>3 DEF IInv, NodeInv
    <2>5. \A k \in DOMAIN res'[n].failed :
             res'[n].failed[k] = {b \in Handled(n)' \ sent' : outcome'[b] = k}
        BY <1>3, <2>3 DEF IInv, NodeInv, SendBranch
    <2> QED
        BY <2>1, <2>2, <2>4, <2>5 DEF NodeInv
<1>5. ASSUME NEW m \in Node \ {n} PROVE NodeInv(m)'
    <2>1. res'[m] = res[m]
        BY <1>2 DEF SendBranch
    <2> QED
        BY <2>1, OtherNodeKept DEF SendBranch
<1>6. SentInv'
    <2>1. a \in requested' /\ a \in Handled(Owner[a])'
        BY <1>1 DEF AgentFrame
    <2> QED
        BY <2>1, AgentSentKept DEF SentInv, SendBranch
<1>7. CoordInv'
    <2>1. res' = [res EXCEPT ![n] = res'[n]]
        BY <1>2 DEF SendBranch
    <2> QED
        BY <2>1, AgentCoord
<1> QED
    BY <1>4, <1>5, <1>6, <1>7 DEF IInv

\* Every iteration of the loop keeps the invariant: the error the checks
\* raise, or the queue's 1014, is recorded, or the command is sent.
LEMMA AgentStep ==
    ASSUME IInv, TypeOK', NEW n \in Node, NEW a \in Agent, RunCommandAgent(n, a)
    PROVE  IInv'
<1> DEFINE e == RunCommandCheck(n, a)
<1>1. AgentFrame(n, a)
    BY DEF RunCommandAgent, AgentFrame
<1>2. CASE e # NoError /\ res' = [res EXCEPT ![n] = AddFailedItem(@, a, e)]
                       /\ outcome' = [outcome EXCEPT ![a] = e]
                       /\ UNCHANGED sent
    <2>1. e \in ErrorRecord
        BY <1>2 DEF TypeOK
    <2> QED
        BY <1>1, <1>2, <2>1, FailStep DEF FailBranch
<1>3. CASE e = NoError /\ sent' = sent \cup {a}
                       /\ res' = [res EXCEPT ![n].affected = @ \cup {a}]
                       /\ UNCHANGED outcome
    BY <1>1, <1>3, SendStep DEF SendBranch
<1>4. CASE e = NoError /\ res' = [res EXCEPT ![n] = AddFailedItem(@, a, QueueSendFailed)]
                       /\ outcome' = [outcome EXCEPT ![a] = QueueSendFailed]
                       /\ UNCHANGED sent
    <2>1. QueueSendFailed \in ErrorRecord
        BY DEF ErrorRecord
    <2> QED
        BY <1>1, <1>4, <2>1, FailStep DEF FailBranch
<1> QED
    BY <1>2, <1>3, <1>4 DEF RunCommandAgent

-----------------------------------------------------------------------------
(* The coordinator's reduction                                             *)

\* Folding a finished node's answer into the reduction, or re-raising a
\* failed node's exception, keeps the invariant.
LEMMA CollectStep ==
    ASSUME IInv, TypeOK', NEW n \in Node, Collect(n)
    PROVE  IInv'
<1>1. (\A m \in Node : NodeInv(m)') /\ SentInv'
    BY DEF Collect, IInv, NodeInv, SentInv, Handled, Mine
<1>2. CASE npc[n] = "failed"
    BY <1>1, <1>2 DEF Collect, IInv, CoordInv, Collected
<1>3. CASE npc[n] = "done"
    <2>1. Collected' = Collected \cup {n}
        BY <1>3 DEF Collect, Collected
    <2>2. combined' = Combine(combined, res[n]) /\ res' = res /\ npc' = npc /\ cpc' = cpc
        BY <1>3 DEF Collect
    <2>3. \A c \in Collected' : npc'[c] = "done"
        BY <1>3, <2>1, <2>2 DEF IInv, CoordInv
    <2>4. combined'.affected = UNION {res'[c].affected : c \in Collected'}
        BY <2>1, <2>2, CombineFacts DEF IInv, CoordInv
    <2>5. DOMAIN combined'.failed = UNION {DOMAIN res'[c].failed : c \in Collected'}
        BY <2>1, <2>2, CombineFacts DEF IInv, CoordInv
    <2>6. \A k \in ErrorRecord :
             IdsOf(combined'.failed, k) = UNION {IdsOf(res'[c].failed, k) : c \in Collected'}
        BY <2>1, <2>2, CombineFacts DEF IInv, CoordInv
    <2>7. cpc' = "done" => pending' = {}
        BY <2>2 DEF Collect
    <2> QED
        BY <1>1, <2>3, <2>4, <2>5, <2>6, <2>7 DEF IInv, CoordInv
<1> QED
    BY <1>2, <1>3 DEF Collect

\* The invariant is inductive.
LEMMA NextIInv == IInv /\ [Next]_vars => IInv'
<1> SUFFICES ASSUME IInv, [Next]_vars PROVE IInv'
    OBVIOUS
<1>1. TypeOK'
    BY NextTypeOK DEF IInv
<1>2. ASSUME NEW n \in Node, RunCommandStart(n) PROVE IInv'
    BY <1>1, <1>2, StartStep
<1>3. ASSUME NEW n \in Node, QueueConnectFails(n) PROVE IInv'
    BY <1>1, <1>3, ConnectFailsStep
<1>4. ASSUME NEW n \in Node, RunCommandReturn(n) PROVE IInv'
    BY <1>1, <1>4, ReturnStep
<1>5. ASSUME NEW n \in Node, Collect(n) PROVE IInv'
    BY <1>1, <1>5, CollectStep
<1>6. ASSUME NEW n \in Node, NEW a \in Agent, RunCommandAgent(n, a) PROVE IInv'
    BY <1>1, <1>6, AgentStep
<1>7. CASE Reply
    BY <1>1, <1>7, ReplyStep
<1>8. CASE Environment
    BY <1>1, <1>8, EnvironmentStep
<1>9. CASE UNCHANGED vars
    <2>1. /\ requested' = requested /\ npc' = npc /\ todo' = todo /\ res' = res
          /\ sent' = sent /\ outcome' = outcome
          /\ cpc' = cpc /\ pending' = pending /\ combined' = combined
        BY <1>9 DEF vars
    <2>2. \A m \in Node : NodeInv(m)'
        BY <2>1 DEF IInv, NodeInv, Handled, Mine
    <2>3. SentInv'
        BY <2>1 DEF IInv, SentInv, Handled, Mine
    <2>4. CoordInv'
        BY <2>1 DEF IInv, CoordInv, Collected
    <2> QED
        BY <1>1, <2>2, <2>3, <2>4 DEF IInv
<1> QED
    BY <1>2, <1>3, <1>4, <1>5, <1>6, <1>7, <1>8, <1>9 DEF Next

-----------------------------------------------------------------------------
(* The reply                                                               *)

\* Under every error, a node's result holds the agents it handled that
\* failed with that error, and nothing when none did.
LEMMA NodeGroup ==
    ASSUME IInv, NEW n \in Node, NEW k
    PROVE  IdsOf(res[n].failed, k) = {b \in Handled(n) \ sent : outcome[b] = k}
<1>1. CASE k \in DOMAIN res[n].failed
    BY <1>1 DEF IInv, NodeInv, IdsOf
<1>2. CASE k \notin DOMAIN res[n].failed
    BY <1>2, OutcomeRecorded DEF IdsOf
<1> QED
    BY <1>1, <1>2

\* Once nothing is pending, every node is collected and has handled all
\* its requested agents.
LEMMA AllHandled ==
    ASSUME IInv, pending = {}
    PROVE  /\ Collected = Node
           /\ \A n \in Node : Handled(n) = Mine(n)
           /\ UNION {Mine(n) : n \in Node} = requested
<1>1. Collected = Node
    BY DEF Collected
<1>2. \A n \in Node : Handled(n) = Mine(n)
    BY <1>1 DEF IInv, CoordInv, NodeInv, Handled
<1>3. UNION {Mine(n) : n \in Node} = requested
    BY OwnerAssumption DEF IInv, TypeOK, Mine
<1> QED
    BY <1>1, <1>2, <1>3

\* Once every node is collected, the reduction is the reply the outcomes
\* of the requested agents determine.
LEMMA ReplyContent ==
    ASSUME IInv, pending = {}
    PROVE  /\ combined.affected = requested \cap sent
           /\ FailedIds(combined.failed) = requested \ sent
           /\ \A k \in DOMAIN combined.failed :
                 combined.failed[k] = {a \in requested \ sent : outcome[a] = k}
<1>1. /\ Collected = Node
      /\ \A n \in Node : Handled(n) = Mine(n)
      /\ UNION {Mine(n) : n \in Node} = requested
    BY AllHandled
<1>2. DOMAIN combined.failed \subseteq ErrorRecord
      /\ \A n \in Node : DOMAIN res[n].failed \subseteq ErrorRecord
    BY DEF IInv, TypeOK, IsResult
<1>3. \A k \in ErrorRecord :
         IdsOf(combined.failed, k) = {a \in requested \ sent : outcome[a] = k}
    <2> SUFFICES ASSUME NEW k \in ErrorRecord
                 PROVE  IdsOf(combined.failed, k) = {a \in requested \ sent : outcome[a] = k}
        OBVIOUS
    <2>1. IdsOf(combined.failed, k) = UNION {IdsOf(res[n].failed, k) : n \in Node}
        BY <1>1 DEF IInv, CoordInv
    <2>2. \A n \in Node : IdsOf(res[n].failed, k) = {b \in Mine(n) \ sent : outcome[b] = k}
        BY <1>1, NodeGroup
    <2> QED
        BY <1>1, <2>1, <2>2
<1>4. combined.affected = requested \cap sent
    <2>1. combined.affected = UNION {res[n].affected : n \in Node}
        BY <1>1 DEF IInv, CoordInv
    <2>2. \A n \in Node : res[n].affected = Mine(n) \cap sent
        BY <1>1 DEF IInv, NodeInv
    <2> QED
        BY <1>1, <2>1, <2>2
<1>5. \A k \in DOMAIN combined.failed :
         combined.failed[k] = {a \in requested \ sent : outcome[a] = k}
    BY <1>2, <1>3 DEF IdsOf
<1>6. FailedIds(combined.failed) = requested \ sent
    <2>1. ASSUME NEW x \in requested \ sent PROVE x \in FailedIds(combined.failed)
        <3>1. PICK n \in Node : x \in Mine(n)
            BY <1>1
        <3>2. x \in FailedIds(res[n].failed)
            BY <1>1, <3>1 DEF IInv, NodeInv
        <3>3. PICK k \in DOMAIN res[n].failed : x \in res[n].failed[k]
            BY <3>2 DEF FailedIds
        <3>4. x \in IdsOf(combined.failed, k)
            BY <1>2, <1>3, <3>1, <3>3, NodeGroup DEF IdsOf
        <3> QED
            BY <3>4 DEF IdsOf, FailedIds
    <2>2. FailedIds(combined.failed) \subseteq requested \ sent
        BY <1>5 DEF FailedIds
    <2> QED
        BY <2>1, <2>2
<1> QED
    BY <1>4, <1>5, <1>6

\* The invariant gives both properties of the reply.
LEMMA IInvReply == IInv => ReportedIsDelivered /\ ErrorGrouping
<1> SUFFICES ASSUME IInv, cpc = "done"
             PROVE  /\ combined.affected = requested \cap sent
                    /\ FailedIds(combined.failed) = requested \ sent
                    /\ \A k \in DOMAIN combined.failed :
                          combined.failed[k] = {a \in requested \ sent : outcome[a] = k}
    BY DEF ReportedIsDelivered, ErrorGrouping
<1>1. pending = {}
    BY DEF IInv, CoordInv
<1> QED
    BY <1>1, ReplyContent

-----------------------------------------------------------------------------
(* The theorems                                                            *)

\* The inductive invariant holds in every reachable state.
THEOREM IInvHolds == Spec => []IInv
BY InitIInv, NextIInv, PTL DEF Spec

\* The replied affected_items are exactly the requested agents whose
\* command the AR queue accepted and the failed items are all the others,
\* for any agents, nodes and owners (run_command's append after a
\* successful send, its add_failed_item, and the coordinator's reduction).
THEOREM DeliveryCorrect == Spec => []ReportedIsDelivered
BY IInvHolds, IInvReply, PTL

\* Every replied failed_items entry holds exactly the requested agents
\* that failed with its error, on any node (add_failed_item's grouping and
\* the merge of failed items across node results).
THEOREM GroupingCorrect == Spec => []ErrorGrouping
BY IInvHolds, IInvReply, PTL
=============================================================================
