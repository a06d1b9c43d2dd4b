---------------------- MODULE ARFanoutRefinement_proofs ----------------------
(***************************************************************************)
(* The active-response fan-out implements the abstract fan-out FanoutSpec *)
(* under the mapping FS of ARFanout, for every value of the constants.     *)
(***************************************************************************)
EXTENDS ARFanoutDelivery_proofs

USE DEF envVars, nodeVars, coordVars

-----------------------------------------------------------------------------
(* One more fact: add_failed_item never leaves an empty failure group.     *)

\* Every error key of node n's failed items holds at least one agent.
NonEmptyGroups(n) == \A k \in DOMAIN res[n].failed : res[n].failed[k] # {}

RInv == IInv /\ \A n \in Node : NonEmptyGroups(n)

\* add_failed_item keeps every group non-empty.
LEMMA AddFailedItemNonEmpty ==
    ASSUME NEW r, IsResult(r), NEW a, NEW e,
           \A k \in DOMAIN r.failed : r.failed[k] # {}
    PROVE  \A k \in DOMAIN AddFailedItem(r, a, e).failed :
              AddFailedItem(r, a, e).failed[k] # {}
BY DEF AddFailedItem, IdsOf, IsResult

LEMMA InitRInv == Init => RInv
<1> SUFFICES ASSUME Init PROVE RInv
    OBVIOUS
<1>1. \A n \in Node : NonEmptyGroups(n)
    BY DEF Init, NonEmptyGroups, EmptyResult
<1> QED
    BY <1>1, InitIInv DEF RInv

LEMMA NextRInv == RInv /\ [Next]_vars => RInv'
<1> SUFFICES ASSUME RInv, [Next]_vars PROVE RInv'
    OBVIOUS
<1>1. IInv'
    BY NextIInv DEF RInv
<1>2. DOMAIN res = Node /\ \A n \in Node : IsResult(res[n])
    BY DEF RInv, IInv, TypeOK
<1>3. ASSUME NEW m \in Node PROVE NonEmptyGroups(m)'
    <2>1. CASE \E n \in Node, a \in Agent : RunCommandAgent(n, a)
        <3>1. PICK n \in Node, a \in Agent : RunCommandAgent(n, a)
            BY <2>1
        <3>2. CASE m # n
            <4>1. res'[m] = res[m]
                BY <1>2, <3>1, <3>2 DEF RunCommandAgent
            <4> QED
                BY <4>1 DEF RInv, NonEmptyGroups
        <3>3. CASE m = n
            <4>1. CASE \E e : res' = [res EXCEPT ![n] = AddFailedItem(@, a, e)]
                <5>1. PICK e : res' = [res EXCEPT ![n] = AddFailedItem(@, a, e)]
                    BY <4>1
                <5>2. res'[n] = AddFailedItem(res[n], a, e)
                    BY <1>2, <5>1
                <5> QED
                    BY <1>2, <3>3, <5>2, AddFailedItemNonEmpty DEF RInv, NonEmptyGroups
            <4>2. CASE res' = [res EXCEPT ![n].affected = @ \cup {a}]
                BY <1>2, <3>3, <4>2 DEF RInv, NonEmptyGroups
            <4> QED
                BY <3>1, <4>1, <4>2 DEF RunCommandAgent
        <3> QED
            BY <3>2, <3>3
    <2>2. CASE ~\E n \in Node, a \in Agent : RunCommandAgent(n, a)
        <3>1. res' = res
            BY <2>2 DEF Next, vars, RunCommandStart, QueueConnectFails,
                      RunCommandReturn, Collect, Reply, Environment, nodeVars
        <3> QED
            BY <3>1 DEF RInv, NonEmptyGroups
    <2> QED
        BY <2>1, <2>2
<1> QED
    BY <1>1, <1>3 DEF RInv

-----------------------------------------------------------------------------
(* The mapping, step by step                                               *)

\* A step that decides no agent and leaves the reply alone is a stutter of
\* the abstract fan-out.
LEMMA MappedUnchanged ==
    ASSUME requested' = requested, sent' = sent, outcome' = outcome,
           cpc' = cpc, cpc = "done" => combined' = combined,
           \A a \in Agent : Decided(a)' = Decided(a)
    PROVE  UNCHANGED FS!fsVars
BY DEF FS!fsVars

LEMMA StartMapped ==
    ASSUME RInv, NEW n \in Node, RunCommandStart(n)
    PROVE  UNCHANGED FS!fsVars
<1>1. ASSUME NEW a \in Agent PROVE Decided(a)' = Decided(a)
    <2>1. Owner[a] \in Node
        BY OwnerAssumption
    <2>2. CASE Owner[a] = n
        BY <2>1, <2>2 DEF RunCommandStart, Decided, Mine, RInv, IInv, TypeOK
    <2>3. CASE Owner[a] # n
        BY <2>1, <2>3 DEF RunCommandStart, Decided, RInv, IInv, TypeOK
    <2> QED
        BY <2>2, <2>3
<1> QED
    BY <1>1, MappedUnchanged DEF RunCommandStart

LEMMA ConnectFailsMapped ==
    ASSUME RInv, NEW n \in Node, QueueConnectFails(n)
    PROVE  UNCHANGED FS!fsVars
<1>1. ASSUME NEW a \in Agent PROVE Decided(a)' = Decided(a)
    BY OwnerAssumption DEF QueueConnectFails, Decided, RInv, IInv, TypeOK
<1> QED
    BY <1>1, MappedUnchanged DEF QueueConnectFails

LEMMA ReturnMapped ==
    ASSUME RInv, NEW n \in Node, RunCommandReturn(n)
    PROVE  UNCHANGED FS!fsVars
<1>1. ASSUME NEW a \in Agent PROVE Decided(a)' = Decided(a)
    BY OwnerAssumption DEF RunCommandReturn, Decided, RInv, IInv, TypeOK
<1> QED
    BY <1>1, MappedUnchanged DEF RunCommandReturn

LEMMA EnvironmentMapped ==
    ASSUME Environment
    PROVE  UNCHANGED FS!fsVars
<1>1. ASSUME NEW a \in Agent PROVE Decided(a)' = Decided(a)
    BY DEF Environment, Decided
<1> QED
    BY <1>1, MappedUnchanged DEF Environment

\* Collecting a finished node's answer is a stutter; re-raising a failed
\* node's exception is the abstract abort.
LEMMA CollectMapped ==
    ASSUME RInv, NEW n \in Node, Collect(n)
    PROVE  FS!Abort \/ UNCHANGED FS!fsVars
<1>1. ASSUME NEW a \in Agent PROVE Decided(a)' = Decided(a)
    BY DEF Collect, Decided
<1>2. CASE npc[n] = "failed"
    BY <1>1, <1>2 DEF Collect, FS!Abort
<1>3. CASE npc[n] = "done"
    BY <1>1, <1>3, MappedUnchanged DEF Collect
<1> QED
    BY <1>2, <1>3 DEF Collect

\* The status the mapping gives the agents.
MStatus ==
    [b \in Agent |->
        IF ~Decided(b) THEN [kind |-> "pending"]
        ELSE IF b \in sent THEN [kind |-> "affected"]
        ELSE [kind |-> "failed", error |-> outcome[b]]]

\* No step decides an agent once the coordinator has replied: a node in
\* its loop is not collected.
LEMMA LoopNotReplied ==
    ASSUME RInv, NEW n \in Node, npc[n] = "loop"
    PROVE  cpc # "done"
BY DEF RInv, IInv, CoordInv, Collected

\* One iteration of run_command's loop gives its agent its outcome: the
\* abstract Report.
LEMMA AgentMapped ==
    ASSUME RInv, RInv', NEW n \in Node, NEW a \in Agent, RunCommandAgent(n, a)
    PROVE  FS!Report(a)
<1>1. AgentFrame(n, a)
    BY DEF RunCommandAgent, AgentFrame
<1>2. Owner[a] = n /\ a \in requested /\ a \notin sent
    BY <1>1, AgentFacts DEF RInv
<1>3. cpc # "done" /\ cpc' = cpc /\ requested' = requested
    BY <1>1, LoopNotReplied DEF AgentFrame
<1>4. ~Decided(a) /\ Decided(a)'
    BY <1>1, <1>2 DEF AgentFrame, Decided, RInv, IInv, TypeOK
<1>5. ASSUME NEW b \in Agent \ {a} PROVE MStatus'[b] = MStatus[b]
    <2>1. Decided(b)' = Decided(b)
        BY <1>1, OwnerAssumption DEF AgentFrame, Decided, RInv, IInv, TypeOK
    <2>2. (b \in sent') = (b \in sent) /\ outcome'[b] = outcome[b]
        BY DEF RunCommandAgent, RInv, IInv, TypeOK
    <2> QED
        BY <2>1, <2>2 DEF MStatus
<1>6. outcome'[a] \in ErrorRecord \cup {NoError}
    BY DEF RInv, IInv, TypeOK
<1>7. a \notin sent' => outcome'[a] # NoError
    <2>1. outcome \in [Agent -> ErrorRecord \cup {NoError}]
        BY DEF RInv, IInv, TypeOK
    <2>2. QueueSendFailed # NoError
        <3>1. QueueSendFailed.code = 1014 /\ NoError.code = 0
            BY DEF QueueSendFailed, NoError, Error
        <3> QED
            BY <3>1
    <2> QED
        BY <2>1, <2>2 DEF RunCommandAgent
<1> DEFINE o == IF a \in sent' THEN [kind |-> "affected"]
                ELSE [kind |-> "failed", error |-> outcome'[a]]
<1>8. o \in {FS!Affected} \cup {FS!Failed(e) : e \in ErrorRecord}
    BY <1>6, <1>7 DEF FS!Affected, FS!Failed
<1>9. MStatus' = [MStatus EXCEPT ![a] = o]
    BY <1>4, <1>5 DEF MStatus
<1>10. MStatus[a] = FS!Pending
    BY <1>4 DEF MStatus, FS!Pending, RInv, IInv, TypeOK
<1> QED
    BY <1>2, <1>3, <1>8, <1>9, <1>10 DEF FS!Report, MStatus

\* Once every node is collected, the error keys of the reduction are
\* exactly the errors some requested, unsent agent failed with.
LEMMA ReplyKeys ==
    ASSUME RInv, pending = {}
    PROVE  DOMAIN combined.failed = {outcome[i] : i \in requested \ sent}
<1>1. /\ combined.affected = requested \cap sent
      /\ FailedIds(combined.failed) = requested \ sent
      /\ \A k \in DOMAIN combined.failed :
            combined.failed[k] = {a \in requested \ sent : outcome[a] = k}
    BY ReplyContent DEF RInv
<1>2. Collected = Node /\ \A n \in Node : Handled(n) = Mine(n)
    BY AllHandled DEF RInv
<1>3. ASSUME NEW i \in requested \ sent PROVE outcome[i] \in DOMAIN combined.failed
    <2>1. PICK k \in DOMAIN combined.failed : i \in combined.failed[k]
        BY <1>1 DEF FailedIds
    <2> QED
        BY <1>1, <2>1
<1>4. ASSUME NEW k \in DOMAIN combined.failed
      PROVE  \E i \in requested \ sent : outcome[i] = k
    <2>1. k \in UNION {DOMAIN res[n].failed : n \in Node}
        BY <1>2 DEF RInv, IInv, CoordInv
    <2>2. PICK n \in Node : k \in DOMAIN res[n].failed
        BY <2>1
    <2>3. PICK b \in res[n].failed[k] : TRUE
        BY <2>2 DEF RInv, NonEmptyGroups
    <2>4. b \in Mine(n) \ sent /\ outcome[b] = k
        BY <1>2, <2>2, <2>3 DEF RInv, IInv, NodeInv
    <2> QED
        BY <2>4 DEF Mine
<1> QED
    BY <1>3, <1>4

\* The coordinator's reply is the abstract reply.
LEMMA ReplyMapped ==
    ASSUME RInv, Reply
    PROVE  FS!Reply
<1>1. cpc = "wait" /\ cpc' = "done" /\ pending = {}
      /\ UNCHANGED <<requested, npc, todo, sent, outcome, combined>>
    BY DEF Reply
<1>2. /\ combined.affected = requested \cap sent
      /\ \A k \in DOMAIN combined.failed :
            combined.failed[k] = {a \in requested \ sent : outcome[a] = k}
    BY <1>1, ReplyContent DEF RInv
<1>3. DOMAIN combined.failed = {outcome[i] : i \in requested \ sent}
    BY <1>1, ReplyKeys
<1>4. \A i \in requested : Decided(i)
    <2>1. \A n \in Node : npc[n] = "done" /\ todo[n] = {}
        BY <1>1 DEF RInv, IInv, CoordInv, Collected, NodeInv
    <2> QED
        BY <2>1, OwnerAssumption DEF Decided, RInv, IInv, TypeOK
<1>5. combined = [affected |-> combined.affected, failed |-> combined.failed]
    BY DEF RInv, IInv, TypeOK, IsResult
<1>6. \A i \in requested :
         /\ MStatus[i] = FS!Affected <=> i \in sent
         /\ MStatus[i].kind = "failed" <=> i \notin sent
         /\ i \notin sent => MStatus[i].error = outcome[i]
    BY <1>4 DEF MStatus, FS!Affected, RInv, IInv, TypeOK
<1>7. combined = FS!ReplyOf(MStatus)
    <2> DEFINE F == {i \in requested : MStatus[i].kind = "failed"}
    <2>1. F = requested \ sent
        BY <1>6
    <2>2. {i \in requested : MStatus[i] = FS!Affected} = requested \cap sent
        BY <1>6
    <2>3. {MStatus[i].error : i \in F} = {outcome[i] : i \in requested \ sent}
        BY <1>6, <2>1
    <2>4. \A e : {i \in F : MStatus[i].error = e} = {a \in requested \ sent : outcome[a] = e}
        BY <1>6, <2>1
    <2>5. combined.failed = [e \in {MStatus[i].error : i \in F} |->
                                {i \in F : MStatus[i].error = e}]
        <3>1. combined.failed = [k \in DOMAIN combined.failed |-> combined.failed[k]]
            BY DEF RInv, IInv, TypeOK, IsResult
        <3>2. DOMAIN combined.failed = {MStatus[i].error : i \in F}
            BY <1>3, <2>3
        <3>3. \A k \in DOMAIN combined.failed :
                 combined.failed[k] = {i \in F : MStatus[i].error = k}
            BY <1>2, <2>4
        <3> QED
            BY <3>1, <3>2, <3>3
    <2> QED
        BY <1>2, <1>5, <2>2, <2>5 DEF FS!ReplyOf
<1>8. MStatus' = MStatus
    BY <1>1 DEF MStatus, Decided
<1>9. \A i \in requested : MStatus[i] # FS!Pending
    BY <1>4 DEF MStatus, FS!Pending, RInv, IInv, TypeOK
<1>10. (IF cpc = "wait" THEN "run" ELSE cpc) = "run"
       /\ (IF cpc = "wait" THEN "run" ELSE cpc)' = "done"
       /\ (IF cpc = "done" THEN combined ELSE EmptyResult)' = combined
    BY <1>1
<1> QED
    BY <1>1, <1>7, <1>8, <1>9, <1>10 DEF FS!Reply, MStatus

-----------------------------------------------------------------------------
(* The refinement                                                          *)

LEMMA InitMapped == Init => FS!Init
<1> SUFFICES ASSUME Init PROVE FS!Init
    OBVIOUS
<1>1. \A a \in Agent : ~Decided(a)
    BY OwnerAssumption DEF Init, Decided
<1>2. MStatus = [i \in Agent |-> FS!Pending]
    BY <1>1 DEF MStatus, FS!Pending
<1>3. EmptyResult = FS!NoReply
    BY DEF EmptyResult, FS!NoReply
<1> QED
    BY <1>2, <1>3 DEF Init, FS!Init, MStatus

\* Every step of the fan-out is a step of the abstract fan-out or leaves
\* the mapped state alone.
LEMMA StepMapped == RInv /\ RInv' /\ [Next]_vars => [FS!Next]_FS!fsVars
<1> SUFFICES ASSUME RInv, RInv', [Next]_vars PROVE [FS!Next]_FS!fsVars
    OBVIOUS
<1>1. ASSUME NEW n \in Node, RunCommandStart(n) PROVE [FS!Next]_FS!fsVars
    BY <1>1, StartMapped
<1>2. ASSUME NEW n \in Node, QueueConnectFails(n) PROVE [FS!Next]_FS!fsVars
    BY <1>2, ConnectFailsMapped
<1>3. ASSUME NEW n \in Node, RunCommandReturn(n) PROVE [FS!Next]_FS!fsVars
    BY <1>3, ReturnMapped
<1>4. ASSUME NEW n \in Node, Collect(n) PROVE [FS!Next]_FS!fsVars
    BY <1>4, CollectMapped DEF FS!Next
<1>5. ASSUME NEW n \in Node, NEW a \in Agent, RunCommandAgent(n, a)
      PROVE  [FS!Next]_FS!fsVars
    BY <1>5, AgentMapped DEF FS!Next
<1>6. CASE Reply
    BY <1>6, ReplyMapped DEF FS!Next
<1>7. CASE Environment
    BY <1>7, EnvironmentMapped
<1>8. CASE UNCHANGED vars
    <2>1. \A a \in Agent : Decided(a)' = Decided(a)
        BY <1>8 DEF vars, Decided
    <2> QED
        BY <1>8, <2>1, MappedUnchanged DEF vars
<1> QED
    BY <1>1, <1>2, <1>3, <1>4, <1>5, <1>6, <1>7, <1>8 DEF Next

\* The strengthened invariant holds in every reachable state.
THEOREM RInvHolds == Spec => []RInv
BY InitRInv, NextRInv, PTL DEF Spec

\* The active-response fan-out implements the abstract fan-out: each
\* requested agent gets one outcome that never changes (run_command
\* handles it once), the coordinator replies only after all of them, and
\* its reduced reply is the one the outcomes determine.
THEOREM Refinement == Spec => ImplementsFanoutSpec
BY InitMapped, StepMapped, RInvHolds, PTL DEF Spec, ImplementsFanoutSpec, FS!Spec
=============================================================================
