------------------------ MODULE ClusterRuleset_proofs ------------------------
(***************************************************************************)
(* The per-node cluster reads implement the abstract fan-out FanoutSpec    *)
(* under the mapping FS of ClusterRuleset, for every set of nodes, callee  *)
(* errors and digests.                                                     *)
(*                                                                         *)
(* The refinement needs to know what each node's result holds (nothing     *)
(* before its wrapper ran, its one item or its one failure after) and that *)
(* the coordinator's reduction is exactly the union of the collected       *)
(* results: IInv states both.                                              *)
(***************************************************************************)
EXTENDS ClusterRuleset, TLAPS

USE DEF nodeVars, coordVars

\* The nodes whose result the coordinator has combined, and those of them
\* that failed.
Collected   == targets \ pending
FailedNodes == {m \in Collected : outcome[m] # NoError}

TInv ==
    /\ targets \subseteq Node
    /\ npc \in [Node -> {"idle", "done", "raised"}]
    /\ DOMAIN res = Node
    /\ outcome \in [Node -> CalleeError \cup {NoError}]
    /\ cpc \in {"wait", "done", "aborted"}

\* Node n's result: empty until its wrapper returned, then its one item or
\* its one failure, under the error the ghost outcome holds.
NodeInv(n) ==
    /\ npc[n] # "idle" => n \in targets
    /\ npc[n] # "done" =>
           /\ outcome[n] = NoError
           /\ res[n].affected = {} /\ res[n].failed = [k \in {} |-> {}]
    /\ (npc[n] = "done" /\ outcome[n] = NoError) =>
           res[n].affected = {n} /\ res[n].failed = [k \in {} |-> {}]
    /\ (npc[n] = "done" /\ outcome[n] # NoError) =>
           res[n].affected = {} /\ res[n].failed = [k \in {outcome[n]} |-> {n}]

\* The reduction is the union of the collected results.
CoordInv ==
    /\ pending \subseteq targets
    /\ \A m \in Collected : npc[m] = "done"
    /\ combined = [affected |-> combined.affected, failed |-> combined.failed]
    /\ combined.affected = {m \in Collected : outcome[m] = NoError}
    /\ combined.failed = [k \in {outcome[m] : m \in FailedNodes} |->
                             {m \in Collected : outcome[m] = k}]
    /\ cpc = "done" => pending = {}

IInv == TInv /\ (\A n \in Node : NodeInv(n)) /\ CoordInv

-----------------------------------------------------------------------------
(* The inductive invariant                                                 *)

\* add_failed_item on a new result gives one failure group.
LEMMA AddFailedEmpty ==
    ASSUME NEW r, r.affected = {}, r.failed = [k \in {} |-> {}], NEW n, NEW e
    PROVE  /\ AddFailedItem(r, n, e).affected = {}
           /\ AddFailedItem(r, n, e).failed = [k \in {e} |-> {n}]
BY DEF AddFailedItem, IdsOf

LEMMA InitIInv == Init => IInv
<1> SUFFICES ASSUME Init PROVE IInv
    OBVIOUS
<1>1. targets \subseteq Node /\ pending = targets
    BY DEF Init
<1>2. Collected = {} /\ FailedNodes = {}
    BY <1>1 DEF Collected, FailedNodes
<1>3. CoordInv
    BY <1>1, <1>2 DEF Init, CoordInv, EmptyResult
<1> QED
    BY <1>1, <1>3 DEF Init, IInv, TInv, NodeInv, EmptyResult

\* The wrapper steps of node n, whatever item they carry.
LEMMA WrapperStep ==
    ASSUME IInv, NEW n \in Node, NEW item, Wrapper(n, item)
    PROVE  IInv'
<1>1. /\ n \in targets /\ npc[n] = "idle" /\ outcome[n] = NoError
      /\ res[n].affected = {} /\ res[n].failed = [k \in {} |-> {}]
    BY DEF Wrapper, IInv, NodeInv
<1>2. n \in pending
    BY <1>1 DEF IInv, CoordInv, Collected
<1>3. UNCHANGED <<targets, cpc, pending, combined>>
    BY DEF Wrapper
<1>4. ASSUME NEW m \in Node, m # n
      PROVE  npc'[m] = npc[m] /\ res'[m] = res[m] /\ outcome'[m] = outcome[m]
    BY <1>4 DEF Wrapper, IInv, TInv
<1>5. Collected' = Collected /\ n \notin Collected
    BY <1>2, <1>3 DEF Collected
<1>6. TInv'
    BY DEF Wrapper, IInv, TInv
<1>7. NodeInv(n)'
    <2>0. n \in targets'
        BY <1>1, <1>3
    <2>1. CASE /\ res' = [res EXCEPT ![n].affected = {NodeId(n)}]
               /\ npc' = [npc EXCEPT ![n] = "done"]
               /\ UNCHANGED outcome
        <3>1. res'[n].affected = {n} /\ res'[n].failed = [k \in {} |-> {}]
            BY <1>1, <2>1 DEF NodeId, IInv, TInv
        <3>2. npc'[n] = "done" /\ outcome'[n] = NoError
            BY <1>1, <2>1 DEF IInv, TInv
        <3> QED
            BY <2>0, <3>1, <3>2 DEF NodeInv
    <2>2. CASE \E e \in CalleeError :
                 /\ res' = [res EXCEPT ![n] = AddFailedItem(@, NodeId(n), e)]
                 /\ outcome' = [outcome EXCEPT ![n] = e]
                 /\ npc' = [npc EXCEPT ![n] = "done"]
        <3>1. PICK e \in CalleeError :
                 /\ res' = [res EXCEPT ![n] = AddFailedItem(@, NodeId(n), e)]
                 /\ outcome' = [outcome EXCEPT ![n] = e]
                 /\ npc' = [npc EXCEPT ![n] = "done"]
            BY <2>2
        <3>2. res'[n] = AddFailedItem(res[n], n, e)
            BY <3>1 DEF NodeId, IInv, TInv
        <3>3. /\ AddFailedItem(res[n], n, e).affected = {}
              /\ AddFailedItem(res[n], n, e).failed = [k \in {e} |-> {n}]
            <4>1. res[n].affected = {} /\ res[n].failed = [k \in {} |-> {}]
                BY <1>1
            <4> QED
                BY <4>1 DEF AddFailedItem, IdsOf
        <3>4. outcome'[n] = e /\ npc'[n] = "done" /\ e # NoError
            BY <3>1, CalleeErrorAssumption DEF IInv, TInv
        <3> QED
            BY <2>0, <3>2, <3>3, <3>4 DEF NodeInv
    <2>3. CASE /\ npc' = [npc EXCEPT ![n] = "raised"]
               /\ UNCHANGED <<res, outcome>>
        <3>1. npc'[n] = "raised" /\ res'[n] = res[n] /\ outcome'[n] = outcome[n]
            BY <2>3 DEF IInv, TInv
        <3> QED
            BY <1>1, <2>0, <3>1 DEF NodeInv
    <2> QED
        BY <2>1, <2>2, <2>3 DEF Wrapper
<1>8. ASSUME NEW m \in Node, m # n PROVE NodeInv(m)'
    BY <1>3, <1>4, <1>8 DEF IInv, NodeInv
<1>9. CoordInv'
    <2>1. \A m \in Collected : npc'[m] = "done" /\ outcome'[m] = outcome[m]
        BY <1>4, <1>5 DEF IInv, CoordInv, TInv, Collected
    <2>2. FailedNodes' = FailedNodes
        BY <1>5, <2>1 DEF FailedNodes
    <2>3. \A k : {m \in Collected' : outcome'[m] = k} = {m \in Collected : outcome[m] = k}
        BY <1>5, <2>1
    <2>4. {outcome'[m] : m \in FailedNodes'} = {outcome[m] : m \in FailedNodes}
        BY <2>1, <2>2 DEF FailedNodes
    <2>5. {m \in Collected' : outcome'[m] = NoError} = {m \in Collected : outcome[m] = NoError}
        BY <2>3
    <2>6. combined'.failed = [k \in {outcome'[m] : m \in FailedNodes'} |->
                                {m \in Collected' : outcome'[m] = k}]
        BY <1>3, <2>3, <2>4 DEF IInv, CoordInv
    <2> QED
        BY <1>3, <1>5, <2>1, <2>5, <2>6 DEF IInv, CoordInv
<1> QED
    BY <1>6, <1>7, <1>8, <1>9 DEF IInv
\* Folding a done node's result into the reduction adds it to the collected
\* nodes; re-raising a raised one changes nothing but the coordinator.
LEMMA CollectStep ==
    ASSUME IInv, NEW n \in Node, Collect(n)
    PROVE  IInv'
<1>1. /\ cpc = "wait" /\ n \in pending /\ npc[n] # "idle"
      /\ UNCHANGED <<targets, npc, res, outcome>>
    BY DEF Collect
<1>2. TInv' /\ \A m \in Node : NodeInv(m)'
    BY <1>1 DEF Collect, IInv, TInv, NodeInv
<1>3. ASSUME npc[n] = "raised" PROVE CoordInv'
    <2>1. UNCHANGED <<pending, combined>> /\ cpc' = "aborted"
        BY <1>3 DEF Collect
    <2>2. Collected' = Collected /\ FailedNodes' = FailedNodes
        BY <1>1, <2>1 DEF Collected, FailedNodes
    <2> QED
        BY <1>1, <2>1, <2>2 DEF IInv, CoordInv
<1>4. ASSUME npc[n] = "done" PROVE CoordInv'
    <2>1. pending' = pending \ {n} /\ combined' = Combine(combined, res[n])
          /\ cpc' = cpc
        BY <1>4 DEF Collect
    <2>2. Collected' = Collected \cup {n} /\ n \notin Collected
        BY <1>1, <2>1 DEF IInv, CoordInv, Collected
    <2>3. \A m \in Collected' : npc'[m] = "done"
        BY <1>1, <1>4, <2>2 DEF IInv, CoordInv
    <2>4. combined'.affected = {m \in Collected' : outcome'[m] = NoError}
        <3>1. combined'.affected = combined.affected \cup res[n].affected
            BY <2>1 DEF Combine
        <3>2. res[n].affected = IF outcome[n] = NoError THEN {n} ELSE {}
            BY <1>4 DEF IInv, NodeInv
        <3> QED
            BY <1>1, <2>2, <3>1, <3>2 DEF IInv, CoordInv
    <2>5. \A k : k # NoError =>
                 IdsOf(combined.failed, k) = {m \in Collected : outcome[m] = k}
        BY DEF IInv, CoordInv, FailedNodes, IdsOf
    <2>6. combined'.failed = [k \in {outcome'[m] : m \in FailedNodes'} |->
                                {m \in Collected' : outcome'[m] = k}]
        <3>1. CASE outcome[n] = NoError
            <4>1. res[n].failed = [k \in {} |-> {}]
                BY <1>4, <3>1 DEF IInv, NodeInv
            <4>2. FailedNodes' = FailedNodes
                BY <1>1, <2>2, <3>1 DEF FailedNodes
            <4>3. combined'.failed = combined.failed
                BY <2>1, <4>1 DEF IInv, CoordInv, Combine, MergeFailed, IdsOf
            <4>4. \A k \in {outcome[m] : m \in FailedNodes} :
                     {m \in Collected' : outcome'[m] = k} = {m \in Collected : outcome[m] = k}
                BY <1>1, <2>2, <3>1 DEF FailedNodes
            <4> QED
                BY <1>1, <4>2, <4>3, <4>4 DEF IInv, CoordInv
        <3>2. CASE outcome[n] # NoError
            <4> DEFINE e == outcome[n]
            <4>1. res[n].failed = [k \in {e} |-> {n}]
                BY <1>4, <3>2 DEF IInv, NodeInv
            <4>2. FailedNodes' = FailedNodes \cup {n}
                BY <1>1, <2>2, <3>2 DEF FailedNodes
            <4>3. {outcome'[m] : m \in FailedNodes'} =
                      DOMAIN combined.failed \cup {e}
                BY <1>1, <4>2 DEF IInv, CoordInv
            <4>4. combined'.failed =
                      [k \in DOMAIN combined.failed \cup {e} |->
                          IdsOf(combined.failed, k) \cup (IF k = e THEN {n} ELSE {})]
                BY <2>1, <4>1 DEF Combine, MergeFailed, IdsOf
            <4>5. \A k \in DOMAIN combined.failed \cup {e} : k # NoError
                BY <3>2 DEF IInv, CoordInv, FailedNodes
            <4>6. \A k \in DOMAIN combined.failed \cup {e} :
                     IdsOf(combined.failed, k) \cup (IF k = e THEN {n} ELSE {})
                       = {m \in Collected' : outcome'[m] = k}
                BY <1>1, <2>2, <2>5, <4>5
            <4> QED
                BY <4>3, <4>4, <4>6
        <3> QED
            BY <3>1, <3>2
    <2>7. combined' = [affected |-> combined'.affected, failed |-> combined'.failed]
        BY <2>1 DEF Combine
    <2>8. pending' \subseteq targets' /\ (cpc' = "done" => pending' = {})
        BY <1>1, <2>1 DEF IInv, CoordInv
    <2> QED
        BY <2>3, <2>4, <2>6, <2>7, <2>8 DEF CoordInv
<1>5. npc[n] \in {"done", "raised"}
    BY <1>1 DEF IInv, TInv
<1> QED
    BY <1>2, <1>3, <1>4, <1>5 DEF IInv

LEMMA NextIInv == IInv /\ [Next]_vars => IInv'
<1> SUFFICES ASSUME IInv, [Next]_vars PROVE IInv'
    OBVIOUS
<1>1. ASSUME NEW n \in Node, NodeRun(n) PROVE IInv'
    BY <1>1, WrapperStep DEF NodeRun, ReadConfigWrapper, GetNodeWrapper,
                             GetRulesetSyncStatus
<1>2. ASSUME NEW n \in Node, Collect(n) PROVE IInv'
    BY <1>2, CollectStep
<1>3. CASE Reply
    <2>1. UNCHANGED <<targets, npc, res, outcome, pending, combined>>
          /\ pending = {}
        BY <1>3 DEF Reply
    <2>2. Collected' = Collected /\ FailedNodes' = FailedNodes
        BY <2>1 DEF Collected, FailedNodes
    <2>3. TInv' /\ \A m \in Node : NodeInv(m)'
        BY <1>3, <2>1 DEF Reply, IInv, TInv, NodeInv
    <2>4. CoordInv'
        BY <2>1, <2>2 DEF IInv, CoordInv
    <2> QED
        BY <2>3, <2>4 DEF IInv
<1>4. CASE UNCHANGED vars
    <2>1. UNCHANGED <<op, targets, npc, res, outcome, cpc, pending, combined>>
        BY <1>4 DEF vars
    <2>2. Collected' = Collected /\ FailedNodes' = FailedNodes
        BY <2>1 DEF Collected, FailedNodes
    <2>3. TInv' /\ \A m \in Node : NodeInv(m)'
        BY <2>1 DEF IInv, TInv, NodeInv
    <2>4. CoordInv'
        BY <2>1, <2>2 DEF IInv, CoordInv
    <2> QED
        BY <2>3, <2>4 DEF IInv
<1> QED
    BY <1>1, <1>2, <1>3, <1>4 DEF Next

\* IInv holds in every state of the node reads.
THEOREM IInvHolds == Spec => []IInv
BY InitIInv, NextIInv, PTL DEF Spec
-----------------------------------------------------------------------------
(* The mapping, step by step                                               *)

\* The status the mapping gives the nodes.
MStatus ==
    [m \in Node |->
        IF npc[m] # "done" THEN [kind |-> "pending"]
        ELSE IF outcome[m] = NoError THEN [kind |-> "affected"]
        ELSE [kind |-> "failed", error |-> outcome[m]]]

\* A wrapper that returns or records its SecuricsError gives its node its
\* outcome (the abstract Report); one that raises is a stutter.
LEMMA WrapperMapped ==
    ASSUME IInv, NEW n \in Node, NEW item, Wrapper(n, item)
    PROVE  FS!Report(n) \/ UNCHANGED FS!fsVars
<1>1. /\ n \in targets /\ npc[n] = "idle" /\ n \in pending
      /\ UNCHANGED <<targets, cpc, pending, combined>>
    BY DEF Wrapper, IInv, NodeInv, CoordInv, Collected
<1>2. cpc # "done"
    BY <1>1 DEF IInv, CoordInv
<1>3. ASSUME NEW m \in Node, m # n PROVE MStatus'[m] = MStatus[m]
    BY <1>3 DEF Wrapper, MStatus, IInv, TInv
<1>4. MStatus[n] = FS!Pending
    BY <1>1 DEF MStatus, FS!Pending
<1>5. (IF cpc = "wait" THEN "run" ELSE cpc) # "done"
      /\ UNCHANGED (IF cpc = "wait" THEN "run" ELSE cpc)
      /\ UNCHANGED (IF cpc = "done" THEN combined ELSE EmptyResult)
    BY <1>1, <1>2
<1>6. CASE npc'[n] = "done"
    <2>1. MStatus' = [MStatus EXCEPT ![n] = MStatus'[n]]
        BY <1>3 DEF MStatus
    <2>2. outcome'[n] \in CalleeError \cup {NoError}
        BY <1>6, WrapperStep DEF IInv, TInv
    <2>3. MStatus'[n] \in {FS!Affected} \cup {FS!Failed(e) : e \in CalleeError}
        BY <1>6, <2>2 DEF MStatus, FS!Affected, FS!Failed
    <2> QED
        BY <1>1, <1>4, <1>5, <2>1, <2>3 DEF FS!Report, MStatus
<1>7. CASE npc'[n] # "done"
    <2>1. MStatus' = MStatus
        BY <1>1, <1>3, <1>7 DEF MStatus
    <2> QED
        BY <1>1, <1>5, <2>1 DEF FS!fsVars, MStatus
<1> QED
    BY <1>6, <1>7

\* Folding a done node's answer is a stutter; re-raising a raised node's
\* exception is the abstract abort.
LEMMA CollectMapped ==
    ASSUME NEW n \in Node, Collect(n)
    PROVE  FS!Abort \/ UNCHANGED FS!fsVars
<1>1. UNCHANGED <<targets, npc, outcome>> /\ cpc = "wait"
    BY DEF Collect
<1>2. MStatus' = MStatus
    BY <1>1 DEF MStatus
<1>3. CASE npc[n] = "raised"
    BY <1>1, <1>2, <1>3 DEF Collect, FS!Abort, MStatus
<1>4. CASE npc[n] = "done"
    <2>1. cpc' = "wait"
        BY <1>1, <1>4 DEF Collect
    <2> QED
        BY <1>1, <1>2, <2>1 DEF FS!fsVars, MStatus
<1> QED
    BY <1>3, <1>4 DEF Collect
\* The coordinator's reply, once every target is collected, is the reply
\* the outcomes determine.
LEMMA ReplyMapped ==
    ASSUME IInv, Reply
    PROVE  FS!Reply
<1>1. /\ cpc = "wait" /\ cpc' = "done" /\ pending = {}
      /\ UNCHANGED <<targets, npc, outcome, combined>>
    BY DEF Reply
<1>2. Collected = targets /\ \A m \in targets : npc[m] = "done"
    BY <1>1 DEF IInv, CoordInv, Collected
<1>3. \A m \in targets :
         /\ MStatus[m] = FS!Affected <=> outcome[m] = NoError
         /\ MStatus[m].kind = "failed" <=> outcome[m] # NoError
         /\ outcome[m] # NoError => MStatus[m].error = outcome[m]
         /\ MStatus[m] # FS!Pending
    BY <1>2 DEF MStatus, FS!Affected, FS!Pending, IInv, TInv
<1>4. combined = FS!ReplyOf(MStatus)
    <2> DEFINE F == {i \in targets : MStatus[i].kind = "failed"}
    <2>1. F = FailedNodes
        BY <1>2, <1>3 DEF FailedNodes
    <2>2. {i \in targets : MStatus[i] = FS!Affected} = combined.affected
        BY <1>2, <1>3 DEF IInv, CoordInv
    <2>3. {MStatus[i].error : i \in F} = {outcome[m] : m \in FailedNodes}
        BY <1>3, <2>1 DEF FailedNodes
    <2>4. \A k \in {outcome[m] : m \in FailedNodes} :
             {i \in F : MStatus[i].error = k} = {m \in Collected : outcome[m] = k}
        BY <1>2, <1>3, <2>1 DEF FailedNodes
    <2>5. combined.failed = [k \in {MStatus[i].error : i \in F} |->
                                {i \in F : MStatus[i].error = k}]
        BY <2>3, <2>4 DEF IInv, CoordInv
    <2> QED
        BY <2>2, <2>5 DEF FS!ReplyOf, IInv, CoordInv
<1>5. MStatus' = MStatus
    BY <1>1 DEF MStatus
<1> QED
    BY <1>1, <1>3, <1>4, <1>5 DEF FS!Reply, MStatus

-----------------------------------------------------------------------------
(* The refinement                                                          *)

LEMMA InitMapped == Init => FS!Init
<1> SUFFICES ASSUME Init PROVE FS!Init
    OBVIOUS
<1>1. MStatus = [i \in Node |-> FS!Pending]
    BY DEF Init, MStatus, FS!Pending
<1>2. targets \subseteq Node /\ EmptyResult = FS!NoReply
    BY DEF Init, EmptyResult, FS!NoReply
<1> QED
    BY <1>1, <1>2 DEF Init, FS!Init, MStatus

\* Every step of the node reads is a step of the abstract fan-out or
\* leaves the mapped state alone.
LEMMA StepMapped == IInv /\ [Next]_vars => [FS!Next]_FS!fsVars
<1> SUFFICES ASSUME IInv, [Next]_vars PROVE [FS!Next]_FS!fsVars
    OBVIOUS
<1>1. ASSUME NEW n \in Node, NodeRun(n) PROVE [FS!Next]_FS!fsVars
    <2>1. \E item : Wrapper(n, item)
        BY <1>1 DEF NodeRun, ReadConfigWrapper, GetNodeWrapper,
                    GetRulesetSyncStatus
    <2> QED
        BY <2>1, WrapperMapped DEF FS!Next
<1>2. ASSUME NEW n \in Node, Collect(n) PROVE [FS!Next]_FS!fsVars
    BY <1>2, CollectMapped DEF FS!Next
<1>3. CASE Reply
    BY <1>3, ReplyMapped DEF FS!Next
<1>4. CASE UNCHANGED vars
    BY <1>4 DEF vars, FS!fsVars
<1> QED
    BY <1>1, <1>2, <1>3, <1>4 DEF Next

\* The node reads of cluster.py implement the abstract fan-out: every
\* node a request is sent to gets one outcome that never changes (its
\* wrapper runs once), the coordinator replies only after all of them,
\* and its combined reply is the one the outcomes determine.
THEOREM Refinement == Spec => ImplementsFanoutSpec
BY InitMapped, StepMapped, IInvHolds, PTL DEF Spec, ImplementsFanoutSpec, FS!Spec
-----------------------------------------------------------------------------
(* Type correctness                                                        *)

\* What no step changes or only ever sets to a Boolean: the request, the
\* digests, and the 'synced' fields.
FrameInv ==
    /\ op \in {"config", "node", "ruleset"}
    /\ targets \subseteq Node /\ targets # {}
    /\ masterMd5 \in Digest /\ digest \in [Node -> Digest]
    /\ synced \in [Node -> BOOLEAN]

LEMMA FrameStep == FrameInv /\ [Next]_vars => FrameInv'
<1> SUFFICES ASSUME FrameInv, [Next]_vars PROVE FrameInv'
    OBVIOUS
<1>1. ASSUME NEW n \in Node, NodeRun(n) PROVE FrameInv'
    <2>1. \E item \in BOOLEAN : Wrapper(n, item)
        BY <1>1 DEF NodeRun, ReadConfigWrapper, GetNodeWrapper,
                    GetRulesetSyncStatus
    <2> QED
        BY <2>1 DEF Wrapper, FrameInv
<1>2. ASSUME NEW n \in Node, Collect(n) PROVE FrameInv'
    BY <1>2 DEF Collect, FrameInv
<1>3. CASE Reply
    BY <1>3 DEF Reply, FrameInv
<1>4. CASE UNCHANGED vars
    BY <1>4 DEF vars, FrameInv
<1> QED
    BY <1>1, <1>2, <1>3, <1>4 DEF Next

LEMMA FrameHolds == Spec => []FrameInv
<1>1. Init => FrameInv
    BY DEF Init, FrameInv
<1> QED
    BY <1>1, FrameStep, PTL DEF Spec

\* Every variable of the node reads keeps its type: each node's result
\* holds at most its own node_id, affected or failed under a SecuricsError
\* a callee raised, and the reduction only nodes and such errors.
THEOREM TypeCorrect == Spec => []TypeOK
<1>1. FrameInv /\ IInv => TypeOK
    <2> SUFFICES ASSUME FrameInv, IInv PROVE TypeOK
        OBVIOUS
    <2>1. ASSUME NEW n \in Node
          PROVE  /\ res[n].affected \subseteq {n}
                 /\ DOMAIN res[n].failed \subseteq CalleeError
                 /\ FailedIds(res[n].failed) \subseteq {n}
        <3>1. outcome[n] \in CalleeError \cup {NoError}
            BY DEF IInv, TInv
        <3> QED
            BY <3>1 DEF IInv, NodeInv, FailedIds
    <2>2. combined.affected \subseteq Node /\ DOMAIN combined.failed \subseteq CalleeError
        <3>1. \A m \in FailedNodes : outcome[m] \in CalleeError
            BY CalleeErrorAssumption DEF IInv, TInv, FailedNodes, CoordInv, Collected
        <3> QED
            BY <3>1 DEF IInv, TInv, CoordInv, Collected
    <2> QED
        BY <2>1, <2>2 DEF FrameInv, IInv, TInv, CoordInv, TypeOK
<1> QED
    BY <1>1, FrameHolds, IInvHolds, PTL
=============================================================================
