------------------------- MODULE ClusterNodes_proofs -------------------------
(***************************************************************************)
(* get_nodes_info reports every requested node once when no requested node *)
(* disconnects, proved for every set of nodes.                             *)
(*                                                                         *)
(* The invariant is not inductive: it speaks of the reply only.  IInv adds *)
(* what the request keeps between its steps: the split of filter_node     *)
(* into nodes and the 1730 failures, and that every node of the split the  *)
(* master no longer has is one that disconnected during the request (the   *)
(* nodes get_nodes can drop).                                              *)
(***************************************************************************)
EXTENDS ClusterNodes, FiniteSetTheorems, TLAPS

\* The result of the split: nodes are the requested names cluster_nodes
\* holds, the others failed with 1730.
Split ==
    /\ nodes = filter \cap known
    /\ DOMAIN res.failed \subseteq {NodeNotFound}
    /\ FailedIds(res.failed) = filter \ known

IInv ==
    /\ pc \in {"start", "await", "done", "raised"}
    /\ op \in {"nodes_info", "health"}
    /\ res = [affected |-> res.affected, failed |-> res.failed]
    /\ pc = "start" => res = EmptyResult
    /\ pc \in {"start", "await"} => known \ connected \subseteq left
    /\ (op = "nodes_info" /\ pc \in {"await", "done"}) => Split
    /\ (op = "nodes_info" /\ pc = "await") => res.affected = {}
    /\ (op = "nodes_info" /\ pc = "done") =>
           /\ res.affected \subseteq nodes
           /\ nodes \ res.affected \subseteq left

-----------------------------------------------------------------------------
(* Type correctness                                                        *)

\* total_affected_items counts a set of node names: a natural number.
LEMMA CountIsNat ==
    ASSUME NEW S \in SUBSET Node
    PROVE  Cardinality(S) \in Nat
BY NodeAssumption, FS_Subset, FS_CardinalityType

LEMMA TypeStep == TypeOK /\ [Next]_vars => TypeOK'
<1> SUFFICES ASSUME TypeOK, [Next]_vars PROVE TypeOK'
    OBVIOUS
<1>1. CASE NodesInfoSplit
    BY <1>1 DEF NodesInfoSplit, TypeOK
<1>2. CASE NodesInfoReturn
    BY <1>2, CountIsNat DEF NodesInfoReturn, TypeOK, GetNodes
<1>3. CASE HealthReturn
    BY <1>3, CountIsNat DEF HealthReturn, TypeOK, GetNodes
<1>4. CASE CallRaises
    BY <1>4 DEF CallRaises, TypeOK
<1>5. ASSUME NEW n \in Node, Connect(n) PROVE TypeOK'
    BY <1>5 DEF Connect, TypeOK
<1>6. ASSUME NEW n \in Node, Disconnect(n) PROVE TypeOK'
    BY <1>6 DEF Disconnect, TypeOK
<1>7. CASE UNCHANGED vars
    BY <1>7 DEF vars, TypeOK
<1> QED
    BY <1>1, <1>2, <1>3, <1>4, <1>5, <1>6, <1>7 DEF Next

\* Every variable of the master's listing requests keeps its type: the
\* master stays connected, nodes stays within filter_node, the failures
\* are only ever the 1730 of a name cluster_nodes lacks, and
\* total_affected_items is a count.
THEOREM TypeCorrect == Spec => []TypeOK
<1>1. Init => TypeOK
    BY MasterAssumption DEF Init, TypeOK, EmptyResult
<1> QED
    BY <1>1, TypeStep, PTL DEF Spec

-----------------------------------------------------------------------------
\* The failed-items map the split builds holds exactly the names given.
LEMMA FailedMapIds ==
    ASSUME NEW S, NEW e
    PROVE  FailedIds([k \in IF S = {} THEN {} ELSE {e} |-> S]) = S
BY DEF FailedIds

LEMMA InitIInv == Init => IInv
BY DEF Init, IInv, EmptyResult

LEMMA SplitStep ==
    ASSUME IInv, NodesInfoSplit PROVE IInv'
<1> DEFINE f == [k \in IF filter \ known = {} THEN {} ELSE {NodeNotFound}
                    |-> filter \ known]
<1>1. res.affected = {}
    BY DEF NodesInfoSplit, IInv, EmptyResult
<1>2. res' = [affected |-> {}, failed |-> f]
    BY <1>1 DEF NodesInfoSplit
<1>3. FailedIds(f) = filter \ known
    BY FailedMapIds
<1>4. Split'
    BY <1>2, <1>3 DEF NodesInfoSplit, Split
<1> QED
    BY <1>2, <1>4 DEF NodesInfoSplit, IInv

LEMMA ReturnStep ==
    ASSUME IInv, NodesInfoReturn PROVE IInv'
<1>1. Split /\ res.affected = {} /\ known \ connected \subseteq left
    BY DEF NodesInfoReturn, IInv
<1>2. res' = [affected |-> nodes \cap connected, failed |-> res.failed]
    BY DEF NodesInfoReturn, IInv, GetNodes
<1>3. Split'
    BY <1>1, <1>2 DEF NodesInfoReturn, Split
<1>4. nodes \ (nodes \cap connected) \subseteq left
    BY <1>1 DEF Split
<1> QED
    BY <1>2, <1>3, <1>4 DEF NodesInfoReturn, IInv

LEMMA HealthStep ==
    ASSUME IInv, HealthReturn PROVE IInv'
BY DEF HealthReturn, IInv, Split

LEMMA RaiseStep ==
    ASSUME IInv, CallRaises PROVE IInv'
BY DEF CallRaises, IInv, Split

LEMMA ConnectStep ==
    ASSUME IInv, NEW n \in Node, Connect(n) PROVE IInv'
BY DEF Connect, IInv, Split

LEMMA DisconnectStep ==
    ASSUME IInv, NEW n \in Node, Disconnect(n) PROVE IInv'
<1>1. pc \in {"start", "await"} => known \ connected' \subseteq left'
    BY DEF Disconnect, IInv
<1>2. left \subseteq left'
    BY DEF Disconnect
<1> QED
    BY <1>1, <1>2 DEF Disconnect, IInv, Split

LEMMA NextIInv == IInv /\ [Next]_vars => IInv'
<1> SUFFICES ASSUME IInv, [Next]_vars PROVE IInv'
    OBVIOUS
<1>1. CASE NodesInfoSplit  BY <1>1, SplitStep
<1>2. CASE NodesInfoReturn BY <1>2, ReturnStep
<1>3. CASE HealthReturn    BY <1>3, HealthStep
<1>4. CASE CallRaises      BY <1>4, RaiseStep
<1>5. CASE \E n \in Node : Connect(n) \/ Disconnect(n)
    BY <1>5, ConnectStep, DisconnectStep
<1>6. CASE UNCHANGED vars
    BY <1>6 DEF vars, IInv, Split
<1> QED
    BY <1>1, <1>2, <1>3, <1>4, <1>5, <1>6 DEF Next

\* IInv holds in every state of the master's listing requests.
THEOREM IInvHolds == Spec => []IInv
BY InitIInv, NextIInv, PTL DEF Spec

-----------------------------------------------------------------------------
\* The reply of get_nodes_info (cluster.py:128-138) never lists a node both
\* as affected and as not found, lists only requested nodes, and lists every
\* requested node when none of them disconnected while the request ran.
THEOREM ReportedWhenStable == Spec => []NodesInfoReportedWhenStable
<1>1. IInv => NodesInfoReportedWhenStable
    <2> SUFFICES ASSUME IInv, op = "nodes_info", pc = "done"
                 PROVE  NodesInfoReportedWhenStable
        BY DEF NodesInfoReportedWhenStable
    <2>1. Split /\ res.affected \subseteq nodes /\ nodes \ res.affected \subseteq left
        BY DEF IInv
    <2> QED
        BY <2>1 DEF Split, NodesInfoReportedWhenStable
<1> QED
    BY <1>1, IInvHolds, PTL
=============================================================================
