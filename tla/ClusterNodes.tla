---------------------------- MODULE ClusterNodes ----------------------------
(***************************************************************************)
(* The master's node listings of securics/cluster.py: get_nodes_info and   *)
(* get_health_nodes, each one request on the master.                       *)
(*                                                                         *)
(* get_nodes_info splits the requested names with the cluster_nodes        *)
(* context value, the node list the request was dispatched with: the       *)
(* names it does not hold fail with SecuricsResourceNotFound(1730), the    *)
(* others are asked of get_nodes, after an await.  get_health_nodes asks   *)
(* get_health for the requested names and lists what it returns.  Workers  *)
(* connect and disconnect meanwhile.                                       *)
(*                                                                         *)
(* get_nodes and get_health (securics/core/cluster/control.py) are not in  *)
(* the repository, so what they do is an assumption of this model, kept    *)
(* loose: they return the entries of the connected nodes the filter       *)
(* selects, or raise (for instance when the local server cannot be        *)
(* reached, or for a requested node that is no longer connected), and the *)
(* wrapper does not catch the exception.  No property depends on which of *)
(* the two they do for a node that left during the request.              *)
(***************************************************************************)
EXTENDS FanoutResult, Naturals, FiniteSets

CONSTANTS
    Node,     \* node names a request may name
    Master    \* the master, which runs both wrappers

ASSUME MasterAssumption == Master \in Node

\* A cluster has finitely many nodes (cluster.json lists them).
ASSUME NodeAssumption == IsFiniteSet(Node)

VARIABLES
    connected,    \* nodes connected to the master now
    known,        \* common.cluster_nodes of the request (read at dispatch)
    op,           \* the wrapper the request runs: "nodes_info" or "health"
    filter,       \* filter_node of the request
    pc,           \* "start", "await", "done" or "raised"
    nodes,        \* get_nodes_info: requested names cluster_nodes holds
    res,          \* the AffectedItemsSecuricsResult, ids are node names
    total,        \* total_affected_items
    left          \* ghost: nodes that disconnected while the request ran

vars == <<connected, known, op, filter, pc, nodes, res, total, left>>

NodeNotFound == [code |-> 1730, msg |-> ""]   \* SecuricsResourceNotFound(1730)

\* get_nodes(filter_node=f) and get_health(filter_node=f): the names of the
\* connected nodes that f selects.
GetNodes(f) == f \cap connected

-----------------------------------------------------------------------------
Init ==
    /\ connected \in {c \in SUBSET Node : Master \in c}
    /\ known = connected
    /\ op \in {"nodes_info", "health"}
    /\ filter \in SUBSET Node
    /\ pc = "start"
    /\ nodes = {}
    /\ res = EmptyResult
    /\ total = 0
    /\ left = {}

\* Bug variant of the split: nodes is the whole cluster_nodes list, the
\* intersection with filter_node dropped.
NodesInfoSplitAllKnown ==
    /\ op = "nodes_info" /\ pc = "start"
    /\ nodes' = known
    /\ res' = [affected |-> res.affected, failed |->
                 [e \in IF filter \ known = {} THEN {} ELSE {NodeNotFound}
                    |-> filter \ known]]
    /\ pc' = "await"
    /\ UNCHANGED <<connected, known, op, filter, total, left>>

\* get_nodes_info up to its await: nodes = filter & cluster_nodes, and the
\* names outside it are non_existent_nodes.  Their failures are added after
\* the await, but nothing in between reads them, so they are recorded here.
NodesInfoSplit ==
    /\ op = "nodes_info" /\ pc = "start"
    /\ nodes' = filter \cap known
    /\ res' = [affected |-> res.affected, failed |->
                 [e \in IF filter \ known = {} THEN {} ELSE {NodeNotFound}
                    |-> filter \ known]]
    /\ pc' = "await"
    /\ UNCHANGED <<connected, known, op, filter, total, left>>

\* Bug variant of the call: get_nodes is asked for every requested name
\* (filter_node) instead of the ones cluster_nodes holds (list(nodes)).
NodesInfoReturnUnsplit ==
    /\ op = "nodes_info" /\ pc = "await"
    /\ res' = [affected |-> GetNodes(filter), failed |-> res.failed]
    /\ total' = Cardinality(GetNodes(filter))
    /\ pc' = "done"
    /\ UNCHANGED <<connected, known, op, filter, nodes, left>>

\* get_nodes returns: its items are appended and total_affected_items is
\* its totalItems (paging, passed through **kwargs, is not modelled, so
\* totalItems counts the items).
NodesInfoReturn ==
    /\ op = "nodes_info" /\ pc = "await"
    /\ res' = [affected |-> GetNodes(nodes), failed |-> res.failed]
    /\ total' = Cardinality(GetNodes(nodes))
    /\ pc' = "done"
    /\ UNCHANGED <<connected, known, op, filter, nodes, left>>

\* get_health_nodes: the health of every node get_health returns is
\* appended, the list sorted by name and counted.
HealthReturn ==
    /\ op = "health" /\ pc = "start"
    /\ res' = [affected |-> GetNodes(filter), failed |-> res.failed]
    /\ total' = Cardinality(GetNodes(filter))
    /\ pc' = "done"
    /\ UNCHANGED <<connected, known, op, filter, nodes, left>>

\* get_nodes or get_health raises; the wrapper lets the exception through.
CallRaises ==
    /\ \/ op = "nodes_info" /\ pc = "await"
       \/ op = "health" /\ pc = "start"
    /\ pc' = "raised"
    /\ UNCHANGED <<connected, known, op, filter, nodes, res, total, left>>

\* A worker connects to the master.
Connect(n) ==
    /\ n \notin connected
    /\ connected' = connected \cup {n}
    /\ UNCHANGED <<known, op, filter, pc, nodes, res, total, left>>

\* A worker disconnects; a request still running notes it.
Disconnect(n) ==
    /\ n \in connected \ {Master}
    /\ connected' = connected \ {n}
    /\ left' = IF pc \in {"start", "await"} THEN left \cup {n} ELSE left
    /\ UNCHANGED <<known, op, filter, pc, nodes, res, total>>

Next ==
    \/ NodesInfoSplit \/ NodesInfoReturn \/ HealthReturn \/ CallRaises
    \/ \E n \in Node : Connect(n) \/ Disconnect(n)

Spec == Init /\ [][Next]_vars

-----------------------------------------------------------------------------
TypeOK ==
    /\ Master \in connected /\ connected \subseteq Node
    /\ known \subseteq Node /\ filter \subseteq Node /\ nodes \subseteq filter
    /\ op \in {"nodes_info", "health"}
    /\ pc \in {"start", "await", "done", "raised"}
    /\ res.affected \subseteq Node
    /\ DOMAIN res.failed \subseteq {NodeNotFound}
    /\ total \in Nat /\ left \subseteq Node

\* Every name a get_nodes_info reply covers, affected or failed with 1730,
\* was requested, and none is both; when no requested node disconnected
\* while the request ran, every requested name is covered (spec.md 3: one
\* outcome per target).  This is what the split of cluster.py:128-129 and
\* the failures of lines 134-135 must achieve together.
NodesInfoReportedWhenStable ==
    (op = "nodes_info" /\ pc = "done") =>
        /\ res.affected \cap FailedIds(res.failed) = {}
        /\ res.affected \cup FailedIds(res.failed) \subseteq filter
        /\ filter \cap left = {} =>
               res.affected \cup FailedIds(res.failed) = filter
=============================================================================
