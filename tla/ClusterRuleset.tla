--------------------------- MODULE ClusterRuleset ---------------------------
(***************************************************************************)
(* The per-node reads of securics/cluster.py, fanned out by the            *)
(* distributed API to the nodes a request names: read_config_wrapper and   *)
(* get_node_wrapper to the one node they read, get_ruleset_sync_status to  *)
(* every node whose ruleset is compared with the master's digest.  Each    *)
(* node builds its own result, its failure recorded under its node_id, and *)
(* the coordinator combines the node results as they arrive.               *)
(*                                                                         *)
(* The callees (read_config, get_node, get_node_ruleset_integrity) are not *)
(* in the repository: a call returns, raises a SecuricsError, which the    *)
(* wrapper records, or raises anything else (the KeyError or               *)
(* JSONDecodeError of core/cluster/tests/test_control.py), which escapes   *)
(* the wrapper and makes the coordinator re-raise.                         *)
(***************************************************************************)
EXTENDS FanoutResult, Naturals, FiniteSets

CONSTANTS
    Node,         \* cluster nodes; each node's node_id is its name
    CalleeError,  \* the SecuricsErrors a callee may raise
    Digest        \* ruleset digests

VARIABLES
    op,           \* "config", "node" or "ruleset"
    targets,      \* the nodes the request is sent to
    masterMd5,    \* master_md5, the master's ruleset digest
    digest,       \* digest[n]: node n's ruleset integrity
    npc,          \* npc[n]: "idle", "done" or "raised"
    res,          \* res[n]: node n's AffectedItemsSecuricsResult
    synced,       \* synced[n]: the 'synced' field of node n's item
    outcome,      \* ghost: outcome[n], the error node n failed with
    cpc,          \* the coordinator: "wait", "done" or "aborted"
    pending,      \* nodes whose result is not yet combined
    combined      \* the coordinator's reduction

nodeVars  == <<npc, res, synced, outcome>>
coordVars == <<cpc, pending, combined>>
vars == <<op, targets, masterMd5, digest, nodeVars, coordVars>>

NoError == [code |-> 0, msg |-> ""]

\* A SecuricsError always carries a non-zero code.
ASSUME CalleeErrorAssumption == NoError \notin CalleeError

-----------------------------------------------------------------------------
Init ==
    /\ op \in {"config", "node", "ruleset"}
    /\ targets \in IF op = "ruleset" THEN (SUBSET Node) \ {{}}
                   ELSE {{n} : n \in Node}
    /\ masterMd5 \in Digest
    /\ digest \in [Node -> Digest]
    /\ npc = [n \in Node |-> "idle"]
    /\ res = [n \in Node |-> EmptyResult]
    /\ synced = [n \in Node |-> FALSE]
    /\ outcome = [n \in Node |-> NoError]
    /\ cpc = "wait"
    /\ pending = targets
    /\ combined = EmptyResult

\* Bug variant of NodeId: the module was imported with the cluster disabled,
\* so node_id is None.
NodeIdDisabled(n) == "None"

\* node_id, read once at import: the name get_node gives the node.
NodeId(n) == n

\* Bug variant of Wrapper: the item is appended before the call, so a node
\* whose call fails is both affected and failed.
WrapperAppendFirst(n, item) ==
    /\ n \in targets /\ npc[n] = "idle"
    /\ \/ /\ res' = [res EXCEPT ![n].affected = {NodeId(n)}]
          /\ synced' = [synced EXCEPT ![n] = item]
          /\ npc' = [npc EXCEPT ![n] = "done"]
          /\ UNCHANGED outcome
       \/ \E e \in CalleeError :
            /\ res' = [res EXCEPT ![n] =
                 AddFailedItem([@ EXCEPT !.affected = {NodeId(n)}], NodeId(n), e)]
            /\ outcome' = [outcome EXCEPT ![n] = e]
            /\ npc' = [npc EXCEPT ![n] = "done"]
            /\ UNCHANGED synced
       \/ /\ npc' = [npc EXCEPT ![n] = "raised"]
          /\ UNCHANGED <<res, synced, outcome>>
    /\ UNCHANGED <<op, targets, masterMd5, digest, coordVars>>

\* The body the three wrappers share, on node n: try the callee; when it
\* returns, its value is appended (item is the 'synced' field it carries);
\* when it raises a SecuricsError e, e is recorded under node_id; when it
\* raises anything else, the wrapper raises it.  In the first two cases
\* total_affected_items is the length of affected_items.
Wrapper(n, item) ==
    /\ n \in targets /\ npc[n] = "idle"
    /\ \/ /\ res' = [res EXCEPT ![n].affected = {NodeId(n)}]
          /\ synced' = [synced EXCEPT ![n] = item]
          /\ npc' = [npc EXCEPT ![n] = "done"]
          /\ UNCHANGED outcome
       \/ \E e \in CalleeError :
            /\ res' = [res EXCEPT ![n] = AddFailedItem(@, NodeId(n), e)]
            /\ outcome' = [outcome EXCEPT ![n] = e]
            /\ npc' = [npc EXCEPT ![n] = "done"]
            /\ UNCHANGED synced
       \/ /\ npc' = [npc EXCEPT ![n] = "raised"]
          /\ UNCHANGED <<res, synced, outcome>>
    /\ UNCHANGED <<op, targets, masterMd5, digest, coordVars>>

\* read_config_wrapper on node n: the callee is read_config.
ReadConfigWrapper(n) == op = "config" /\ Wrapper(n, FALSE)

\* get_node_wrapper on node n: the callee is get_node.
GetNodeWrapper(n) == op = "node" /\ Wrapper(n, FALSE)

\* get_ruleset_sync_status on node n: the callee is
\* get_node_ruleset_integrity, and the item appended is {'name': node_id,
\* 'synced': master_md5 == node_ruleset_integrity}.
GetRulesetSyncStatus(n) == op = "ruleset" /\ Wrapper(n, masterMd5 = digest[n])

NodeRun(n) == ReadConfigWrapper(n) \/ GetNodeWrapper(n) \/ GetRulesetSyncStatus(n)

\* The coordinator folds node n's answer into its reduction; an answer
\* that is an exception is re-raised and ends the request.
Collect(n) ==
    /\ cpc = "wait" /\ n \in pending /\ npc[n] # "idle"
    /\ \/ /\ npc[n] = "raised"
          /\ cpc' = "aborted"
          /\ UNCHANGED <<pending, combined>>
       \/ /\ npc[n] = "done"
          /\ combined' = Combine(combined, res[n])
          /\ pending' = pending \ {n}
          /\ UNCHANGED cpc
    /\ UNCHANGED <<op, targets, masterMd5, digest, nodeVars>>

\* Every node has answered: the combined result is returned.
Reply ==
    /\ cpc = "wait" /\ pending = {}
    /\ cpc' = "done"
    /\ UNCHANGED <<op, targets, masterMd5, digest, nodeVars, pending, combined>>

Next == (\E n \in Node : NodeRun(n) \/ Collect(n)) \/ Reply

Spec == Init /\ [][Next]_vars
-----------------------------------------------------------------------------
TypeOK ==
    /\ op \in {"config", "node", "ruleset"}
    /\ targets \subseteq Node /\ targets # {}
    /\ masterMd5 \in Digest /\ digest \in [Node -> Digest]
    /\ npc \in [Node -> {"idle", "done", "raised"}]
    /\ \A n \in Node :
          /\ res[n].affected \subseteq {n}
          /\ DOMAIN res[n].failed \subseteq CalleeError
          /\ FailedIds(res[n].failed) \subseteq {n}
    /\ synced \in [Node -> BOOLEAN]
    /\ outcome \in [Node -> CalleeError \cup {NoError}]
    /\ cpc \in {"wait", "done", "aborted"}
    /\ pending \subseteq targets
    /\ combined.affected \subseteq Node
    /\ DOMAIN combined.failed \subseteq CalleeError

-----------------------------------------------------------------------------
(* Refinement of the abstract fan-out                                      *)

FS == INSTANCE FanoutSpec WITH
        Item    <- Node,
        ErrorId <- CalleeError,
        targets <- targets,
        status  <- [n \in Node |->
                      IF npc[n] # "done" THEN [kind |-> "pending"]
                      ELSE IF outcome[n] = NoError THEN [kind |-> "affected"]
                      ELSE [kind |-> "failed", error |-> outcome[n]]],
        phase   <- IF cpc = "wait" THEN "run" ELSE cpc,
        reply   <- IF cpc = "done" THEN combined ELSE EmptyResult

\* The node reads implement the abstract fan-out: each node the request is
\* sent to gets one outcome that never changes (the wrapper appends its
\* item or records the SecuricsError under node_id), the coordinator
\* replies only after all of them, with the affected nodes and the failed
\* ones grouped by error, and an exception that escapes a wrapper aborts
\* the request instead.
ImplementsFanoutSpec == FS!Spec
=============================================================================
