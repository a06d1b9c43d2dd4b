-------------------------- MODULE MC_ClusterRuleset --------------------------
(* Three nodes, two callee errors and two ruleset digests.                 *)
EXTENDS ClusterRuleset

CONSTANTS master, worker1, worker2, d1, d2

MCNode == {master, worker1, worker2}
MCCalleeError == {[code |-> 3020, msg |-> ""], [code |-> 1000, msg |-> ""]}
MCDigest == {d1, d2}
=============================================================================
