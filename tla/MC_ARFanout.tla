---------------------------- MODULE MC_ARFanout ----------------------------
(* A two-node cluster: the master owns the manager and agent 1, the worker *)
(* owns agents 2 and 3; agent 3 has active response disabled.             *)
EXTENDS ARFanout

CONSTANTS master, worker

MCAgent == {0, 1, 2, 3}
MCNode == {master, worker}
MCOwner == [a \in MCAgent |-> IF a <= 1 THEN master ELSE worker]
MCARDisabled == {3}
MCCommandKind == {"custom", "empty", "unlisted"}
=============================================================================
