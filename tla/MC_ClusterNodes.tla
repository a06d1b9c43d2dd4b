--------------------------- MODULE MC_ClusterNodes ---------------------------
(* A master and two workers; a request may name any of the three.          *)
EXTENDS ClusterNodes

CONSTANTS master, worker1, worker2

MCNode == {master, worker1, worker2}
=============================================================================
