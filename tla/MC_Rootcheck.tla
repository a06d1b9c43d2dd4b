---------------------------- MODULE MC_Rootcheck ----------------------------
(* Rootcheck with the manager and two agents.                            *)
EXTENDS Rootcheck

MCAgent == {0, 1, 2}
=============================================================================
