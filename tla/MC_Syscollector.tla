--------------------------- MODULE MC_Syscollector ---------------------------
(* Syscollector on two agents whose tables hold one or two rows.  The      *)
(* rows carry 2 and 10 in f1, so that text order and number order differ, *)
(* and one row has no f1.                                                  *)
EXTENDS Syscollector

MCAgent == {1, 2}
MCRow == {[f1 |-> 2, f2 |-> 1], [f1 |-> 10, f2 |-> 1], [f2 |-> 2]}
MCSort == {None,
           [fields |-> <<"f1">>, order |-> "asc"],
           [fields |-> <<"f1">>, order |-> "desc"],
           [fields |-> <<"f1", "f2">>, order |-> "asc"]}
=============================================================================
