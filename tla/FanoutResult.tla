---------------------------- MODULE FanoutResult ----------------------------
(***************************************************************************)
(* The affected/failed-item tracker of one fan-out operation               *)
(* (AffectedItemsSecuricsResult of securics/core/results.py) and the       *)
(* combination operator the cluster coordinator reduces node results with. *)
(* results.py is not part of this repository: every operator here is       *)
(* written from the specification (spec.md, sections 3, 4.2 and 8).        *)
(*                                                                         *)
(* A result is a record                                                    *)
(*   [affected |-> set of ids, failed |-> error identity -> set of ids].   *)
(* affected_items is kept as the set of its ids: every caller in this      *)
(* repository appends each id at most once and ends by sorting the list    *)
(* by id, so the list is determined by that set.  An error record is kept  *)
(* as its identity [code, msg]: the spec makes two errors the same failure *)
(* iff code and rendered message agree, and nothing else of an error is    *)
(* read by the tracker.                                                    *)
(***************************************************************************)
EXTENDS Naturals, FiniteSets

\* The ids recorded for error identity k in the failed-items map f
\* (the empty set when k is not a key).
IdsOf(f, k) == IF k \in DOMAIN f THEN f[k] ELSE {}

\* Every id that some entry of the failed-items map f records.
FailedIds(f) == UNION {f[k] : k \in DOMAIN f}

\* A new result: no affected and no failed items.
EmptyResult == [affected |-> {}, failed |-> [k \in {} |-> {}]]

\* Bug variant of add_failed_item: the entry of the identity is replaced by
\* the new id instead of extended with it.
AddFailedItemOverwrite(r, id, e) ==
    [r EXCEPT !.failed =
        [k \in DOMAIN r.failed \cup {e} |->
            IF k = e THEN {id} ELSE r.failed[k]]]

\* add_failed_item(id, error): the id joins the entry of the error's
\* identity, which is created when it is not yet a key.
AddFailedItem(r, id, e) ==
    LET f == r.failed
    IN  [r EXCEPT !.failed =
            [k \in DOMAIN f \cup {e} |->
                IdsOf(f, k) \cup (IF k = e THEN {id} ELSE {})]]

\* The failed-items map that add_failed_items_from(other) builds: every id of
\* every entry of g is added to f under the same identity.
MergeFailed(f, g) ==
    [k \in DOMAIN f \cup DOMAIN g |-> IdsOf(f, k) \cup IdsOf(g, k)]

\* Combine (a | b) of two results: the union of the affected items and the
\* failed items of b added to those of a.  It does not sort.
Combine(a, b) ==
    [affected |-> a.affected \cup b.affected,
     failed   |-> MergeFailed(a.failed, b.failed)]

=============================================================================
