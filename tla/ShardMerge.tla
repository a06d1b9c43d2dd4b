----------------------------- MODULE ShardMerge -----------------------------
(***************************************************************************)
(* The ordering helpers of securics/core/results.py: nested_itemgetter     *)
(* (PathExtractor), _goes_before_than (OrderComparator) and merge          *)
(* (ShardMerge).  results.py is not in this repository: the operators are  *)
(* written from spec.md 4.3-4.5 and the cases of core/tests/test_results.py.*)
(*                                                                         *)
(* A row is a record from field names to values; a value is a natural     *)
(* number or None.  Paths are single field names (no nested traversal).    *)
(* A caster is "int", "str" (the decimal text of the number, compared      *)
(* character by character) or "raw" (the value itself).                    *)
(***************************************************************************)
EXTENDS Naturals, Sequences

CONSTANT None   \* Python's None, below every other value

\* The decimal digits of n, most significant first: str(n).
Digits[n \in Nat] == IF n < 10 THEN <<n>> ELSE Append(Digits[n \div 10], n % 10)

\* s comes strictly before t in lexicographic order.
LexLess(s, t) ==
    \/ /\ Len(s) < Len(t)
       /\ SubSeq(t, 1, Len(s)) = s
    \/ \E k \in 1..Len(s) \cap 1..Len(t) :
          /\ SubSeq(s, 1, k - 1) = SubSeq(t, 1, k - 1)
          /\ s[k] < t[k]

\* x cast by c comes strictly before y cast by c.
Precedes(x, y, c) == IF c = "str" THEN LexLess(Digits[x], Digits[y]) ELSE x < y

\* nested_itemgetter(*crit)(row): the tuple of the row's values at the
\* paths of crit, None for a missing key.  Without criteria merge compares
\* the items themselves.
Extract(row, crit) ==
    IF crit = <<>> THEN <<row>>
    ELSE [i \in 1..Len(crit) |->
            IF crit[i] \in DOMAIN row THEN row[crit[i]] ELSE None]

\* _goes_before_than(a, b, ascending, casters): the first position, up to
\* the shorter tuple, where the values differ decides; None goes first
\* whatever the position's ascending flag; an absent flag is ascending and
\* an absent caster compares raw values; equal tuples do not go before.
GoesBefore(a, b, asc, cast) ==
    LET n == IF Len(a) < Len(b) THEN Len(a) ELSE Len(b)
        AscAt(p)  == IF p <= Len(asc) THEN asc[p] ELSE TRUE
        CastAt(p) == IF p <= Len(cast) THEN cast[p] ELSE "raw"
        gb[p \in 1..n + 1] ==
            IF p = n + 1 THEN FALSE
            ELSE IF a[p] = b[p] THEN gb[p + 1]
            ELSE IF a[p] = None THEN TRUE
            ELSE IF b[p] = None THEN FALSE
            ELSE IF AscAt(p) THEN Precedes(a[p], b[p], CastAt(p))
            ELSE Precedes(b[p], a[p], CastAt(p))
    IN  gb[1]

\* Row x goes before row y under (crit, asc, cast).
Before(x, y, crit, asc, cast) ==
    GoesBefore(Extract(x, crit), Extract(y, crit), asc, cast)

\* s is sorted: no row goes before the one ahead of it.
IsSortedBy(s, crit, asc, cast) ==
    \A k \in 1..Len(s) - 1 : ~Before(s[k + 1], s[k], crit, asc, cast)

\* merge(*ps, criteria, ascending, types): repeatedly take the head that no
\* other head goes before, the one of the earliest partition on a tie.
RECURSIVE Merge(_, _, _, _)
Merge(ps, crit, asc, cast) ==
    LET live  == {i \in DOMAIN ps : ps[i] # <<>>}
        first == {i \in live :
                    \A j \in live : ~Before(Head(ps[j]), Head(ps[i]), crit, asc, cast)}
        i     == CHOOSE i \in first : \A j \in first : i <= j
    IN  IF live = {} THEN <<>>
        ELSE <<Head(ps[i])>> \o Merge([ps EXCEPT ![i] = Tail(@)], crit, asc, cast)

=============================================================================
