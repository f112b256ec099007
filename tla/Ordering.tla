------------------------------ MODULE Ordering ------------------------------
(***************************************************************************)
(* Python's sort and tuple order, for the pure operators.                   *)
(***************************************************************************)
EXTENDS Integers, Sequences, FiniteSets, SequencesExt, FiniteSetsExt

\* First difference decides; the keys have the same length.
LexLess(a, b) ==
    \E i \in 1..Len(a) : a[i] < b[i] /\ \A j \in 1..(i - 1) : a[j] = b[j]

\* Python's sort: stable.
StableSort(s, Less(_, _)) ==
    LET order == SortSeq([i \in 1..Len(s) |-> i],
                    LAMBDA i, j : \/ Less(s[i], s[j])
                                  \/ ~Less(s[j], s[i]) /\ i < j)
    IN [i \in 1..Len(s) |-> s[order[i]]]

SortedBy(s, Key(_)) == StableSort(s, LAMBDA a, b : LexLess(Key(a), Key(b)))

\* sort with reverse=True keeps the order of equal keys.
Negated(key) == [i \in 1..Len(key) |-> 0 - key[i]]

Smaller(a, b) == IF a < b THEN a ELSE b
Larger(a, b) == IF a > b THEN a ELSE b
Distance(a, b) == IF a < b THEN b - a ELSE a - b
=============================================================================
