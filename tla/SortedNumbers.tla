----------------------------- MODULE SortedNumbers -----------------------------
(***************************************************************************)
(* Python's sorted(), on a set of numbers.  SetToSortSeq gives the same,   *)
(* but is built on an operator of TLC that no proof can look into.         *)
(***************************************************************************)
EXTENDS Naturals, FiniteSets

Ascending(S) ==
    CHOOSE f \in [1..Cardinality(S) -> S] :
        \A i, j \in 1..Cardinality(S) : i < j => f[i] < f[j]
=============================================================================
