------------------------------ MODULE Sorting ------------------------------
(* The members of a set in the order of a key, as the slices' sort_by_key, *)
(* sort and sort_by leave them when no two keys are equal.                 *)
EXTENDS Naturals, FiniteSets

SortedBy(S, key) ==
    [i \in 1 .. Cardinality(S) |->
        CHOOSE x \in S : Cardinality({y \in S : key[y] < key[x]}) = i - 1]

(* The keys tell the members of S apart.                                   *)
Keyed(S, key) ==
    /\ \A x \in S : key[x] \in Nat
    /\ \A x, y \in S : key[x] = key[y] => x = y
=============================================================================
