------------------------------ MODULE QueryOrder ------------------------------
(***************************************************************************)
(* ORDER BY of the SQL queries and $sort of the aggregations.  Where no    *)
(* two keys are equal the element at a place is the one with as many       *)
(* smaller keys as there are places before it; where keys may be equal     *)
(* there are several orders.  (The sort of the community modules is known  *)
(* to TLC only, and nothing can be proved of it.)                          *)
(***************************************************************************)
EXTENDS Integers, FiniteSets

\* The elements of S in the order of their keys, no two of which are equal.
InOrder(S, key) ==
    [i \in 1 .. Cardinality(S) |->
        CHOOSE x \in S : Cardinality({y \in S : key[y] < key[x]}) = i - 1]

Ascending(S) == InOrder(S, [x \in S |-> x])

\* The lists of S in the order of their keys; elements of equal keys come in any order.
Orders(S, key) ==
    {list \in [1 .. Cardinality(S) -> S] :
        /\ \A x \in S : \E i \in DOMAIN list : list[i] = x
        /\ \A i, j \in DOMAIN list : i < j => key[list[i]] <= key[list[j]]}
=============================================================================
