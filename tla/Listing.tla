------------------------------ MODULE Listing ------------------------------
(***************************************************************************)
(* What sorting lists: the stable sorts of slices, and the order of the    *)
(* keys of a BTreeMap.  An element is where as many come before it as it   *)
(* has predecessors.                                                       *)
(***************************************************************************)
EXTENDS Integers, FiniteSets

\* The elements of a finite set in an order on it, a set of pairs.
Listing(S, order) ==
    [n \in 1..Cardinality(S) |->
        CHOOSE x \in S : Cardinality({y \in S : <<y, x>> \in order}) = n - 1]

\* slice::sort_by_key: the positions in a sequence of keys, stably.
ByKey(keys) ==
    LET before(i, j) == keys[i] < keys[j] \/ (keys[i] = keys[j] /\ i < j)
    IN  Listing(DOMAIN keys, {p \in (DOMAIN keys) \X (DOMAIN keys) : before(p[1], p[2])})

\* A set of integers, ascending.
Ascending(S) == Listing(S, {p \in S \X S : p[1] < p[2]})
=============================================================================
