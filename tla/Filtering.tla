------------------------------ MODULE Filtering ------------------------------
(***************************************************************************)
(* What the code writes as "[x for x in queue if ...]", or as a loop of    *)
(* remove() over a copy of the queue: the elements that satisfy a          *)
(* condition, in their order.  The condition is given by the set of the    *)
(* elements to keep, and the result by its places instead of by recursion, *)
(* which is the form the facts in CollectionTheorems can be proved of.     *)
(***************************************************************************)
EXTENDS Integers, FiniteSets

\* The places of s that hold an element of S, and how many are up to place i.
Places(s, S) == {i \in DOMAIN s : s[i] \in S}
Rank(s, S, i) == Cardinality({j \in Places(s, S) : j <= i})

\* The elements of s that are in S, in their order in s.
Keep(s, S) ==
    [k \in 1 .. Cardinality(Places(s, S)) |->
        s[CHOOSE i \in Places(s, S) : Rank(s, S, i) = k]]
=============================================================================
