-------------------------------- MODULE Picks --------------------------------
(* A part of a sequence, in its order: what SelectSeq leaves of it, said by the *)
(* ranks of the places that are kept instead of by a recursion along it.        *)
EXTENDS Integers, FiniteSets, Sequences

\* how many of the places are no later than one
Rank(places, i) == Cardinality({j \in places : j <= i})

Picked(s, places) ==
    [k \in 1..Cardinality(places) |-> s[CHOOSE i \in places : Rank(places, i) = k]]
=============================================================================
