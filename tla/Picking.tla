------------------------------ MODULE Picking ------------------------------
(***************************************************************************)
(* The elements of a list at some positions, in its order: what a          *)
(* comprehension with a condition gives.  It is said by the rank of each   *)
(* position and not by recursion, so that it can be reasoned about.        *)
(***************************************************************************)
EXTENDS Integers, FiniteSets, Sequences

Rank(I, i) == Cardinality({k \in I : k <= i})
Picked(s, I) == [j \in 1..Cardinality(I) |-> s[CHOOSE i \in I : Rank(I, i) = j]]
=============================================================================
