---------------------------- MODULE Subsequences ----------------------------
(* Some elements of a sequence, in the order they have in it: what is left of a list when it has
   been gone through. *)
EXTENDS Integers, Sequences, FiniteSets, Functions

IsSeq(s) == s \in Seq(Range(s))

\* Places, from the lowest to the highest: as a set that has this one sequence.
InOrder(places) == {s \in [1..Cardinality(places) -> places] : \A m, n \in DOMAIN s : m < n => s[m] < s[n]}

\* What stands at them, as a set that has this one sequence.
Picked(s, places) == {[n \in DOMAIN order |-> s[order[n]]] : order \in InOrder(places)}
=============================================================================
