----------------------------- MODULE Subsequences -----------------------------
(***************************************************************************)
(* What remains of a list when elements are taken out of it, as Array's    *)
(* filter and MongoDB's $pull do: the elements at the given places, in     *)
(* their order.                                                            *)
(***************************************************************************)
EXTENDS Naturals, FiniteSets, Sequences

\* The place that is the n-th of the given ones.
NthOf(places, n) == CHOOSE i \in places : Cardinality({h \in places : h <= i}) = n

Subsequence(list, places) == [n \in 1..Cardinality(places) |-> list[NthOf(places, n)]]
=============================================================================
