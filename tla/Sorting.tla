------------------------------- MODULE Sorting -------------------------------
(***************************************************************************)
(* A set read as a list in an order: what slices.SortFunc and an ORDER BY  *)
(* make of rows that are all different.  The order is the set of the pairs *)
(* <<a, b>> in which a stands before b; it decides any two rows of S.      *)
(***************************************************************************)
EXTENDS Integers, FiniteSets

(* How many rows of S stand before x.                                      *)
Preceding(S, before, x) == Cardinality({y \in S : <<y, x>> \in before})

SortedBy(S, before) ==
  [n \in 1..Cardinality(S) |-> CHOOSE x \in S : Preceding(S, before, x) = n - 1]
=============================================================================
