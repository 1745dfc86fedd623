------------------------------ MODULE Positions ------------------------------
(***************************************************************************)
(* The order of a short list kept in a table: a position column that is    *)
(* unique by a constraint the commit checks, and rewritten by whole orders.*)
(* The items of a template (milestones/templates.go) and the photos of a   *)
(* model (catalog/photo.go) are such lists, and each package has these     *)
(* rules of its own.                                                       *)
(*                                                                         *)
(* pos maps the identifiers the table holds to their positions.            *)
(***************************************************************************)
EXTENDS Integers, Sequences, FiniteSets, Functions

(* The constraint: UNIQUE (..., position) DEFERRABLE INITIALLY DEFERRED.   *)
Distinct(pos) == IsInjective(pos)

(* What the code keeps of the column: it counts from 0 with no gap.        *)
Gapless(pos) == Range(pos) = 0..Cardinality(DOMAIN pos) - 1

\* Mutant: the read lists the last place first.
RanksDown(pos) ==
  [i \in DOMAIN pos |-> Cardinality({j \in DOMAIN pos : pos[j] > pos[i]})]

(* The place of every row in a read ORDER BY position.                     *)
Ranks(pos) ==
  [i \in DOMAIN pos |-> Cardinality({j \in DOMAIN pos : pos[j] < pos[i]})]

(* The read itself.                                                        *)
InOrder(pos) ==
  [n \in 1..Cardinality(DOMAIN pos) |-> CHOOSE i \in DOMAIN pos : Ranks(pos)[i] = n - 1]

(* Reorder: position n to the n-th identifier of an order.                 *)
Positioned(ordered) ==
  [i \in Range(ordered) |-> (CHOOSE n \in DOMAIN ordered : ordered[n] = i) - 1]

(* rearranges: the order names every identifier of was once, and nothing   *)
(* else.                                                                   *)
Rearranges(was, ordered) ==
  /\ Len(ordered) = Cardinality(was)
  /\ \A n \in DOMAIN ordered :
       /\ ordered[n] \in was
       /\ \A k \in 1..n - 1 : ordered[k] # ordered[n]
=============================================================================
