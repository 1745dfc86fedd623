---------------------------- MODULE MilestoneRules ----------------------------
(***************************************************************************)
(* The date rules of internal/milestones that read no store: what a plan   *)
(* date carries with it (cascade.go) and what a template turns into        *)
(* (apply.go).  A calendar day is an integer, as every rule of the package *)
(* works on whole days.                                                    *)
(*                                                                         *)
(* A definition with the word Mutant in its comment is a plausible bug of  *)
(* the definition that follows it.  PROJECT.json names the property that   *)
(* finds it.                                                               *)
(***************************************************************************)
EXTENDS Integers

CONSTANT NoDay      \* The date that is not there: Go's zero time.Time.

ASSUME NoDayAssumption == NoDay \notin Int

-----------------------------------------------------------------------------
(* One milestone.                                                          *)

Done(row) == row.fact # NoDay

(* A row a shift takes along: it is in the calendar, its work is not done, *)
(* and its plan date is after the date the moved row leaves.               *)
Follows(row, leaves) == row.active /\ ~Done(row) /\ row.plan > leaves

-----------------------------------------------------------------------------
(* Cascade: the new plan date of every row one plan date change moves.     *)
(* held is the calendar of the model, moved the row the user typed into as *)
(* it was read (the milestone at), plan the date it takes.  A move that    *)
(* goes nowhere moves nothing, a move to an earlier day moves its own row. *)

Carried(held, at, leaves) ==
  {m \in DOMAIN held \ {at} : Follows(held[m], leaves)}

\* Mutant: pulling one date forward pulls the chain behind it.
CascadeBothWays(held, at, moved, plan) ==
  LET days == plan - moved.plan
      rows == IF days = 0 THEN {} ELSE {at} \cup Carried(held, at, moved.plan)
  IN  [m \in rows |-> IF m = at THEN plan ELSE held[m].plan + days]

Cascade(held, at, moved, plan) ==
  LET days == plan - moved.plan
      rows == IF days = 0 THEN {}
              ELSE IF days < 0 THEN {at}
              ELSE {at} \cup Carried(held, at, moved.plan)
  IN  [m \in rows |-> IF m = at THEN plan ELSE held[m].plan + days]

(* Apply: the days a template stands for, from the target date of a drop.  *)
(* items maps the types of a template to their offsets.                    *)
Apply(items, target) == [t \in DOMAIN items |-> target + items[t]]
=============================================================================
