----------------------------- MODULE MCCalendar ------------------------------
(* Instances of Calendar for TLC. *)
EXTENDS CalendarProofs, MilestoneList, TLC

CONSTANTS t1, t2, t3

(* A template of two steps a day apart.                                    *)
TwoSteps == {[t \in {t1, t2} |-> IF t = t1 THEN -1 ELSE 0]}

(* The same template, and the one it became when the step t3 was added.    *)
ThreeSteps == TwoSteps \cup {[t \in {t1, t2, t3} |-> IF t = t2 THEN 0 ELSE -1]}

(* Rows, and requests, differ in nothing but their names.                  *)
SameRows == Permutations(Milestones)
SameRowsAndClients == SameRows \cup Permutations(Clients)

(* Three models of a season and one of another, with the steps they hold:  *)
(* two of one day and slip, two of one article besides, and one that is    *)
(* done.                                                                   *)
SomeModels ==
  {[id |-> 1, article |-> 1, season |-> "s", drop |-> "d", active |-> TRUE],
   [id |-> 2, article |-> 2, season |-> "s", drop |-> "d", active |-> TRUE],
   [id |-> 3, article |-> 3, season |-> "s", drop |-> "e", active |-> FALSE],
   [id |-> 4, article |-> 4, season |-> "o", drop |-> "f", active |-> TRUE]}

Milestone(id, model, type, plan, fact, active) ==
  [id |-> id, model |-> model, type |-> type, baseline |-> 1, plan |-> plan, fact |-> fact,
   active |-> active]

SomeSteps ==
  {Milestone(m, m, "y", m, NoDay, active) : m \in {1, 2}, active \in BOOLEAN}
    \cup {Milestone(3, 3, "y", 3, NoDay, TRUE),
          Milestone(8, 2, "z", 2, NoDay, TRUE), Milestone(9, 1, "z", 2, 3, TRUE)}

OfAnotherSeason == Milestone(4, 4, "y", 4, NoDay, TRUE)

SomeTables ==
  {[models |-> SomeModels, steps |-> steps \cup {OfAnotherSeason}] :
     steps \in {x \in SUBSET SomeSteps : \A r, q \in x : r.id = q.id => r = q}}

(* All of a season, one drop of it, and the open steps of one type.        *)
SomeScreens ==
  {[season |-> "s", drop |-> drop, type |-> NoFilter, states |-> {}] :
     drop \in {NoFilter, "d", "e"}}
    \cup {[season |-> "s", drop |-> NoFilter, type |-> "z", states |-> {"late", "due"}]}
=============================================================================
