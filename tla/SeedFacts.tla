------------------------------ MODULE SeedFacts ------------------------------
(***************************************************************************)
(* What the demo seed stamps on the calendar of one model                  *)
(* (internal/seed/milestones.go): the steps whose day has passed, less the *)
(* ones a late model leaves open, each on the day the jitter picks.  What  *)
(* the rows of Seed say of a step is what this makes of the day the seed   *)
(* runs on and of the day the drop of the model goes on sale.              *)
(***************************************************************************)
EXTENDS Seed, Integers, Sequences

CONSTANTS
  Path,     \* the offsets of the critical path, in path order
  Jitter,   \* the days a step lands away from its promise
  LateAt    \* per drop, the models that run late: <<place, open steps>>

ASSUME FactsAssumption ==
  /\ Path \in Seq(Int) /\ Jitter \in Seq(Int) /\ Jitter # <<>>
  /\ \A i, j \in DOMAIN Path : i < j => Path[i] <= Path[j]
  /\ \A drop \in DOMAIN LateAt : LateAt[drop] \subseteq Nat \X Nat

(* openSteps.                                                              *)
OpenSteps(drop, index) ==
  IF \E late \in LateAt[drop] : late[1] = index
  THEN (CHOOSE late \in LateAt[drop] : late[1] = index)[2] ELSE 0

Promise(target, step) == target + Path[step]

(* The steps of the path whose plan date has passed.                       *)
Past(target, today) == {s \in DOMAIN Path : Promise(target, s) < today}

\* Mutant: a step may land after the day of the seed.
LandedAnyDay(promise, pick, today) == promise + Jitter[(pick % Len(Jitter)) + 1]

(* landedOn.  A fact is never later than today.                            *)
LandedOn(promise, pick, today) ==
  LET fact == promise + Jitter[(pick % Len(Jitter)) + 1]
  IN  IF fact > today THEN today ELSE fact

(* facts: the past steps come first in the path, and the open ones are the *)
(* last of them.                                                           *)
Done(target, open, today) ==
  {s \in Past(target, today) : \A t \in (s + 1)..(s + open) : t \in Past(target, today)}

Fact(target, index, s, today) == LandedOn(Promise(target, s), index + s - 1, today)

(* A step that landed late moved its plan date to that day.                *)
Moved(target, index, s, today) == Fact(target, index, s, today) > Promise(target, s)

(* The plan date of a step once the calendar was stamped.                  *)
PlanOf(target, index, open, s, today) ==
  IF s \in Done(target, open, today) /\ Moved(target, index, s, today)
  THEN Fact(target, index, s, today) ELSE Promise(target, s)

(* The steps that read as late once the calendar was stamped.              *)
LateSteps(target, index, open, today) ==
  {s \in DOMAIN Path \ Done(target, open, today) : PlanOf(target, index, open, s, today) < today}

-----------------------------------------------------------------------------
(* No fact is ahead of the day, which the app would refuse; and a model    *)
(* reads as late in as many steps as the seed names for it, or in all that *)
(* have passed if those are fewer (milestones.go:341, milestones.go:210).  *)
FactsFit(targets, days, indexes) ==
  \A target \in targets, day \in days, index \in indexes, drop \in DOMAIN LateAt :
    LET open == OpenSteps(drop, index)
        past == Cardinality(Past(target, day))
    IN  /\ \A s \in Done(target, open, day) : Fact(target, index, s, day) <= day
        /\ Cardinality(LateSteps(target, index, open, day)) = IF past < open THEN past ELSE open

-----------------------------------------------------------------------------
(* The facts of a whole season.                                            *)

CONSTANTS
  Today,      \* the day the seed runs on
  Goods,      \* per drop, the day its calendars aim at
  Targets,    \* days a calendar may aim at, days the seed may run on and
  Days,       \* places a model may have in its drop: the facts are held
  Places      \* against every one of these as well

(* The drop of a model aims at one day, and the place of the model in it   *)
(* says how many of its steps stay open.                                   *)
GoodsOf(m) == Goods[m[1][1]]

OpenOf(m, place) == OpenSteps(m[1][1], place)

(* calendar: the day of the fact of a step.                                *)
FactDay(m, place, s) == Fact(GoodsOf(m), place, s, Today)

(* The plan date of a step once its rows are written.                      *)
PlanDay(m, place, s) ==
  IF <<m, place, s>> \in Slipped THEN FactDay(m, place, s) ELSE Promise(GoodsOf(m), s)

ASSUME DaysAssumption ==
  /\ Today \in Int /\ Targets \subseteq Int /\ Days \subseteq Int /\ Places \subseteq Nat
  /\ \A m \in Sketches : GoodsOf(m) \in Int /\ m[1][1] \in DOMAIN LateAt

(* The rows of a season are those of its facts.                            *)
ASSUME StampsAssumption ==
  /\ LastStep = Len(Path)
  /\ Stamped = {f \in Sketches \X DropPlaces \X (1..LastStep) :
                  f[3] \in Done(GoodsOf(f[1]), OpenOf(f[1], f[2]), Today)}
  /\ Slipped = {f \in Stamped : Moved(GoodsOf(f[1]), f[2], f[3], Today)}

(* The steps of a model that read as late on the day of the seed.          *)
ReadLate(m, place) ==
  {s \in 1..LastStep : <<m, place, s>> \notin Stamped /\ PlanDay(m, place, s) < Today}

-----------------------------------------------------------------------------
(* No row names a fact that is ahead of the day, which the app refuses and *)
(* which would end the seed, nor one behind the plan date beside it; and   *)
(* the milestone list opens on the late steps the seed names and on no     *)
(* other, or on all that have passed if those are fewer (milestones.go:210,*)
(* milestones.go:341).  What a calendar makes of other days is held to the *)
(* same.  The facts do not read the store, so the states before the first  *)
(* run are enough.                                                         *)
FactsLand ==
  runs = 0 =>
    /\ \A f \in Stamped :
         /\ FactDay(f[1], f[2], f[3]) <= Today
         /\ FactDay(f[1], f[2], f[3]) <= PlanDay(f[1], f[2], f[3])
    /\ \A m \in Sketches, place \in DropPlaces :
         LET past == Cardinality(Past(GoodsOf(m), Today))
             open == OpenOf(m, place)
         IN  Cardinality(ReadLate(m, place)) = IF past < open THEN past ELSE open
    /\ FactsFit(Targets, Days, Places)
=============================================================================
