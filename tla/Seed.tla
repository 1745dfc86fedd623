-------------------------------- MODULE Seed --------------------------------
(***************************************************************************)
(* The demo seed: `pilam seed` walks a fixed plan of rows from the first    *)
(* employee to the last stamped fact, one transaction of a service per row, *)
(* and leaves a row an earlier run wrote as it stands.  Every run counts    *)
(* its identifiers from zero again (cmd/pilam/seed.go), so a rerun draws    *)
(* identifiers the rows of earlier runs hold.                               *)
(*                                                                          *)
(* A row is a tuple that begins with its table.  A run holds the rows of    *)
(* the plan it has still to come to and takes them in their order.  What is *)
(* held it reads in snapshots (the drops of the season, the articles of a   *)
(* drop, ...); one run is the only writer while it lasts and no plan names  *)
(* a row twice, so each snapshot agrees with the store where the run uses   *)
(* it.  The blobs of the photos are the media store's (MediaStore.tla).     *)
(***************************************************************************)
EXTENDS Naturals, FiniteSets

CONSTANTS
    Roster,     \* how many employees the roster holds
    Leavers,    \* the places of the ones who left
    Colors,     \* per design, <<drop, place in it>>: how many colors it is made in
    Article,    \* per design, where its article sorts among the articles
    LastStep,   \* how many steps the critical path has
    Stamped,    \* <<model, place, step>>: the steps that hold a fact date when
                \* the model is listed at that place of its drop
    Slipped,    \* those of them whose plan date moved, with a note
    Options,    \* what the flags of a run may say
    MaxRuns     \* bound: how many runs are started

RootAt == 1

ASSUME PlanAssumption ==
    /\ Roster \in Nat \ {0} /\ LastStep \in Nat /\ MaxRuns \in Nat
    /\ Leavers \subseteq (1..Roster) \ {RootAt}
    /\ IsFiniteSet(DOMAIN Colors) /\ DOMAIN Colors \subseteq Nat \X Nat
    /\ Colors \in [DOMAIN Colors -> Nat]
    /\ Article \in [DOMAIN Colors -> Nat]
    /\ \A g, h \in DOMAIN Colors : Article[g] = Article[h] => g = h

\* A flag that is left out asks for the whole roster or the whole season
\* (Options.check of seed.go).
ASSUME OptionsAssumption ==
    \A o \in Options : o.users \in 1..Roster /\ o.models \in Nat

VARIABLES
    held,       \* the rows of the store, with the identifiers of each
    trail,      \* the entries of the audit trail
    run,        \* the run under way, or the last one
    runs,       \* how many runs were started
    cut         \* history: some run did not reach its end

seedVars == <<held, trail, run, runs, cut>>

-----------------------------------------------------------------------------
(* The plan of one run. *)

\* The order of two places, the first number that differs deciding.
Before(p, q) ==
    \E i \in DOMAIN p : (\A j \in 1..(i - 1) : p[j] = q[j]) /\ p[i] < q[i]

\* The models of the season: one of a design per color, counted from nought.
Sketches == UNION {{g} \X (0..(Colors[g] - 1)) : g \in DOMAIN Colors}

\* Where a model may be listed in its drop, counted from nought.
DropPlaces == 0..(Cardinality(Sketches) - 1)

ASSUME FactsAreOfModels ==
    /\ Slipped \subseteq Stamped
    /\ Stamped \subseteq Sketches \X DropPlaces \X (1..LastStep)

\* Where a model stands in the season, and how many come before it.
PlaceOf(m) == <<m[1][1], m[1][2], m[2]>>
Index(m) == Cardinality({j \in Sketches : Before(PlaceOf(j), PlaceOf(m))})

PhotoStrip(index) == IF index % 7 = 6 THEN 0 ELSE 1 + (index % 3)

\* The rows of a plan that follow no other.
People(o) == {<<"app_user", o.domain, i>> : i \in 1..o.users}
Season(o) ==
    {<<"season">>}
      \cup {<<"drop", g[1]>> : g \in DOMAIN Colors}
      \cup {<<"model", m>> : m \in {j \in Sketches : Index(j) < o.models}}
Template ==
    {<<"milestone_type", s>> : s \in 1..LastStep}
      \cup {<<"milestone_template">>}
      \cup {<<"template_item", s>> : s \in 1..LastStep}
Heads(o) ==
    People(o) \cup Season(o) \cup Template \cup {<<"milestone", m>> : m \in Sketches}

\* The steps of a model that some set says of it at one of these places.
StepsIn(set, m, places) == {f[3] : f \in {g \in set : g[1] = m /\ g[2] \in places}}

\* Mutant: the plan date of a late step stays where it was.
FactRowsUnmoved(m, places) == {<<"fact", m, s>> : s \in StepsIn(Stamped, m, places)}

\* The facts of a calendar.  A step that ran late moves its plan date in a
\* transaction of its own.
FactRows(m, places) ==
    {<<"fact", m, s>> : s \in StepsIn(Stamped, m, places)}
      \cup {<<"moved", m, s>> : s \in StepsIn(Slipped, m, places)}

\* What follows a row: the end of a leaver, the photos of a model, the facts a
\* calendar may hold.
FollowUps(r) ==
    CASE r[1] = "app_user"  -> {<<"left", r[2], i>> : i \in Leavers \cap {r[3]}}
      [] r[1] = "model"     -> {<<"photo", r[2], p>> : p \in 1..PhotoStrip(Index(r[2]))}
      [] r[1] = "milestone" -> FactRows(r[2], DropPlaces)
      [] OTHER              -> {}

\* The row that one follows, itself when it follows none.
After(r) ==
    CASE r[1] = "left"              -> <<"app_user", r[2], r[3]>>
      [] r[1] = "photo"             -> <<"model", r[2]>>
      [] r[1] \in {"moved", "fact"} -> <<"milestone", r[2]>>
      [] OTHER                      -> r

Plan(o) == Heads(o) \cup UNION {FollowUps(r) : r \in Heads(o)}

\* The order a run takes its plan in: table by table, and what follows a row
\* right behind it.  Models are written as the plan has them, calendars as the
\* list of the drop has the models: by article, and the colors of one as planned.
OfModel(section, m, at, step, kind) == <<section, m[1][1], at, m[2], step, kind>>
Planned(m, step) == OfModel(4, m, m[1][2], step, 0)
Listed(m, step, kind) == OfModel(8, m, Article[m[1]], step, kind)
Turn(r) ==
    CASE r[1] = "app_user"           -> <<1, r[3], 0>>
      [] r[1] = "left"               -> <<1, r[3], 1>>
      [] r[1] = "season"             -> <<2>>
      [] r[1] = "drop"               -> <<3, r[2]>>
      [] r[1] = "model"              -> Planned(r[2], 0)
      [] r[1] = "photo"              -> Planned(r[2], r[3])
      [] r[1] = "milestone_type"     -> <<5, r[2]>>
      [] r[1] = "milestone_template" -> <<6>>
      [] r[1] = "template_item"      -> <<7, r[2]>>
      [] r[1] = "milestone"          -> Listed(r[2], 0, 0)
      [] r[1] = "moved"              -> Listed(r[2], r[3], 0)
      [] r[1] = "fact"               -> Listed(r[2], r[3], 1)

-----------------------------------------------------------------------------
(* What the store holds. *)

HeldRows == {h.row : h \in held}
InTable(table) == {h \in held : h.row[1] = table}
TableIds(table) == UNION {h.ids : h \in InTable(table)}
EntryIds == {e.id : e \in trail}

Held(r) == r \in HeldRows

\* The models of a design the store holds.
OfDesign(g) == {h \in InTable("model") : h.row[2][1] = g}

\* Mutant: the colors are counted from one.
HoldsModelFromOne(m) == Cardinality(OfDesign(m[1])) > m[2] + 1

\* How many models of an article the store holds, against the place of the
\* planned one among the colors of its design.
HoldsModel(m) == Cardinality(OfDesign(m[1])) > m[2]

\* The list of a drop has its models by article and then by identifier.
ListedBefore(j, m) ==
    \E g, h \in InTable("model") :
        /\ g.row[2] = j /\ h.row[2] = m
        /\ \/ Article[j[1]] < Article[m[1]]
           \/ j[1] = m[1] /\ \E a \in g.ids, b \in h.ids : a < b

\* The place of a model among those its drop holds by now.
InDrop(m) ==
    Cardinality({j \in Sketches \ {m} : j[1][1] = m[1][1] /\ ListedBefore(j, m)})

\* Is the row of the plan there already?  A user is always tried, and a calendar
\* is asked for only where the model is.
InStore(r) ==
    CASE r[1] = "app_user"  -> FALSE
      [] r[1] = "model"     -> HoldsModel(r[2])
      [] r[1] = "milestone" -> Held(r) \/ ~Held(<<"model", r[2]>>)
      [] OTHER              -> Held(r)

\* Is a step one that the place of its model stamps, or moves?
Called(r) ==
    r[1] \in {"fact", "moved"} => r \in FactRows(r[2], {InDrop(r[2])})

\* Mutant: what follows a row is written again by every run.
PassedAgain(r) ==
    IF After(r) # r THEN ~Held(After(r)) \/ ~Called(r) ELSE InStore(r)

\* Is there nothing for this run to do?  What follows a row is written only by
\* the run that wrote the row.
Passed(r) ==
    IF After(r) # r THEN After(r) \notin run.wrote \/ ~Called(r) ELSE InStore(r)

\* One transaction draws identifiers for its table and then for the trail: a
\* calendar one per step, an edit none; a late step is told with its note.
IdsOf(r) ==
    CASE r[1] = "milestone"                 -> LastStep
      [] r[1] \in {"left", "moved", "fact"} -> 0
      [] OTHER                              -> 1
EntriesOf(r) ==
    IF r[1] = "fact" /\ <<r[2], InDrop(r[2]), r[3]>> \in Slipped THEN 2 ELSE 1

-----------------------------------------------------------------------------
(* The run. *)

Nobody == <<>>
NoRun == [opts |-> Nobody, left |-> {}, drawn |-> 0, wrote |-> {}, skipped |-> {},
          actor |-> Nobody, status |-> "none"]

EmptyStore ==
    /\ held = {} /\ trail = {} /\ run = NoRun /\ runs = 0 /\ cut = FALSE

UnderWay == run.status = "running"

\* The row whose turn it is.
Due(r) ==
    /\ UnderWay /\ r \in run.left
    /\ \A s \in run.left : ~Before(Turn(s), Turn(r))

\* The identifiers a transaction draws: the row's first, then the entries'.
Drawn(n, from) == from .. (from + n - 1)
RowIds(r) == Drawn(IdsOf(r), run.drawn)
NewIds(r) == Drawn(EntriesOf(r), run.drawn + IdsOf(r))

\* The primary keys refuse an identifier the table already holds.
RowFree(r) == RowIds(r) \cap TableIds(r[1]) = {}
EntryFree(r) == NewIds(r) \cap EntryIds = {}

\* Who a write is recorded as: the root the run named; a user without one
\* creates and edits themselves; nothing else is recorded without an actor.
IsUsers(r) == r[1] \in {"app_user", "left"}
Actor(r) == IF run.actor # Nobody \/ ~IsUsers(r) THEN run.actor
            ELSE <<"app_user", r[2], r[3]>>
Known(r) == Actor(r) # Nobody

\* The root is the one this run wrote, or the one found under the address.
RunAsRoot(r, there) ==
    IF r = <<"app_user", run.opts.domain, RootAt>> /\ r \in there
    THEN r ELSE run.actor

StartRun ==
    /\ ~UnderWay /\ runs < MaxRuns
    /\ runs' = runs + 1
    /\ \E o \in Options :
         run' = [NoRun EXCEPT !.opts = o, !.left = Plan(o), !.status = "running"]
    /\ UNCHANGED <<held, trail, cut>>

\* The row is there, or has nothing to follow.
Pass(r) ==
    /\ Due(r) /\ Passed(r)
    /\ run' = [run EXCEPT !.left = @ \ {r}]
    /\ UNCHANGED <<held, trail, runs, cut>>

\* One transaction of a service: the row and its entries, or neither.
Write(r) ==
    /\ Due(r) /\ ~Passed(r)
    /\ ~(r[1] = "app_user" /\ Held(r))
    /\ Known(r) /\ RowFree(r) /\ EntryFree(r)
    /\ held' = held \cup {[row |-> r, ids |-> RowIds(r)]}
    /\ trail' = trail \cup {[id |-> n, row |-> r, actor |-> Actor(r)] : n \in NewIds(r)}
    /\ run' = [run EXCEPT !.left = @ \ {r}, !.drawn = @ + IdsOf(r) + EntriesOf(r),
                          !.wrote = @ \cup {r},
                          !.actor = RunAsRoot(r, HeldRows \cup {r})]
    /\ UNCHANGED <<runs, cut>>

\* The address of the employee is taken, or the identifier is: the run counts
\* the employee as skipped.  The one identifier it drew is spent.
SkipUser(r) ==
    /\ Due(r) /\ r[1] = "app_user"
    /\ Held(r) \/ ~RowFree(r)
    /\ run' = [run EXCEPT !.left = @ \ {r}, !.drawn = @ + IdsOf(r),
                          !.skipped = @ \cup {r},
                          !.actor = RunAsRoot(r, HeldRows)]
    /\ UNCHANGED <<held, trail, runs, cut>>

\* Any other refusal ends the run: an identifier that is taken, or an entry
\* that names nobody.
Refuse(r) ==
    /\ Due(r) /\ ~Passed(r)
    /\ IF r[1] = "app_user"
       THEN ~Held(r) /\ RowFree(r) /\ ~EntryFree(r)
       ELSE ~(Known(r) /\ RowFree(r) /\ EntryFree(r))
    /\ run' = [run EXCEPT !.status = "failed"]
    /\ cut' = TRUE
    /\ UNCHANGED <<held, trail, runs>>

\* The process is killed, or its database or media store goes away.
Stop ==
    /\ UnderWay
    /\ run' = [run EXCEPT !.status = "stopped"]
    /\ cut' = TRUE
    /\ UNCHANGED <<held, trail, runs>>

Finish ==
    /\ UnderWay /\ run.left = {}
    /\ run' = [run EXCEPT !.status = "done"]
    /\ UNCHANGED <<held, trail, runs, cut>>

TakeRow(r) == Pass(r) \/ Write(r) \/ SkipUser(r) \/ Refuse(r)

SeedNext == StartRun \/ (\E r \in run.left : TakeRow(r)) \/ Stop \/ Finish

SeedSpec == EmptyStore /\ [][SeedNext]_seedVars

-----------------------------------------------------------------------------
(* Properties. *)

SeedTypeOK ==
    /\ \A h \in held : h.ids \subseteq Nat
    /\ \A e \in trail : e.id \in Nat /\ Held(e.row) /\ Held(e.actor)
    /\ run.status \in {"none", "running", "done", "failed", "stopped"}
    /\ run.skipped \cap run.wrote = {}
    /\ runs \in 0..MaxRuns /\ cut \in BOOLEAN
    /\ \A g, h \in held : g # h /\ g.row[1] = h.row[1] => g.ids \cap h.ids = {}
    /\ \A d, e \in trail : d.id = e.id => d = e

\* What the plan names whatever happened before: every row a run writes for
\* itself rather than for the people, and for nothing that only follows it.
Spine(o) == {r \in Plan(o) : After(r) = r /\ r[1] \notin {"app_user", "milestone"}}
Calendars == {<<"milestone", h.row[2]>> : h \in InTable("model")}

\* A run that reports success has left the season, the drops, the models it
\* was asked for in every color, the types, the template with all its steps,
\* and a calendar on every model: also when an earlier run was cut off half
\* way, and when this one was asked for more than the last (seed.go:119).
DoneHoldsAll ==
    run.status = "done" => Spine(run.opts) \cup Calendars \subseteq HeldRows

\* However often the seed runs and wherever it is cut off, no row of the plan
\* is there twice: not a model of the same color, not a second photo in one
\* place, not a second calendar (seed.go:117).
NothingTwice ==
    \A g, h \in held : g.row = h.row => g = h

\* A calendar holds the facts of its place and no other.
StampedAt(m, place) ==
    \A s \in 1..LastStep :
        /\ <<m, place, s>> \in Stamped <=> Held(<<"fact", m, s>>)
        /\ <<m, place, s>> \in Slipped <=> Held(<<"moved", m, s>>)

\* While no run was cut off, every leaver a run wrote is deactivated, every
\* model has its strip of photos, every calendar the facts and moved dates of
\* one place in its drop, and of the place it has if this run wrote it, as soon
\* as the run is done (users.go:117, catalog.go:295, milestones.go:283).
FollowUpsWritten ==
    run.status = "done" /\ ~cut =>
        \A r \in HeldRows :
          /\ r[1] = "app_user" /\ r[3] \in Leavers => Held(<<"left", r[2], r[3]>>)
          /\ r[1] = "model" =>
               \A p \in 1..PhotoStrip(Index(r[2])) : Held(<<"photo", r[2], p>>)
          /\ r[1] = "milestone" => \E place \in DropPlaces :
               /\ r \in run.wrote => place = InDrop(r[2])
               /\ StampedAt(r[2], place)

\* Everything but an employee is recorded as written by the first root of a
\* roster, whichever run wrote it: the trail names one administrator per
\* company (users.go:82, users.go:140).
RootWroteIt ==
    \A e \in trail : e.row[1] # "app_user" =>
        \/ e.actor[3] = RootAt
        \/ e.row[1] = "left" /\ e.actor = <<"app_user", e.row[2], e.row[3]>>

\* A run that finds everything it plans in the store writes nothing and does
\* not fail (README.md:60).
AllThere == /\ Spine(run.opts) \cup Calendars \subseteq HeldRows
            /\ \A i \in 1..run.opts.users : Held(<<"app_user", run.opts.domain, i>>)
RerunWritesNothing ==
    [][UnderWay /\ AllThere /\ run.wrote = {} =>
          held' = held /\ trail' = trail /\ run'.status # "failed"]_seedVars

\* "It is safe to run twice: a row that is already there is left as it stands,
\* and counted as skipped" (seed.go:117): a run is never refused by what an
\* earlier one left, and each employee it counts as skipped is there.
SafeToRunTwice ==
    /\ run.status # "failed"
    /\ run.status = "done" => run.skipped \subseteq HeldRows

\* No row is there twice, and each was written as the first root.
RowsOnce == SeedTypeOK /\ NothingTwice /\ RootWroteIt

\* A run that says it is done left everything it was asked for.
DoneIsWhole == DoneHoldsAll /\ FollowUpsWritten
=============================================================================
