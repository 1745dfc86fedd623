----------------------------- MODULE MilestoneList -----------------------------
(***************************************************************************)
(* What a milestone reads as on a day (internal/milestones/state.go), and  *)
(* the order of the milestone list (list.go).  Nothing of it is stored:    *)
(* every read works it out from the rows and the clock.                    *)
(***************************************************************************)
EXTENDS MilestoneRules, Sorting, SequencesExt

CONSTANTS
  DueWindow,    \* how many days ahead a plan date reads as due
  Tables,       \* what the tables may hold when a list is read
  Screens,      \* what a screen of the list may be narrowed to
  ListDays      \* the days it is read on

ASSUME DueWindowAssumption == DueWindow \in Nat

(* A model is one row, a step is one row, and what they are ordered by are *)
(* numbers: an article and an identifier are their places in the alphabet. *)
ASSUME ListAssumption ==
  /\ ListDays \subseteq Int
  /\ \A at \in Tables :
       /\ IsFiniteSet(at.models) /\ IsFiniteSet(at.steps)
       /\ \A m, o \in at.models : m.article \in Int /\ (m.id = o.id => m = o)
       /\ \A s, o \in at.steps :
            /\ s.id \in Int /\ s.plan \in Int /\ s.baseline \in Int
            /\ s.fact \in Int \cup {NoDay}
            /\ s.id = o.id => s = o

\* Mutant: the last day of the window is left out.
StateShort(row, day) ==
  CASE Done(row)                  -> "done"
    [] ~Done(row) /\ row.plan < day -> "late"
    [] ~Done(row) /\ row.plan >= day /\ row.plan < day + DueWindow -> "due"
    [] OTHER                      -> "planned"

State(row, day) ==
  CASE Done(row)                  -> "done"
    [] ~Done(row) /\ row.plan < day -> "late"
    [] ~Done(row) /\ row.plan >= day /\ row.plan <= day + DueWindow -> "due"
    [] OTHER                      -> "planned"

(* The days the plan moved from the promise.                               *)
Slip(row) == row.plan - row.baseline

(* worstSlipFirst: a row stands before another.                            *)
WorstSlipFirst(a, b) ==
  \/ Slip(a) > Slip(b)
  \/ Slip(a) = Slip(b) /\ a.plan < b.plan
  \/ Slip(a) = Slip(b) /\ a.plan = b.plan /\ a.article < b.article
  \/ Slip(a) = Slip(b) /\ a.plan = b.plan /\ a.article = b.article /\ a.id < b.id

(* holdsState: a filter that names no state keeps every row.               *)
HoldsState(states, state) == states = {} \/ state \in states

(* Listed: the active rows the filter keeps, in order.  The search is any  *)
(* set of articles that answer it.                                         *)
Keeps(row, states, articles, day) ==
  row.active /\ HoldsState(states, State(row, day)) /\ row.article \in articles

Kept(held, states, articles, day) == {row \in held : Keeps(row, states, articles, day)}

SlipOrder(kept) == {p \in kept \X kept : WorstSlipFirst(p[1], p[2])}

Listed(held, states, articles, day) ==
  LET kept == Kept(held, states, articles, day) IN SortedBy(kept, SlipOrder(kept))

-----------------------------------------------------------------------------
(* The tables as they stand when a statement runs.                         *)

NoFilter == "any"

(* What both statements of the screen narrow to: the active models of one  *)
(* season, or of one drop of it.                                           *)
InScope(models, filter) ==
  {m \in models : m.active /\ m.season = filter.season /\ filter.drop \in {NoFilter, m.drop}}

(* A step with the names beside it.                                        *)
Named(s, m) ==
  [id |-> s.id, model |-> s.model, type |-> s.type, baseline |-> s.baseline,
   plan |-> s.plan, fact |-> s.fact, active |-> s.active,
   article |-> m.article, drop |-> m.drop]

(* ListMilestonesBySeason.                                                 *)
HeldInSeason(at, filter) ==
  {Named(pair[1], pair[2]) :
     pair \in {q \in at.steps \X InScope(at.models, filter) :
                q[1].active /\ q[1].model = q[2].id /\ filter.type \in {NoFilter, q[1].type}}}

(* ListMilestones.                                                         *)
ListMilestones(at, filter, articles, day) ==
  Listed(HeldInSeason(at, filter), filter.states, articles, day)

(* ModelsWithoutCalendar: the models with no active step, per drop.        *)
HasStep(at, m) == \E s \in at.steps : s.active /\ s.model = m.id

ModelsWithoutCalendar(at, filter) ==
  LET bare == {m \in InScope(at.models, filter) : ~HasStep(at, m)}
  IN  [d \in {m.drop : m \in bare} |-> Cardinality({m \in bare : m.drop = d})]

GroupName(row, group) == IF group \in {"drop", "type"} THEN row[group] ELSE ""

(* NewMilestoneList: a row joins its group, or opens one behind the others.*)
Put(groups, row, group) ==
  LET name == GroupName(row, group)
  IN  IF \E i \in DOMAIN groups : groups[i].name = name
      THEN [i \in DOMAIN groups |->
              IF groups[i].name = name
              THEN [name |-> name, rows |-> Append(groups[i].rows, row)]
              ELSE groups[i]]
      ELSE Append(groups, [name |-> name, rows |-> <<row>>])

(* The groups of the first rows of the list, row by row.                   *)
GroupsUpTo(rows, group) ==
  LET upTo[n \in 0..Len(rows)] ==
        IF n = 0 THEN <<>> ELSE Put(upTo[n - 1], rows[n], group)
  IN  upTo

Groups(rows, group) == GroupsUpTo(rows, group)[Len(rows)]

-----------------------------------------------------------------------------
(* Properties.                                                             *)

(* Two reads of one season never disagree: the order leaves no two rows    *)
(* undecided and puts none in front of itself.                             *)
OrderDecided(held) ==
  \A a, b \in held :
    /\ a.id # b.id => (WorstSlipFirst(a, b) <=> ~WorstSlipFirst(b, a))
    /\ ~WorstSlipFirst(a, a)
    /\ \A c \in held : WorstSlipFirst(a, b) /\ WorstSlipFirst(b, c) => WorstSlipFirst(a, c)

(* A step nobody edits reads as planned, then as due, then as late, each   *)
(* for the days it should: it turns due on the night that leaves the       *)
(* window before its plan date, late on the night after that date, and     *)
(* never turns back.                                                       *)
TurnsOnTheNight(held, days) ==
  \A row \in {r \in held : ~Done(r)}, day \in days :
    LET before == State(row, day)
        after  == State(row, day + 1)
    IN  /\ after = "late" /\ before # "late" <=> row.plan = day
        /\ after = "due" /\ before # "due" <=> row.plan = day + DueWindow + 1
        /\ before = "late" => after = "late"
        /\ before = "due" => after \in {"due", "late"}

(* The list holds every row it should, once, and worst slip first.         *)
ListIsWhole(held, states, articles, day) ==
  LET shown == Listed(held, states, articles, day)
  IN  /\ ToSet(shown) = Kept(held, states, articles, day)
      /\ \A i, j \in DOMAIN shown : i < j => WorstSlipFirst(shown[i], shown[j])

(* The list of every state is the lists of each state put together, and no *)
(* row is on two of them: the states the screen offers hide nothing.       *)
States == {"done", "late", "due", "planned"}

StatesPartition(held, articles, day) ==
  LET shown(states) == ToSet(Listed(held, states, articles, day))
  IN  /\ shown({}) = UNION {shown({s}) : s \in States}
      /\ \A s, t \in States : s # t => shown({s}) \cap shown({t}) = {}

(* Nobody loses a model by forgetting its calendar: every active model of  *)
(* the season is on the list or among the models counted beside it, and    *)
(* not on both.  The list is read first and the count after it, so only a  *)
(* model whose first step came, or whose last one went, between the two    *)
(* reads is on neither, or on both.                                        *)
Counted(counts, d) == IF d \in DOMAIN counts THEN counts[d] ELSE 0

NobodyIsLost(shown, before, after, filter, d) ==
  LET work  == {m \in InScope(before.models, filter) : m.drop = d}
      came  == {m \in work : ~HasStep(before, m) /\ HasStep(after, m)}
      went  == {m \in work : HasStep(before, m) /\ ~HasStep(after, m)}
  IN  Cardinality({r.model : r \in {q \in ToSet(shown) : q.drop = d}})
          + Counted(ModelsWithoutCalendar(after, filter), d)
        = Cardinality(work) - Cardinality(came) + Cardinality(went)

(* A search that hides nobody.                                             *)
AllArticles(at) == {m.article : m \in at.models}

(* Grouping the list loses no row and repeats none, keeps the worst slip   *)
(* first in every group, and opens on the group of the worst row.          *)
GroupsKeep(shown, group) ==
  LET groups == Groups(shown, group)
  IN  /\ UNION {ToSet(groups[i].rows) : i \in DOMAIN groups} = ToSet(shown)
      /\ \A i \in DOMAIN groups :
           /\ groups[i].rows # <<>>
           /\ \A j \in DOMAIN groups[i].rows :
                GroupName(groups[i].rows[j], group) = groups[i].name
           /\ \A j, k \in DOMAIN groups[i].rows :
                j < k => WorstSlipFirst(groups[i].rows[j], groups[i].rows[k])
      /\ \A i, j \in DOMAIN groups :
           i < j => /\ groups[i].name # groups[j].name
                    /\ WorstSlipFirst(groups[i].rows[1], groups[j].rows[1])

(* The lists of a season agree with the rows and with each other.          *)
SeasonsListed ==
  \A at \in Tables, screen \in Screens, day \in ListDays :
    LET held  == HeldInSeason(at, screen)
        shown == ListMilestones(at, screen, AllArticles(at), day)
    IN  /\ OrderDecided(held) /\ TurnsOnTheNight(held, ListDays)
        /\ ListIsWhole(held, screen.states, AllArticles(at), day)
        /\ StatesPartition(held, AllArticles(at), day)
        /\ \A group \in {"", "drop", "type"} : GroupsKeep(shown, group)
        /\ \A after \in Tables, d \in {m.drop : m \in at.models} :
             after.models = at.models /\ screen.type = NoFilter /\ screen.states = {}
               => NobodyIsLost(shown, at, after, screen, d)
=============================================================================
