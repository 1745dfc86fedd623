----------------------------- MODULE CalendarBook -----------------------------
(***************************************************************************)
(* What the calendar of one model promises its readers, with no rows, no   *)
(* transactions and no requests: a book that holds at most one step per    *)
(* milestone type and changes by whole decisions only.  The sentences are  *)
(* those of docs/v1/milestones/feature.md, sections 4, 6 and 7.1: a        *)
(* template adds the steps the model lacks and touches no date that        *)
(* exists, a later plan date takes the open steps after it along, an       *)
(* earlier one moves alone, and a fact is never ahead of the day.          *)
(***************************************************************************)
EXTENDS Integers

CONSTANTS Types,    \* the milestone types
          Days,     \* the days of the calendar
          NoDay     \* no fact yet

VARIABLES book,     \* the steps the model holds, by type
          today     \* the business day

vars == <<book, today>>

Step == [baseline : Days, plan : Days, fact : Days \cup {NoDay}, active : BOOLEAN]

Open(step) == step.active /\ step.fact = NoDay

Init == /\ book = [t \in {} |-> NoDay]
        /\ today \in Int

-----------------------------------------------------------------------------
(* Steps appear, promised and planned for the same day, and the steps that *)
(* were there stay as they are.                                            *)
Promise ==
  /\ \E S \in SUBSET (Types \ DOMAIN book) : \E day \in [S -> Days] :
        book' = [t \in DOMAIN book \cup S |->
                   IF t \in S
                   THEN [baseline |-> day[t], plan |-> day[t],
                         fact |-> NoDay, active |-> TRUE]
                   ELSE book[t]]
  /\ UNCHANGED today

(* One step takes another plan date, alone.                                *)
MoveAlone ==
  /\ \E t \in DOMAIN book, day \in Days : book' = [book EXCEPT ![t].plan = day]
  /\ UNCHANGED today

(* Every open step planned after the step t, and t itself, days later.     *)
Later(t, days) ==
  LET goes == {t} \cup {s \in DOMAIN book : /\ Open(book[s])
                                            /\ book[s].plan > book[t].plan}
  IN  [s \in DOMAIN book |->
         [book[s] EXCEPT !.plan = IF s \in goes THEN @ + days ELSE @]]

(* One step moves later and every open step planned after it follows.      *)
Shift ==
  /\ \E t \in DOMAIN book, day \in Days :
        /\ day > book[t].plan
        /\ book' = Later(t, day - book[t].plan)
  /\ UNCHANGED today

(* One step is stamped, cleared, retired or restored; its dates stand.     *)
Edit ==
  /\ \E t \in DOMAIN book, fact \in {d \in Days : d <= today} \cup {NoDay},
        active \in BOOLEAN :
        book' = [book EXCEPT ![t].fact = fact, ![t].active = active]
  /\ UNCHANGED today

NextDay == /\ today' = today + 1
           /\ UNCHANGED book

Next == Promise \/ MoveAlone \/ Shift \/ Edit \/ NextDay

Spec == Init /\ [][Next]_vars
=============================================================================
