------------------------------- MODULE Calendar -------------------------------
(***************************************************************************)
(* The calendar of one model: the milestone rows in Postgres, what the     *)
(* audit trail says of them, and the requests that change them             *)
(* (internal/milestones/calendar.go behind internal/http/models).          *)
(*                                                                         *)
(* A request is a sequence of statements, and the database runs at READ    *)
(* COMMITTED: each read sees the rows committed so far, nothing keeps them *)
(* as they were read, and every update writes a whole row back by its      *)
(* identifier.  A step below is therefore one read with the decision that  *)
(* follows it, or one commit with every write and trail entry of its       *)
(* transaction: the row locks of the writes make them visible together,    *)
(* and a conflict they run into is the end of one of the two requests      *)
(* (Fail).                                                                 *)
(*                                                                         *)
(* Templates, types and drops are edited elsewhere, at any time: what a    *)
(* request reads of them is any value they may hold.  A note is written    *)
(* the way the active flag is and is left out.                             *)
(***************************************************************************)
EXTENDS MilestoneRules, FiniteSets

CONSTANTS
  Clients,      \* the requests the server runs at a time
  Types,        \* the milestone types
  Milestones,   \* the identifiers of rows
  Horizon,      \* bound: the last day a plan date takes
  LastDay,      \* bound: the last day of the clock
  Paths,        \* the templates a request may read: offsets by type
  Targets,      \* the target dates a request may read
  MaxRequests   \* bound: how many requests there are in a behaviour

Days == 0..Horizon

ASSUME CalendarAssumption ==
  /\ Horizon \in Nat /\ LastDay \in Nat /\ MaxRequests \in Nat
  /\ \A p \in Paths : DOMAIN p \subseteq Types
  /\ \A p \in Paths, d \in Targets : Apply(p, d) \in [DOMAIN p -> Days]

VARIABLES
  rows,     \* the table milestone, restricted to the model
  told,     \* what the last trail entry of each field of a row says it is
  today,    \* clock.Today, in the business timezone
  req,      \* where each client stands in its request
  asked,    \* how many requests were made (bounded by MaxRequests)
  alone     \* history: no two requests were open at a time so far

vars == <<rows, told, today, req, asked, alone>>

-----------------------------------------------------------------------------
(* Types.                                                                  *)

Facts == Days \cup {NoDay}

Row == [type : Types, baseline : Days, plan : Days, fact : Facts, active : BOOLEAN]

Fields == {"plan", "fact", "active"}     \* what a trail entry is about

Told == [plan : Days, fact : Facts, active : BOOLEAN]

Answers == {"none", "saved", "refused", "missing", "taken", "conflict", "failed"}

(* Rows by identifier: what the table holds, and what a request writes.    *)
RowsOK(held) == /\ DOMAIN held \subseteq Milestones
                /\ \A m \in DOMAIN held : held[m] \in Row

(* What a client holds between two of its steps: the values it has read.   *)
RequestOK(r) ==
  /\ r.step \in {"idle", "apply", "create", "add", "insert",
                 "find", "hold", "move", "edit", "write"}
  /\ r.step = "idle" => r.answer \in Answers
  /\ r.step \in {"find", "hold", "move", "edit"} => r.at \in Milestones
  /\ r.step = "hold" => r.moved \in Row
  /\ r.step \in {"move", "write"} => RowsOK(r.write)
  /\ r.step = "write" => r.fields \subseteq Fields
  /\ r.step \in {"apply", "create", "add", "insert"} =>
       /\ DOMAIN r.planned \subseteq Types
       /\ \A t \in DOMAIN r.planned : r.planned[t] \in Days

(* Every type of the variables.                                            *)
TypeOK ==
  /\ RowsOK(rows)
  /\ DOMAIN told = DOMAIN rows
  /\ \A m \in DOMAIN told : told[m] \in Told
  /\ today \in 0..LastDay
  /\ DOMAIN req = Clients
  /\ \A c \in Clients : RequestOK(req[c])
  /\ asked \in 0..MaxRequests
  /\ alone \in BOOLEAN

Init ==
  /\ rows = [m \in {} |-> NoDay]
  /\ told = [m \in {} |-> NoDay]
  /\ today \in 0..LastDay
  /\ req = [c \in Clients |-> [step |-> "idle", answer |-> "none"]]
  /\ asked = 0
  /\ alone = TRUE

-----------------------------------------------------------------------------
(* The table and the trail.                                                *)

TypesOf(held) == {held[m].type : m \in DOMAIN held}

NewRow(type, day) ==
  [type |-> type, baseline |-> day, plan |-> day, fact |-> NoDay, active |-> TRUE]

\* Mutant: an update reschedules the promise along with the plan.
WriteBackPromise(write) ==
  rows' = [m \in DOMAIN rows |->
             IF m \in DOMAIN write THEN [write[m] EXCEPT !.baseline = write[m].plan]
                                   ELSE rows[m]]

(* Update: every field of every row of write, whatever the table holds.    *)
WriteBack(write) ==
  rows' = [m \in DOMAIN rows |-> IF m \in DOMAIN write THEN write[m] ELSE rows[m]]

\* Mutant: the trail names the row the user moved and not the rows it took along.
TellOne(write, fields) ==
  told' = [m \in DOMAIN told |->
             IF DOMAIN write = {m}
             THEN [plan   |-> IF "plan"   \in fields THEN write[m].plan   ELSE told[m].plan,
                   fact   |-> IF "fact"   \in fields THEN write[m].fact   ELSE told[m].fact,
                   active |-> IF "active" \in fields THEN write[m].active ELSE told[m].active]
             ELSE told[m]]

(* RecordTrail: one entry for each of the fields of each row of write.     *)
Tell(write, fields) ==
  told' = [m \in DOMAIN told |->
             IF m \in DOMAIN write
             THEN [plan   |-> IF "plan"   \in fields THEN write[m].plan   ELSE told[m].plan,
                   fact   |-> IF "fact"   \in fields THEN write[m].fact   ELSE told[m].fact,
                   active |-> IF "active" \in fields THEN write[m].active ELSE told[m].active]
             ELSE told[m]]

(* The unique index on (model_id, type_id): an insert of a held type fails.*)
Insertable(planned) == DOMAIN planned \cap TypesOf(rows) = {}

(* Create: one row per planned step, under identifiers nothing holds.  The *)
(* entry that says so is the start of what the trail tells of each: an     *)
(* added step names its date, an applied template stands for its days.     *)
Insert(planned) ==
  \E id \in [DOMAIN planned -> Milestones \ DOMAIN rows] :
    LET new == {id[t] : t \in DOMAIN planned}
        typeOf(m) == CHOOSE t \in DOMAIN planned : id[t] = m
    IN  /\ \A s, t \in DOMAIN planned : id[s] = id[t] => s = t
        /\ rows' = [m \in DOMAIN rows \cup new |->
                      IF m \in new THEN NewRow(typeOf(m), planned[typeOf(m)])
                                   ELSE rows[m]]
        /\ told' = [m \in DOMAIN rows \cup new |->
                      IF m \in new
                      THEN [plan |-> planned[typeOf(m)], fact |-> NoDay, active |-> TRUE]
                      ELSE told[m]]

-----------------------------------------------------------------------------
(* Requests: how they begin and end.                                       *)

At(c, step) == req[c].step = step

Goto(c, next) == req' = [req EXCEPT ![c] = next]

Answer(c, answer) == Goto(c, [step |-> "idle", answer |-> answer])

Begin(c, next) ==
  /\ At(c, "idle") /\ asked < MaxRequests
  /\ asked' = asked + 1
  /\ alone' = (alone /\ \A d \in Clients : At(d, "idle"))
  /\ Goto(c, next)
  /\ UNCHANGED <<rows, told, today>>

(* A statement or the commit fails, or the server goes away: the open      *)
(* transaction leaves nothing behind, the one before it stands.            *)
Fail(c) ==
  /\ ~At(c, "idle")
  /\ Answer(c, "failed")
  /\ UNCHANGED <<rows, told, today, asked, alone>>

-----------------------------------------------------------------------------
(* ApplyTemplate.  The template is active, and its items and the target    *)
(* date are read, before the transaction starts.                           *)

ApplyTemplate(c) ==
  \/ \E path \in Paths, target \in Targets :
        Begin(c, [step |-> "apply", planned |-> Apply(path, target)])
  \/ Begin(c, [step |-> "idle", answer |-> "refused"])

\* Mutant: a retired step no longer holds its type, and the template writes it again.
MissingActive(planned, held) ==
  LET gone == DOMAIN planned \ {held[m].type : m \in {n \in DOMAIN held : held[n].active}}
  IN  [t \in gone |-> planned[t]]

(* missing: the steps of a type the model lacks.  An inactive row holds    *)
(* its type.                                                               *)
Missing(planned, held) == [t \in DOMAIN planned \ TypesOf(held) |-> planned[t]]

HoldMissing(c) ==
  /\ At(c, "apply")
  /\ LET missing == Missing(req[c].planned, rows)
     IN  IF DOMAIN missing = {} THEN Answer(c, "saved")
         ELSE Goto(c, [step |-> "create", planned |-> missing])
  /\ UNCHANGED <<rows, told, today, asked, alone>>

(* A type somebody wrote since the calendar was read ends the request with *)
(* an error no screen explains.                                            *)
CreateMissing(c) ==
  /\ At(c, "create")
  /\ \/ /\ Insertable(req[c].planned)
        /\ Insert(req[c].planned)
        /\ Answer(c, "saved")
     \/ /\ ~Insertable(req[c].planned)
        /\ Answer(c, "conflict")
        /\ UNCHANGED <<rows, told>>
  /\ UNCHANGED <<today, asked, alone>>

-----------------------------------------------------------------------------
(* AddMilestone.  The type is active before the transaction starts, and    *)
(* the user states the day.                                                *)

AddMilestone(c) ==
  \/ \E t \in Types, day \in Days :
        Begin(c, [step |-> "add", planned |-> [s \in {t} |-> day]])
  \/ Begin(c, [step |-> "idle", answer |-> "refused"])

HoldType(c) ==
  /\ At(c, "add")
  /\ IF DOMAIN req[c].planned \cap TypesOf(rows) = {}
     THEN Goto(c, [step |-> "insert", planned |-> req[c].planned])
     ELSE Answer(c, "taken")
  /\ UNCHANGED <<rows, told, today, asked, alone>>

InsertOne(c) ==
  /\ At(c, "insert")
  /\ \/ /\ Insertable(req[c].planned)
        /\ Insert(req[c].planned)
        /\ Answer(c, "saved")
     \/ /\ ~Insertable(req[c].planned)
        /\ Answer(c, "taken")
        /\ UNCHANGED <<rows, told>>
  /\ UNCHANGED <<today, asked, alone>>

-----------------------------------------------------------------------------
(* SaveMilestone: MovePlan in one transaction, when the form posts a plan  *)
(* date, and then UpdateMilestone in another.                              *)

SaveMilestone(c) ==
  \E m \in Milestones, step \in {"find", "edit"} :
    Begin(c, [step |-> step, at |-> m])

(* Moves reads the row the user typed into ...                             *)
FindMoved(c) ==
  /\ At(c, "find")
  /\ IF req[c].at \in DOMAIN rows
     THEN Goto(c, [step |-> "hold", at |-> req[c].at, moved |-> rows[req[c].at]])
     ELSE Answer(c, "missing")
  /\ UNCHANGED <<rows, told, today, asked, alone>>

(* ... and then the calendar of the model, and decides what moves.  A      *)
(* plain edit (shift off) keeps the first move, which is the row itself.   *)
HoldCalendar(c) ==
  /\ At(c, "hold")
  /\ \E plan \in Days, shift \in BOOLEAN :
       LET r     == req[c]
           moves == Cascade(rows, r.at, r.moved, plan)
           kept  == IF shift THEN DOMAIN moves ELSE DOMAIN moves \cap {r.at}
           write == [m \in kept |->
                       [(IF m = r.at THEN r.moved ELSE rows[m]) EXCEPT !.plan = moves[m]]]
       IN  /\ \A m \in kept : moves[m] \in Days      \* bound: Horizon
           /\ Goto(c, [step |-> "move", at |-> r.at, write |-> write])
  /\ UNCHANGED <<rows, told, today, asked, alone>>

CommitMove(c) ==
  /\ At(c, "move")
  /\ WriteBack(req[c].write)
  /\ Tell(req[c].write, {"plan"})
  /\ Goto(c, [step |-> "edit", at |-> req[c].at])
  /\ UNCHANGED <<today, asked, alone>>

\* Mutant: the fact date of the form is not held against the clock.
AnyFact(fact) == TRUE

(* A fact date is never later than today.                                  *)
Happened(fact) == fact = NoDay \/ fact <= today

(* UpdateMilestone reads the row with no transaction open, and names the   *)
(* fields of the form that differ from it.  Of the note only whether it    *)
(* differs: then the row is written back whole, whatever else is the same. *)
ReadEdited(c) ==
  /\ At(c, "edit")
  /\ \E fact \in Facts, active, noted \in BOOLEAN :
       LET m      == req[c].at
           old    == rows[m]
           new    == [old EXCEPT !.fact = fact, !.active = active]
           fields == {f \in {"fact", "active"} : new[f] # old[f]}
       IN  IF ~Happened(fact) THEN Answer(c, "refused")
           ELSE IF m \notin DOMAIN rows THEN Answer(c, "missing")
           ELSE IF fields = {} /\ ~noted THEN Answer(c, "saved")
           ELSE Goto(c, [step |-> "write", write |-> [n \in {m} |-> new],
                         fields |-> fields])
  /\ UNCHANGED <<rows, told, today, asked, alone>>

CommitEdit(c) ==
  /\ At(c, "write")
  /\ WriteBack(req[c].write)
  /\ Tell(req[c].write, req[c].fields)
  /\ Answer(c, "saved")
  /\ UNCHANGED <<today, asked, alone>>

-----------------------------------------------------------------------------
(* A night passes in the business timezone.                                *)
NextDay ==
  /\ today < LastDay
  /\ today' = today + 1
  /\ UNCHANGED <<rows, told, req, asked, alone>>

Step(c) ==
  \/ ApplyTemplate(c) \/ HoldMissing(c) \/ CreateMissing(c)
  \/ AddMilestone(c) \/ HoldType(c) \/ InsertOne(c)
  \/ SaveMilestone(c) \/ FindMoved(c) \/ HoldCalendar(c) \/ CommitMove(c)
  \/ ReadEdited(c) \/ CommitEdit(c)
  \/ Fail(c)

Next == NextDay \/ \E c \in Clients : Step(c)

Spec == Init /\ [][Next]_vars
-----------------------------------------------------------------------------
(* Properties.                                                             *)

(* One step of a kind per model, whoever applies templates and adds steps  *)
(* at the same moment: ApplyTemplate and AddMilestone decide on a calendar *)
(* they read earlier.                                                      *)
TypeOnce == \A m, n \in DOMAIN rows : rows[m].type = rows[n].type => m = n

(* No row holds a fact date that is still to come, though the check and    *)
(* the write are statements apart and other requests write the same row.   *)
FactsHappened ==
  \A m \in DOMAIN rows : Done(rows[m]) => rows[m].fact \in 0..today

(* A milestone is never deleted, never becomes another step, and the date  *)
(* it first promised never moves, though every update writes all of its    *)
(* columns back from an earlier read.                                      *)
BaselineStands ==
  [][\A m \in DOMAIN rows :
       /\ m \in DOMAIN rows'
       /\ rows'[m].type = rows[m].type
       /\ rows'[m].baseline = rows[m].baseline]_vars

(* As long as no two requests were open at a time, the row and the trail   *)
(* agree: what the last entry of a field says is what the row holds, also  *)
(* after a save that stopped between its two transactions.                 *)
TrailTellsAlone ==
  alone => \A m \in DOMAIN rows :
    told[m] = [plan |-> rows[m].plan, fact |-> rows[m].fact, active |-> rows[m].active]

(* Work that is done does not move: the plan date of a row with a fact     *)
(* date changes only by an edit of that very row.                          *)
DoneStays ==
  [][\A m \in DOMAIN rows :
       Done(rows[m]) /\ rows'[m].plan # rows[m].plan
         => \E c \in Clients : At(c, "move") /\ req[c].at = m]_vars

(* The same, as long as no two requests were open at a time.               *)
DoneStaysAlone ==
  [][alone' => \A m \in DOMAIN rows :
       Done(rows[m]) /\ rows'[m].plan # rows[m].plan
         => \E c \in Clients : At(c, "move") /\ req[c].at = m]_vars

(* A template that is applied again adds the steps the model lacks: as     *)
(* long as no two requests were open at a time, no apply ends on a step    *)
(* the model holds already.                                                *)
ApplyFitsAlone ==
  alone => \A c \in Clients : At(c, "idle") => req[c].answer # "conflict"

(* The rows by type: a calendar that holds every type once is a book.      *)
BookOf(held) ==
  [t \in TypesOf(held) |->
     LET row == held[CHOOSE m \in DOMAIN held : held[m].type = t]
     IN  [baseline |-> row.baseline, plan |-> row.plan,
          fact |-> row.fact, active |-> row.active]]

Book == INSTANCE CalendarBook WITH book <- BookOf(rows)

(* What one request at a time does to the rows is what the book promises:  *)
(* each commit is one whole decision about the calendar that stands.       *)
KeepsTheBookAlone == Book!Init /\ [][alone' => [Book!Next]_(Book!vars)]_vars
=============================================================================
