---------------------------- MODULE CalendarProofs ----------------------------
(***************************************************************************)
(* What holds of the calendar for every number of requests, rows, types    *)
(* and days.  However the requests overlap: the types, one step of a kind  *)
(* per model, promises that stand and facts that happened.  As long as no  *)
(* two were open at a time: the trail that tells what the rows hold, done  *)
(* work that stays, and the book of CalendarBook.                          *)
(***************************************************************************)
EXTENDS Calendar, MilestoneList, PositionsProofs

(* A row as a request holds it stands for a row of the table when the two  *)
(* agree on what no request changes, and its fact is not ahead of the day. *)
StandsFor(row, m) ==
  /\ m \in DOMAIN rows
  /\ row.type = rows[m].type
  /\ row.baseline = rows[m].baseline
  /\ Done(row) => row.fact \in 0..today

HoldsStanding(r) ==
  /\ r.step = "hold" => StandsFor(r.moved, r.at)
  /\ r.step \in {"move", "write"} =>
       \A m \in DOMAIN r.write : StandsFor(r.write[m], m)

(* What every request has read and is about to write stands for the rows   *)
(* the table holds now, however long ago it was read.                      *)
HeldStands == \A c \in Clients : HoldsStanding(req[c])

(* The inductive invariant: promises and facts survive a write of old rows *)
(* because what is old in them is only the plan, the fact and the flag.    *)
IInv == TypeOK /\ TypeOnce /\ FactsHappened /\ HeldStands

-----------------------------------------------------------------------------
(* The actions write through few operators; what each of them preserves.   *)

(* A request that read, decided or gave up changes nothing but its place.  *)
LEMMA OnlyRequest ==
  ASSUME IInv, NEW c \in Clients,
         UNCHANGED <<rows, told, today>>, asked' \in 0..MaxRequests, alone' \in BOOLEAN,
         DOMAIN req' = Clients,
         \A d \in Clients \ {c} : req'[d] = req[d],
         RequestOK(req'[c]), HoldsStanding(req'[c])
  PROVE  IInv'
<1>1. TypeOK'
  BY DEF IInv, TypeOK, RowsOK
<1>2. TypeOnce'
  BY DEF IInv, TypeOnce
<1>3. FactsHappened'
  BY DEF IInv, FactsHappened, Done
<1>4. HeldStands'
  BY DEF IInv, HeldStands, HoldsStanding, StandsFor, Done
<1> QED BY <1>1, <1>2, <1>3, <1>4 DEF IInv

(* An update of rows that stand for what the table holds keeps the table   *)
(* in order, and what the other requests hold stands for it still.         *)
LEMMA Update ==
  ASSUME IInv, NEW c \in Clients, NEW fields,
         At(c, "move") \/ At(c, "write"),
         WriteBack(req[c].write), Tell(req[c].write, fields),
         UNCHANGED <<today, asked, alone>>,
         DOMAIN req' = Clients,
         \A d \in Clients \ {c} : req'[d] = req[d],
         RequestOK(req'[c]), req'[c].step \in {"edit", "idle"}
  PROVE  IInv'
<1> DEFINE write == req[c].write
<1>1. RowsOK(write) /\ \A m \in DOMAIN write : StandsFor(write[m], m)
  BY DEF IInv, TypeOK, RequestOK, HeldStands, HoldsStanding, At
<1>2. /\ DOMAIN rows' = DOMAIN rows
      /\ \A m \in DOMAIN rows :
           rows'[m] = IF m \in DOMAIN write THEN write[m] ELSE rows[m]
  BY DEF WriteBack
<1>3. /\ DOMAIN told' = DOMAIN told
      /\ \A m \in DOMAIN told : told'[m] \in Told
  BY <1>1 DEF IInv, TypeOK, RowsOK, Tell, Told, Row, Facts
<1>4. TypeOK'
  BY <1>1, <1>2, <1>3 DEF IInv, TypeOK, RowsOK
<1>5. /\ \A m \in DOMAIN rows : /\ rows'[m].type = rows[m].type
                                /\ rows'[m].baseline = rows[m].baseline
  BY <1>1, <1>2 DEF StandsFor
<1>6. TypeOnce'
  BY <1>2, <1>5 DEF IInv, TypeOnce
<1>7. FactsHappened'
  BY <1>1, <1>2 DEF IInv, FactsHappened, StandsFor, Done
<1>8. HeldStands'
  BY <1>2, <1>5 DEF IInv, HeldStands, HoldsStanding, StandsFor, Done
<1> QED BY <1>4, <1>6, <1>7, <1>8 DEF IInv

(* An insert of steps the model lacks adds one row per step.               *)
LEMMA Inserted ==
  ASSUME IInv, NEW c \in Clients,
         req[c].step \in {"create", "insert"},
         Insertable(req[c].planned), Insert(req[c].planned),
         UNCHANGED <<today, asked, alone>>,
         DOMAIN req' = Clients,
         \A d \in Clients \ {c} : req'[d] = req[d],
         RequestOK(req'[c]), req'[c].step = "idle"
  PROVE  IInv'
<1> DEFINE planned == req[c].planned
<1>1. /\ DOMAIN planned \subseteq Types
      /\ \A t \in DOMAIN planned : planned[t] \in Days
  BY DEF IInv, TypeOK, RequestOK
<1>2. PICK id \in [DOMAIN planned -> Milestones \ DOMAIN rows] :
        LET new == {id[t] : t \in DOMAIN planned}
            typeOf(m) == CHOOSE t \in DOMAIN planned : id[t] = m
        IN  /\ \A s, t \in DOMAIN planned : id[s] = id[t] => s = t
            /\ rows' = [m \in DOMAIN rows \cup new |->
                          IF m \in new THEN NewRow(typeOf(m), planned[typeOf(m)])
                                       ELSE rows[m]]
            /\ told' = [m \in DOMAIN rows \cup new |->
                          IF m \in new
                          THEN [plan |-> planned[typeOf(m)], fact |-> NoDay, active |-> TRUE]
                          ELSE told[m]]
  BY DEF Insert
<1> DEFINE new == {id[t] : t \in DOMAIN planned}
           typeOf(m) == CHOOSE t \in DOMAIN planned : id[t] = m
<1>3. \A m \in new : typeOf(m) \in DOMAIN planned /\ id[typeOf(m)] = m
  OBVIOUS
<1>4. new \subseteq Milestones \ DOMAIN rows
  OBVIOUS
<1>5. /\ DOMAIN rows' = DOMAIN rows \cup new
      /\ DOMAIN told' = DOMAIN rows \cup new
      /\ \A m \in DOMAIN rows : rows'[m] = rows[m] /\ told'[m] = told[m]
      /\ \A m \in new : /\ rows'[m] = NewRow(typeOf(m), planned[typeOf(m)])
                        /\ told'[m] = [plan |-> planned[typeOf(m)], fact |-> NoDay,
                                       active |-> TRUE]
  BY <1>2, <1>4
<1> HIDE DEF new, typeOf
<1>6. \A m \in new : rows'[m] \in Row /\ told'[m] \in Told
  <2> TAKE m \in new
  <2>1. typeOf(m) \in Types /\ planned[typeOf(m)] \in Days
    BY <1>1, <1>3
  <2>2. NewRow(typeOf(m), planned[typeOf(m)]) \in Row
    BY <2>1 DEF NewRow, Row, Facts
  <2>3. [plan |-> planned[typeOf(m)], fact |-> NoDay, active |-> TRUE] \in Told
    BY <2>1 DEF Told, Facts
  <2> QED BY <1>5, <2>2, <2>3
<1>7. TypeOK'
  BY <1>4, <1>5, <1>6 DEF IInv, TypeOK, RowsOK
<1>8. TypeOnce'
  <2> SUFFICES ASSUME NEW m \in DOMAIN rows', NEW n \in DOMAIN rows',
                      rows'[m].type = rows'[n].type
               PROVE  m = n
    BY DEF TypeOnce
  <2>1. \A k \in new : rows'[k].type = typeOf(k) /\ rows'[k].type \in DOMAIN planned
    BY <1>3, <1>5 DEF NewRow
  <2>2. \A k \in DOMAIN rows : rows'[k].type \notin DOMAIN planned
    BY <1>5 DEF Insertable, TypesOf
  <2>3. CASE m \in new /\ n \in new
    BY <2>1, <2>3, <1>3
  <2>4. CASE m \in DOMAIN rows /\ n \in DOMAIN rows
    BY <2>4, <1>5 DEF IInv, TypeOnce
  <2> QED BY <1>5, <2>1, <2>2, <2>3, <2>4
<1>9. FactsHappened'
  BY <1>5 DEF IInv, FactsHappened, NewRow, Done
<1>10. HeldStands'
  BY <1>5 DEF IInv, HeldStands, HoldsStanding, StandsFor, Done
<1> QED BY <1>7, <1>8, <1>9, <1>10 DEF IInv

(* A night keeps every fact in the past.                                   *)
LEMMA Overnight == IInv /\ NextDay => IInv'
<1> SUFFICES ASSUME IInv, NextDay PROVE IInv'
  OBVIOUS
<1>1. TypeOK'
  BY CalendarAssumption DEF IInv, TypeOK, RowsOK, NextDay
<1>2. TypeOnce'
  BY DEF IInv, TypeOnce, NextDay
<1>3. FactsHappened'
  BY CalendarAssumption DEF IInv, TypeOK, FactsHappened, Done, NextDay
<1>4. HeldStands'
  BY CalendarAssumption
  DEF IInv, TypeOK, HeldStands, HoldsStanding, StandsFor, Done, NextDay
<1> QED BY <1>1, <1>2, <1>3, <1>4 DEF IInv

-----------------------------------------------------------------------------
(* The requests, action by action.                                         *)

(* A request begins with nothing read.                                     *)
LEMMA Begun ==
  ASSUME IInv, NEW c \in Clients, NEW next, Begin(c, next),
         RequestOK(next), next.step \notin {"hold", "move", "write"}
  PROVE  IInv'
<1>1. asked' \in 0..MaxRequests /\ alone' \in BOOLEAN
  BY CalendarAssumption DEF IInv, TypeOK, Begin
<1>2. /\ DOMAIN req' = Clients
      /\ req'[c] = next
      /\ \A d \in Clients \ {c} : req'[d] = req[d]
  BY DEF IInv, TypeOK, Begin, Goto
<1>3. HoldsStanding(req'[c])
  BY <1>2 DEF HoldsStanding
<1> QED BY <1>1, <1>2, <1>3, OnlyRequest DEF Begin

(* A request that ends without writing leaves everything as it was.        *)
LEMMA Answered ==
  ASSUME IInv, NEW c \in Clients, NEW answer \in Answers, Answer(c, answer),
         UNCHANGED <<rows, told, today, asked, alone>>
  PROVE  IInv'
<1>1. /\ DOMAIN req' = Clients
      /\ req'[c] = [step |-> "idle", answer |-> answer]
      /\ \A d \in Clients \ {c} : req'[d] = req[d]
  BY DEF IInv, TypeOK, Answer, Goto
<1>2. RequestOK(req'[c]) /\ HoldsStanding(req'[c])
  BY <1>1 DEF RequestOK, HoldsStanding
<1>3. asked' \in 0..MaxRequests /\ alone' \in BOOLEAN
  BY DEF IInv, TypeOK
<1> QED BY <1>1, <1>2, <1>3, OnlyRequest

(* ApplyTemplate, from the target date it reads to the insert.             *)
LEMMA Applies ==
  ASSUME IInv, NEW c \in Clients, ApplyTemplate(c) \/ HoldMissing(c) \/ CreateMissing(c)
  PROVE  IInv'
<1>1. CASE ApplyTemplate(c)
  <2>1. CASE \E path \in Paths, target \in Targets :
               Begin(c, [step |-> "apply", planned |-> Apply(path, target)])
    <3>1. PICK path \in Paths, target \in Targets :
            Begin(c, [step |-> "apply", planned |-> Apply(path, target)])
      BY <2>1
    <3>2. RequestOK([step |-> "apply", planned |-> Apply(path, target)])
      BY CalendarAssumption DEF RequestOK, Apply
    <3> QED BY <3>1, <3>2, Begun
  <2>2. CASE Begin(c, [step |-> "idle", answer |-> "refused"])
    BY <2>2, Begun DEF RequestOK, Answers
  <2> QED BY <1>1, <2>1, <2>2 DEF ApplyTemplate
<1>2. CASE HoldMissing(c)
  <2> DEFINE missing == Missing(req[c].planned, rows)
  <2>1. RequestOK([step |-> "create", planned |-> missing])
    BY <1>2 DEF HoldMissing, At, Missing, RequestOK, IInv, TypeOK
  <2> HIDE DEF missing
  <2>2. CASE Answer(c, "saved")
    BY <1>2, <2>2, Answered DEF HoldMissing, Answers
  <2>3. CASE Goto(c, [step |-> "create", planned |-> missing])
    BY <1>2, <2>1, <2>3, OnlyRequest
    DEF HoldMissing, Goto, At, HoldsStanding, IInv, TypeOK
  <2> QED BY <1>2, <2>2, <2>3 DEF HoldMissing, missing
<1>3. CASE CreateMissing(c)
  <2>1. CASE Insertable(req[c].planned)
    BY <1>3, <2>1, Inserted
    DEF CreateMissing, Answer, Goto, At, RequestOK, Answers, IInv, TypeOK
  <2>2. CASE ~Insertable(req[c].planned)
    BY <1>3, <2>2, Answered DEF CreateMissing, Answers
  <2> QED BY <2>1, <2>2
<1> QED BY <1>1, <1>2, <1>3

(* AddMilestone, from the type it checks to the insert.                    *)
LEMMA Adds ==
  ASSUME IInv, NEW c \in Clients, AddMilestone(c) \/ HoldType(c) \/ InsertOne(c)
  PROVE  IInv'
<1>1. CASE AddMilestone(c)
  <2>1. CASE \E t \in Types, day \in Days :
               Begin(c, [step |-> "add", planned |-> [s \in {t} |-> day]])
    <3>1. PICK t \in Types, day \in Days :
            Begin(c, [step |-> "add", planned |-> [s \in {t} |-> day]])
      BY <2>1
    <3>2. RequestOK([step |-> "add", planned |-> [s \in {t} |-> day]])
      BY DEF RequestOK
    <3> QED BY <3>1, <3>2, Begun
  <2>2. CASE Begin(c, [step |-> "idle", answer |-> "refused"])
    BY <2>2, Begun DEF RequestOK, Answers
  <2> QED BY <1>1, <2>1, <2>2 DEF AddMilestone
<1>2. CASE HoldType(c)
  <2>1. RequestOK([step |-> "insert", planned |-> req[c].planned])
    BY <1>2 DEF HoldType, At, RequestOK, IInv, TypeOK
  <2>2. CASE Answer(c, "taken")
    BY <1>2, <2>2, Answered DEF HoldType, Answers
  <2>3. CASE Goto(c, [step |-> "insert", planned |-> req[c].planned])
    BY <1>2, <2>1, <2>3, OnlyRequest
    DEF HoldType, Goto, At, HoldsStanding, IInv, TypeOK
  <2> QED BY <1>2, <2>2, <2>3 DEF HoldType
<1>3. CASE InsertOne(c)
  <2>1. CASE Insertable(req[c].planned)
    BY <1>3, <2>1, Inserted
    DEF InsertOne, Answer, Goto, At, RequestOK, Answers, IInv, TypeOK
  <2>2. CASE ~Insertable(req[c].planned)
    BY <1>3, <2>2, Answered DEF InsertOne, Answers
  <2> QED BY <2>1, <2>2
<1> QED BY <1>1, <1>2, <1>3

(* SaveMilestone: both of its transactions write back rows that stand for  *)
(* what the table holds, as no step of another request changes more of     *)
(* them than a plan, a fact and a flag.                                    *)
LEMMA Saves ==
  ASSUME IInv, NEW c \in Clients,
         SaveMilestone(c) \/ FindMoved(c) \/ HoldCalendar(c) \/ CommitMove(c)
           \/ ReadEdited(c) \/ CommitEdit(c)
  PROVE  IInv'
<1>1. CASE SaveMilestone(c)
  <2>1. PICK m \in Milestones, step \in {"find", "edit"} :
          Begin(c, [step |-> step, at |-> m])
    BY <1>1 DEF SaveMilestone
  <2>2. RequestOK([step |-> step, at |-> m])
    BY DEF RequestOK
  <2> QED BY <2>1, <2>2, Begun
<1>2. CASE FindMoved(c)
  <2> DEFINE next == [step |-> "hold", at |-> req[c].at, moved |-> rows[req[c].at]]
  <2>1. CASE Answer(c, "missing")
    BY <1>2, <2>1, Answered DEF FindMoved, Answers
  <2>2. CASE req[c].at \in DOMAIN rows /\ Goto(c, next)
    <3>1. RequestOK(next) /\ HoldsStanding(next)
      BY <1>2, <2>2
      DEF FindMoved, At, RequestOK, HoldsStanding, StandsFor, IInv, TypeOK, RowsOK,
          FactsHappened
    <3> HIDE DEF next
    <3> QED BY <1>2, <2>2, <3>1, OnlyRequest DEF FindMoved, Goto, IInv, TypeOK
  <2> QED BY <1>2, <2>1, <2>2 DEF FindMoved
<1>3. CASE HoldCalendar(c)
  <2> DEFINE r == req[c]
  <2>1. PICK plan \in Days, shift \in BOOLEAN :
          LET moves == Cascade(rows, r.at, r.moved, plan)
              kept  == IF shift THEN DOMAIN moves ELSE DOMAIN moves \cap {r.at}
              write == [m \in kept |->
                          [(IF m = r.at THEN r.moved ELSE rows[m]) EXCEPT !.plan = moves[m]]]
          IN  /\ \A m \in kept : moves[m] \in Days
              /\ Goto(c, [step |-> "move", at |-> r.at, write |-> write])
    BY <1>3 DEF HoldCalendar
  <2> DEFINE moves == Cascade(rows, r.at, r.moved, plan)
             kept  == IF shift THEN DOMAIN moves ELSE DOMAIN moves \cap {r.at}
             from(m) == IF m = r.at THEN r.moved ELSE rows[m]
             write == [m \in kept |-> [from(m) EXCEPT !.plan = moves[m]]]
             next  == [step |-> "move", at |-> r.at, write |-> write]
  <2>2. /\ r.at \in Milestones /\ r.at \in DOMAIN rows
        /\ r.moved \in Row /\ StandsFor(r.moved, r.at)
    BY <1>3
    DEF HoldCalendar, At, RequestOK, HeldStands, HoldsStanding, StandsFor, IInv, TypeOK
  <2>3. DOMAIN moves \subseteq DOMAIN rows
    BY <2>2 DEF Cascade, Carried
  <2>4. \A m \in DOMAIN rows : from(m) \in Row /\ StandsFor(from(m), m)
    BY <2>2 DEF StandsFor, IInv, TypeOK, RowsOK, FactsHappened
  <2> HIDE DEF moves, from
  <2>5. \A m \in kept : write[m] \in Row /\ StandsFor(write[m], m)
    <3> SUFFICES ASSUME NEW m \in kept
                 PROVE  /\ [from(m) EXCEPT !.plan = moves[m]] \in Row
                        /\ StandsFor([from(m) EXCEPT !.plan = moves[m]], m)
      OBVIOUS
    <3>1. m \in DOMAIN rows /\ moves[m] \in Days
      BY <2>1, <2>3 DEF moves
    <3> QED BY <2>4, <3>1 DEF Row, StandsFor, Done
  <2>6. kept \subseteq Milestones
    BY <2>3 DEF IInv, TypeOK, RowsOK
  <2>7. RequestOK(next) /\ HoldsStanding(next)
    BY <2>2, <2>5, <2>6 DEF RequestOK, RowsOK, HoldsStanding
  <2>8. Goto(c, next)
    BY <2>1 DEF moves, from
  <2> HIDE DEF next
  <2> QED BY <1>3, <2>7, <2>8, OnlyRequest DEF HoldCalendar, Goto, IInv, TypeOK
<1>4. CASE CommitMove(c)
  <2>1. RequestOK([step |-> "edit", at |-> req[c].at])
    BY <1>4 DEF CommitMove, At, RequestOK, IInv, TypeOK
  <2> QED BY <1>4, <2>1, Update DEF CommitMove, Goto, IInv, TypeOK
<1>5. CASE ReadEdited(c)
  <2> DEFINE m == req[c].at
             old == rows[m]
  <2>1. PICK fact \in Facts, active \in BOOLEAN, noted \in BOOLEAN :
          LET new    == [old EXCEPT !.fact = fact, !.active = active]
              fields == {f \in {"fact", "active"} : new[f] # old[f]}
          IN  IF ~Happened(fact) THEN Answer(c, "refused")
              ELSE IF m \notin DOMAIN rows THEN Answer(c, "missing")
              ELSE IF fields = {} /\ ~noted THEN Answer(c, "saved")
              ELSE Goto(c, [step |-> "write", write |-> [n \in {m} |-> new],
                            fields |-> fields])
    BY <1>5 DEF ReadEdited
  <2> DEFINE new    == [old EXCEPT !.fact = fact, !.active = active]
             fields == {f \in {"fact", "active"} : new[f] # old[f]}
             next   == [step |-> "write", write |-> [n \in {m} |-> new],
                        fields |-> fields]
  <2>2. CASE \E a \in Answers : Answer(c, a)
    BY <1>5, <2>2, Answered DEF ReadEdited
  <2>3. CASE Happened(fact) /\ m \in DOMAIN rows /\ Goto(c, next)
    <3>1. m \in Milestones /\ old \in Row
      BY <1>5, <2>3 DEF ReadEdited, IInv, TypeOK, RowsOK
    <3>2. fact # NoDay => fact \in 0..today
      BY <2>3, CalendarAssumption DEF Happened, Facts, Days, IInv, TypeOK
    <3>3. new \in Row /\ StandsFor(new, m)
      BY <2>3, <3>1, <3>2 DEF Row, StandsFor, Done
    <3>4. RequestOK(next) /\ HoldsStanding(next)
      BY <3>1, <3>3 DEF RequestOK, RowsOK, HoldsStanding, Fields
    <3> HIDE DEF next
    <3> QED BY <1>5, <2>3, <3>4, OnlyRequest DEF ReadEdited, Goto, IInv, TypeOK
  <2> QED BY <2>1, <2>2, <2>3 DEF Answers
<1>6. CASE CommitEdit(c)
  BY <1>6, Update DEF CommitEdit, Answer, Goto, At, RequestOK, Answers, IInv, TypeOK
<1> QED BY <1>1, <1>2, <1>3, <1>4, <1>5, <1>6

-----------------------------------------------------------------------------
(* The invariant, and what follows from it.                                *)

(* Every step, the night included, preserves the invariant.                *)
LEMMA Inductive == IInv /\ [Next]_vars => IInv'
<1> SUFFICES ASSUME IInv, [Next]_vars PROVE IInv'
  OBVIOUS
<1>1. CASE NextDay
  BY <1>1, Overnight
<1>2. ASSUME NEW c \in Clients, Step(c) PROVE IInv'
  <2>1. CASE Fail(c)
    BY <2>1, Answered DEF Fail, Answers
  <2> QED BY <1>2, <2>1, Applies, Adds, Saves DEF Step
<1>3. CASE UNCHANGED vars
  <2>1. UNCHANGED <<rows, told, today, req, asked, alone>>
    BY <1>3 DEF vars
  <2>2. TypeOK'
    BY <2>1 DEF IInv, TypeOK, RowsOK
  <2>3. TypeOnce' /\ FactsHappened'
    BY <2>1 DEF IInv, TypeOnce, FactsHappened, Done
  <2>4. HeldStands'
    BY <2>1 DEF IInv, HeldStands, HoldsStanding, StandsFor, Done
  <2> QED BY <2>2, <2>3, <2>4 DEF IInv
<1> QED BY <1>1, <1>2, <1>3 DEF Next

(* A model with no calendar: nothing is held, nothing is told.             *)
LEMMA Initially == Init => IInv
<1> SUFFICES ASSUME Init PROVE IInv
  OBVIOUS
<1>1. TypeOK
  BY CalendarAssumption DEF Init, TypeOK, RowsOK, RequestOK, Answers
<1>2. TypeOnce /\ FactsHappened
  BY DEF Init, TypeOnce, FactsHappened
<1>3. HeldStands
  BY DEF Init, HeldStands, HoldsStanding
<1> QED BY <1>1, <1>2, <1>3 DEF IInv

(* The invariant the theorems on overlapping requests follow from: it      *)
(* holds in every state that any requests of calendar.go lead to.          *)
THEOREM Invariance == Spec => []IInv
<1> QED BY Initially, Inductive, PTL DEF Spec

(* The variables keep their types under every interleaving of the requests *)
(* of calendar.go.                                                         *)
THEOREM TypeCorrect == Spec => []TypeOK
<1>1. IInv => TypeOK
  BY DEF IInv
<1> QED BY <1>1, Invariance, PTL

(* However many requests apply templates and add steps at a time, a model  *)
(* holds one milestone of a type: what the check of ApplyTemplate and      *)
(* AddMilestone misses, the unique index refuses.                          *)
THEOREM OneStepPerType == Spec => []TypeOnce
<1>1. IInv => TypeOnce
  BY DEF IInv
<1> QED BY <1>1, Invariance, PTL

(* No row ever holds a fact date later than today, although UpdateMilestone *)
(* checks the date in one statement and writes it in another, and MovePlan *)
(* writes back facts it read earlier.                                      *)
THEOREM NoFactAhead == Spec => []FactsHappened
<1>1. IInv => FactsHappened
  BY DEF IInv
<1> QED BY <1>1, Invariance, PTL

(* The promise of a milestone is written once, with the milestone: no      *)
(* update moves its baseline date, gives it another type or removes it,    *)
(* although each writes all columns back from an earlier read.             *)
THEOREM PromiseStands == Spec => BaselineStands
<1> DEFINE Stands == \A m \in DOMAIN rows :
                       /\ m \in DOMAIN rows'
                       /\ rows'[m].type = rows[m].type
                       /\ rows'[m].baseline = rows[m].baseline
<1>1. IInv /\ [Next]_vars => [Stands]_vars
  <2> SUFFICES ASSUME IInv, Next PROVE Stands
    OBVIOUS
  <2>1. CASE UNCHANGED rows
    BY <2>1
  <2>2. ASSUME NEW c \in Clients, Insert(req[c].planned) PROVE Stands
    BY <2>2 DEF Insert
  <2>3. ASSUME NEW c \in Clients, At(c, "move") \/ At(c, "write"),
               WriteBack(req[c].write)
        PROVE  Stands
    BY <2>3 DEF WriteBack, IInv, HeldStands, HoldsStanding, StandsFor, At
  <2> QED
    BY <2>1, <2>2, <2>3
    DEF Next, NextDay, Step, ApplyTemplate, Begin, HoldMissing, CreateMissing,
        AddMilestone, HoldType, InsertOne, SaveMilestone, FindMoved, HoldCalendar,
        CommitMove, ReadEdited, CommitEdit, Fail
<1> QED BY <1>1, Invariance, PTL DEF Spec, BaselineStands
-----------------------------------------------------------------------------
(* One request at a time.  What follows is the part of the calendar the    *)
(* overlaps of requests break: it holds as long as no two were open at a   *)
(* time, so what the open one has read is what the tables still hold.      *)

OneOpen ==
  alone => \A c, d \in Clients : ~At(c, "idle") /\ ~At(d, "idle") => c = d

(* A row planned for another day, and a row stamped, retired or restored.  *)
Replanned(row, day) == [row EXCEPT !.plan = day]
Restated(row, fact, active) == [row EXCEPT !.fact = fact, !.active = active]

(* The rows of a move: the row the user typed into, or that row moved to a *)
(* later day and every row a shift takes along, from the rows that stand.  *)
Moves(write, at) ==
  /\ at \in DOMAIN rows
  /\ \/ /\ DOMAIN write \subseteq {at}
        /\ \A m \in DOMAIN write :
             \E day \in Days : write[m] = Replanned(rows[m], day)
     \/ \E day \in Days :
          LET days == day - rows[at].plan
          IN  /\ days > 0
              /\ DOMAIN write = {at} \cup Carried(rows, at, rows[at].plan)
              /\ \A m \in DOMAIN write :
                   write[m] = Replanned(rows[m], rows[m].plan + days)

(* The one row of an edit, and the fields of the trail it differs in.      *)
Edits(write, fields) ==
  \E m \in DOMAIN rows, fact \in Facts, active \in BOOLEAN :
    /\ DOMAIN write = {m}
    /\ write[m] = Restated(rows[m], fact, active)
    /\ "plan" \notin fields
    /\ "fact" \notin fields => fact = rows[m].fact
    /\ "active" \notin fields => active = rows[m].active

FreshRequest(r) ==
  /\ r.step = "idle" => r.answer # "conflict"
  /\ r.step = "create" => DOMAIN r.planned \cap TypesOf(rows) = {}
  /\ r.step = "hold" => r.moved = rows[r.at]
  /\ r.step = "move" => Moves(r.write, r.at)
  /\ r.step = "write" => Edits(r.write, r.fields)

(* What the open request has read and decided is what the tables hold now. *)
HeldFresh == alone => \A c \in Clients : FreshRequest(req[c])

(* The inductive invariant of the requests that come one at a time.        *)
AloneInv == IInv /\ OneOpen /\ TrailTellsAlone /\ HeldFresh

-----------------------------------------------------------------------------
(* A step that only one request takes while all others are idle: what the  *)
(* idle ones hold stays fresh whatever it writes.                          *)
LEMMA OthersIdle ==
  ASSUME AloneInv, alone, NEW c \in Clients, ~At(c, "idle"),
         \A d \in Clients \ {c} : req'[d] = req[d]
  PROVE  \A d \in Clients \ {c} : /\ At(d, "idle") /\ At(d, "idle")'
                                  /\ FreshRequest(req[d])'
<1> SUFFICES ASSUME NEW d \in Clients \ {c}
             PROVE  At(d, "idle") /\ At(d, "idle")' /\ FreshRequest(req[d])'
  OBVIOUS
<1>1. At(d, "idle") /\ req'[d] = req[d]
  BY DEF AloneInv, OneOpen
<1>2. req[d].answer # "conflict"
  BY <1>1 DEF AloneInv, HeldFresh, FreshRequest, At
<1> QED BY <1>1, <1>2 DEF At, FreshRequest

(* The request that is open takes a step: alone it stays.                  *)
LEMMA OpenStep ==
  ASSUME AloneInv, NEW c \in Clients, ~At(c, "idle"), alone' = alone, IInv',
         \A d \in Clients \ {c} : req'[d] = req[d],
         alone => FreshRequest(req[c])',
         alone => \A m \in DOMAIN rows' :
           told'[m] = [plan |-> rows'[m].plan, fact |-> rows'[m].fact,
                       active |-> rows'[m].active]
  PROVE  AloneInv'
<1>1. OneOpen'
  BY OthersIdle DEF OneOpen, At
<1>2. HeldFresh'
  BY OthersIdle DEF HeldFresh
<1>3. TrailTellsAlone'
  BY DEF TrailTellsAlone
<1> QED BY <1>1, <1>2, <1>3 DEF AloneInv

(* A request that begins alone finds every other idle.                     *)
LEMMA BegunAlone ==
  ASSUME AloneInv, IInv', NEW c \in Clients, NEW next, Begin(c, next),
         next.step \notin {"create", "hold", "move", "write"},
         next.step = "idle" => next.answer # "conflict"
  PROVE  AloneInv'
<1>1. /\ DOMAIN req' = Clients
      /\ req'[c] = next
      /\ \A d \in Clients \ {c} : req'[d] = req[d]
      /\ UNCHANGED <<rows, told, today>>
      /\ alone' => alone /\ \A d \in Clients : At(d, "idle")
  BY DEF AloneInv, IInv, TypeOK, Begin, Goto
<1>2. OneOpen'
  BY <1>1 DEF OneOpen, At
<1>3. TrailTellsAlone'
  BY <1>1 DEF AloneInv, TrailTellsAlone
<1>4. HeldFresh'
  <2> SUFFICES ASSUME alone', NEW d \in Clients PROVE FreshRequest(req[d])'
    BY DEF HeldFresh
  <2>1. CASE d = c
    BY <1>1, <2>1 DEF FreshRequest
  <2>2. CASE d # c
    <3>1. At(d, "idle") /\ req'[d] = req[d] /\ req[d].answer # "conflict"
      BY <1>1, <2>2 DEF AloneInv, HeldFresh, FreshRequest, At
    <3> QED BY <3>1 DEF FreshRequest, At
  <2> QED BY <2>1, <2>2
<1> QED BY <1>2, <1>3, <1>4 DEF AloneInv

(* A step of the open request that writes nothing.                         *)
LEMMA ReadsOnly ==
  ASSUME AloneInv, IInv', NEW c \in Clients, ~At(c, "idle"), NEW next, Goto(c, next),
         UNCHANGED <<rows, told, today, asked, alone>>,
         alone => FreshRequest(next)
  PROVE  AloneInv'
<1>1. req'[c] = next /\ \A d \in Clients \ {c} : req'[d] = req[d]
  BY DEF AloneInv, IInv, TypeOK, Goto
<1>2. rows' = rows
  OBVIOUS
<1>3. alone => FreshRequest(next)'
  <2> SUFFICES ASSUME alone PROVE FreshRequest(next)'
    OBVIOUS
  <2>1. next.step = "move" => Moves(next.write, next.at)'
    BY <1>2 DEF FreshRequest, Moves, Carried
  <2>2. next.step = "write" => Edits(next.write, next.fields)'
    BY <1>2 DEF FreshRequest, Edits
  <2> QED BY <1>2, <2>1, <2>2 DEF FreshRequest, TypesOf
<1>4. alone => FreshRequest(req[c])'
  BY <1>1, <1>3 DEF FreshRequest
<1> QED BY <1>1, <1>4, OpenStep DEF AloneInv, TrailTellsAlone

(* The move of one row, or the shift, as HoldCalendar decides it on the    *)
(* rows that stand.                                                        *)
LEMMA Decides ==
  ASSUME IInv, NEW at \in DOMAIN rows, NEW day \in Days, NEW shift \in BOOLEAN,
         NEW kept, NEW write,
         LET moves == Cascade(rows, at, rows[at], day)
         IN  /\ kept = IF shift THEN DOMAIN moves ELSE DOMAIN moves \cap {at}
             /\ write = [m \in kept |->
                           [(IF m = at THEN rows[at] ELSE rows[m]) EXCEPT !.plan = moves[m]]]
  PROVE  Moves(write, at)
<1> DEFINE moves == Cascade(rows, at, rows[at], day)
           days  == day - rows[at].plan
<1>1. /\ RowsOK(rows) /\ day \in Int
      /\ \A m \in DOMAIN rows : rows[m].plan \in Int
  BY CalendarAssumption DEF IInv, TypeOK, RowsOK, Row, Days
<1>2. /\ DOMAIN moves = IF days = 0 THEN {}
                        ELSE IF days < 0 THEN {at}
                        ELSE {at} \cup Carried(rows, at, rows[at].plan)
      /\ \A m \in DOMAIN moves : moves[m] = IF m = at THEN day ELSE rows[m].plan + days
  BY DEF Cascade
<1>3. /\ DOMAIN write = kept
      /\ \A m \in kept : write[m] = Replanned(rows[m], moves[m])
  BY DEF Replanned
<1>4. kept = IF shift THEN DOMAIN moves ELSE DOMAIN moves \cap {at}
  OBVIOUS
<1> HIDE DEF moves
<1>5. days \in Int
  BY <1>1
<1>6. CASE shift /\ days > 0
  <2>1. days # 0 /\ ~(days < 0)
    BY <1>5, <1>6
  <2>2. day = rows[at].plan + days
    BY <1>1
  <2> HIDE DEF days
  <2>3. kept = {at} \cup Carried(rows, at, rows[at].plan) /\ kept = DOMAIN moves
    BY <1>2, <1>4, <1>6, <2>1
  <2>5. \A m \in kept : moves[m] = rows[m].plan + days
    BY <1>2, <2>2, <2>3
  <2>6. \A m \in kept : write[m] = Replanned(rows[m], rows[m].plan + days)
    BY <1>3, <2>5
  <2> QED BY <1>3, <1>6, <2>3, <2>6 DEF Moves, days
<1>7. CASE ~(shift /\ days > 0)
  <2>1. ~shift \/ days = 0 \/ days < 0
    BY <1>5, <1>7
  <2> HIDE DEF days
  <2>2. kept \subseteq {at} /\ kept \subseteq DOMAIN moves
    BY <1>2, <1>4, <2>1
  <2>3. \A m \in kept : moves[m] = day
    BY <1>2, <2>2
  <2>4. DOMAIN write \subseteq {at}
    BY <1>3, <2>2
  <2>5. \A m \in DOMAIN write : write[m] = Replanned(rows[m], day)
    BY <1>3, <2>3
  <2>6. \A m \in DOMAIN write : \E d \in Days : write[m] = Replanned(rows[m], d)
    BY <2>5
  <2> HIDE DEF moves
  <2> QED BY <2>4, <2>6 DEF Moves
<1> QED BY <1>6, <1>7

(* What a fresh move writes: rows of the table with another plan date.     *)
LEMMA MovesPlans ==
  ASSUME IInv, NEW at, NEW write, Moves(write, at), NEW m \in DOMAIN write
  PROVE  /\ m \in DOMAIN rows
         /\ write[m].type = rows[m].type /\ write[m].baseline = rows[m].baseline
         /\ write[m].fact = rows[m].fact /\ write[m].active = rows[m].active
<1>1. m \in DOMAIN rows
  BY DEF Moves, Carried
<1>2. \E day : write[m] = Replanned(rows[m], day)
  BY DEF Moves
<1>3. rows[m] \in Row
  BY <1>1 DEF IInv, TypeOK, RowsOK
<1> QED BY <1>1, <1>2, <1>3 DEF Row, Replanned

(* A commit of a fresh move or edit writes what the trail is told.         *)
LEMMA ToldAsWritten ==
  ASSUME AloneInv, alone, NEW write, NEW fields,
         WriteBack(write), Tell(write, fields), RowsOK(write),
         \/ fields = {"plan"} /\ \E at : Moves(write, at)
         \/ Edits(write, fields),
         NEW m \in DOMAIN rows'
  PROVE  told'[m] = [plan |-> rows'[m].plan, fact |-> rows'[m].fact,
                     active |-> rows'[m].active]
<1>1. /\ m \in DOMAIN rows /\ m \in DOMAIN told /\ rows[m] \in Row
      /\ told[m] = [plan |-> rows[m].plan, fact |-> rows[m].fact,
                    active |-> rows[m].active]
  BY DEF WriteBack, AloneInv, TrailTellsAlone, IInv, TypeOK, RowsOK
<1>2. CASE m \notin DOMAIN write
  BY <1>1, <1>2 DEF WriteBack, Tell
<1>3. CASE m \in DOMAIN write
  <2>1. /\ rows'[m] = write[m]
        /\ told'[m] =
             [plan   |-> IF "plan"   \in fields THEN write[m].plan   ELSE rows[m].plan,
              fact   |-> IF "fact"   \in fields THEN write[m].fact   ELSE rows[m].fact,
              active |-> IF "active" \in fields THEN write[m].active ELSE rows[m].active]
    BY <1>1, <1>3 DEF WriteBack, Tell
  <2>2. /\ "plan" \notin fields => write[m].plan = rows[m].plan
        /\ "fact" \notin fields => write[m].fact = rows[m].fact
        /\ "active" \notin fields => write[m].active = rows[m].active
    <3>1. CASE fields = {"plan"} /\ \E at : Moves(write, at)
      BY <1>3, <3>1, MovesPlans DEF AloneInv
    <3>2. CASE Edits(write, fields)
      BY <1>1, <1>3, <3>2 DEF Edits, Row, Restated
    <3> QED BY <3>1, <3>2
  <2> QED BY <2>1, <2>2
<1> QED BY <1>2, <1>3

(* A new row is told as it is created.                                     *)
LEMMA ToldAsCreated ==
  ASSUME AloneInv, alone, NEW planned, Insert(planned), NEW m \in DOMAIN rows'
  PROVE  told'[m] = [plan |-> rows'[m].plan, fact |-> rows'[m].fact,
                     active |-> rows'[m].active]
<1>1. PICK id \in [DOMAIN planned -> Milestones \ DOMAIN rows] :
        LET new == {id[t] : t \in DOMAIN planned}
            typeOf(n) == CHOOSE t \in DOMAIN planned : id[t] = n
        IN  /\ rows' = [n \in DOMAIN rows \cup new |->
                          IF n \in new THEN NewRow(typeOf(n), planned[typeOf(n)])
                                       ELSE rows[n]]
            /\ told' = [n \in DOMAIN rows \cup new |->
                          IF n \in new
                          THEN [plan |-> planned[typeOf(n)], fact |-> NoDay, active |-> TRUE]
                          ELSE told[n]]
  BY DEF Insert
<1> DEFINE new == {id[t] : t \in DOMAIN planned}
           day == planned[CHOOSE t \in DOMAIN planned : id[t] = m]
           type == CHOOSE t \in DOMAIN planned : id[t] = m
<1>2. CASE m \in new
  <2>1. /\ rows'[m] = NewRow(type, day)
        /\ told'[m] = [plan |-> day, fact |-> NoDay, active |-> TRUE]
    BY <1>1, <1>2
  <2> QED BY <2>1 DEF NewRow
<1>3. CASE m \notin new
  <2>1. m \in DOMAIN rows /\ rows'[m] = rows[m] /\ told'[m] = told[m]
    BY <1>1, <1>3
  <2> QED BY <2>1 DEF AloneInv, TrailTellsAlone
<1> QED BY <1>2, <1>3

(* The steps of the calendar that write a row: what the one request that   *)
(* is open leaves behind is told, and it holds nothing old.                *)
LEMMA WritesAlone ==
  ASSUME AloneInv, IInv', NEW c \in Clients,
         CreateMissing(c) \/ InsertOne(c) \/ CommitMove(c) \/ CommitEdit(c)
  PROVE  AloneInv'
<1>1. ~At(c, "idle") /\ alone' = alone
  BY DEF CreateMissing, InsertOne, CommitMove, CommitEdit, At
<1>2. PICK next : /\ Goto(c, next)
                  /\ next.step \in {"idle", "edit"}
                  /\ next.step = "idle" => next.answer \in Answers
                  /\ alone /\ next.step = "idle" => next.answer # "conflict"
  <2>1. CASE CreateMissing(c)
    BY <2>1
    DEF CreateMissing, Answer, Insertable, AloneInv, HeldFresh, FreshRequest, At, Answers
  <2>2. CASE InsertOne(c)
    BY <2>2 DEF InsertOne, Answer, Answers
  <2>3. CASE CommitMove(c) \/ CommitEdit(c)
    BY <2>3 DEF CommitMove, CommitEdit, Answer, Answers
  <2> QED BY <2>1, <2>2, <2>3
<1>3. /\ req'[c] = next
      /\ \A d \in Clients \ {c} : req'[d] = req[d]
  BY <1>2 DEF AloneInv, IInv, TypeOK, Goto
<1>4. alone => FreshRequest(req[c])'
  BY <1>2, <1>3 DEF FreshRequest
<1>5. ASSUME alone, NEW m \in DOMAIN rows'
      PROVE  told'[m] = [plan |-> rows'[m].plan, fact |-> rows'[m].fact,
                         active |-> rows'[m].active]
  <2>1. CASE UNCHANGED <<rows, told>>
    BY <1>5, <2>1 DEF AloneInv, TrailTellsAlone
  <2>2. CASE Insert(req[c].planned)
    BY <1>5, <2>2, ToldAsCreated
  <2>3. CASE CommitMove(c)
    <3>1. Moves(req[c].write, req[c].at) /\ RowsOK(req[c].write)
      BY <1>5, <2>3
      DEF CommitMove, AloneInv, HeldFresh, FreshRequest, At, IInv, TypeOK, RequestOK
    <3> QED BY <1>5, <2>3, <3>1, ToldAsWritten DEF CommitMove
  <2>4. CASE CommitEdit(c)
    <3>1. Edits(req[c].write, req[c].fields) /\ RowsOK(req[c].write)
      BY <1>5, <2>4
      DEF CommitEdit, AloneInv, HeldFresh, FreshRequest, At, IInv, TypeOK, RequestOK
    <3> QED BY <1>5, <2>4, <3>1, ToldAsWritten DEF CommitEdit
  <2> QED BY <2>1, <2>2, <2>3, <2>4 DEF CreateMissing, InsertOne
<1> QED BY <1>1, <1>3, <1>4, <1>5, OpenStep

(* The steps that read and decide hold what the table holds.               *)
LEMMA DecidesAlone ==
  ASSUME AloneInv, IInv', NEW c \in Clients,
         \/ HoldMissing(c) \/ HoldType(c) \/ FindMoved(c) \/ HoldCalendar(c)
         \/ ReadEdited(c) \/ Fail(c)
  PROVE  AloneInv'
<1>1. /\ ~At(c, "idle")
      /\ UNCHANGED <<rows, told, today, asked, alone>>
  BY DEF HoldMissing, HoldType, FindMoved, HoldCalendar, ReadEdited, Fail, At
<1>2. ASSUME NEW answer \in Answers \ {"conflict"}, Answer(c, answer) PROVE AloneInv'
  <2> DEFINE next == [step |-> "idle", answer |-> answer]
  <2>1. FreshRequest(next) /\ Goto(c, next)
    BY <1>2 DEF FreshRequest, Answer
  <2> HIDE DEF next
  <2> QED BY <1>1, <2>1, ReadsOnly
<1>3. CASE HoldMissing(c)
  <2> DEFINE missing == Missing(req[c].planned, rows)
             next    == [step |-> "create", planned |-> missing]
  <2>1. DOMAIN missing \cap TypesOf(rows) = {}
    BY DEF Missing
  <2>2. FreshRequest(next)
    BY <2>1 DEF FreshRequest
  <2> HIDE DEF next
  <2> QED BY <1>1, <1>2, <1>3, <2>2, ReadsOnly DEF HoldMissing, next, Answers
<1>4. CASE HoldType(c)
  <2> DEFINE next == [step |-> "insert", planned |-> req[c].planned]
  <2>1. FreshRequest(next)
    BY DEF FreshRequest
  <2> HIDE DEF next
  <2> QED BY <1>1, <1>2, <1>4, <2>1, ReadsOnly DEF HoldType, next, Answers
<1>5. CASE FindMoved(c)
  <2> DEFINE next == [step |-> "hold", at |-> req[c].at, moved |-> rows[req[c].at]]
  <2>1. FreshRequest(next)
    BY DEF FreshRequest
  <2> HIDE DEF next
  <2> QED BY <1>1, <1>2, <1>5, <2>1, ReadsOnly DEF FindMoved, next, Answers
<1>6. CASE HoldCalendar(c)
  <2> DEFINE at == req[c].at
             from(m, moved) == IF m = at THEN moved ELSE rows[m]
  <2>1. PICK plan \in Days, shift \in BOOLEAN :
          LET moves == Cascade(rows, at, req[c].moved, plan)
              kept  == IF shift THEN DOMAIN moves ELSE DOMAIN moves \cap {at}
              write == [m \in kept |->
                          [(IF m = at THEN req[c].moved ELSE rows[m]) EXCEPT !.plan = moves[m]]]
          IN  Goto(c, [step |-> "move", at |-> at, write |-> write])
    BY <1>6 DEF HoldCalendar
  <2> DEFINE moves == Cascade(rows, at, req[c].moved, plan)
             kept  == IF shift THEN DOMAIN moves ELSE DOMAIN moves \cap {at}
             write == [m \in kept |->
                         [(IF m = at THEN req[c].moved ELSE rows[m]) EXCEPT !.plan = moves[m]]]
             next  == [step |-> "move", at |-> at, write |-> write]
  <2>2. at \in DOMAIN rows
    BY <1>6 DEF HoldCalendar, At, AloneInv, IInv, HeldStands, HoldsStanding, StandsFor
  <2>3. alone => req[c].moved = rows[at]
    BY <1>6 DEF HoldCalendar, At, AloneInv, HeldFresh, FreshRequest
  <2>4. alone => Moves(write, at)
    BY <2>2, <2>3, Decides DEF AloneInv
  <2> HIDE DEF write
  <2>5. alone => FreshRequest(next)
    BY <2>4 DEF FreshRequest
  <2>6. Goto(c, next)
    BY <2>1 DEF write
  <2> HIDE DEF next
  <2> QED BY <1>1, <2>5, <2>6, ReadsOnly
<1>7. CASE ReadEdited(c)
  <2> DEFINE m == req[c].at
  <2>1. PICK fact \in Facts, active \in BOOLEAN, noted \in BOOLEAN :
          LET new    == [rows[m] EXCEPT !.fact = fact, !.active = active]
              fields == {f \in {"fact", "active"} : new[f] # rows[m][f]}
          IN  \/ Answer(c, "refused") \/ Answer(c, "missing") \/ Answer(c, "saved")
              \/ /\ m \in DOMAIN rows
                 /\ Goto(c, [step |-> "write", write |-> [n \in {m} |-> new],
                             fields |-> fields])
    BY <1>7 DEF ReadEdited
  <2> DEFINE new    == [rows[m] EXCEPT !.fact = fact, !.active = active]
             fields == {f \in {"fact", "active"} : new[f] # rows[m][f]}
             write  == [n \in {m} |-> new]
             next   == [step |-> "write", write |-> write, fields |-> fields]
  <2>2. CASE m \in DOMAIN rows /\ Goto(c, next)
    <3>1. rows[m] \in Row
      BY <2>2 DEF AloneInv, IInv, TypeOK, RowsOK
    <3>2. new.fact = fact /\ new.active = active
      BY <3>1 DEF Row
    <3>3. /\ "plan" \notin fields
          /\ "fact" \notin fields => fact = rows[m].fact
          /\ "active" \notin fields => active = rows[m].active
      BY <3>2
    <3>4. DOMAIN write = {m} /\ write[m] = new
      OBVIOUS
    <3>5. Edits(write, fields)
      BY <2>2, <3>3, <3>4 DEF Edits, Restated
    <3> HIDE DEF write, fields
    <3>6. FreshRequest(next)
      BY <3>5 DEF FreshRequest
    <3>7. Goto(c, next)
      BY <2>2
    <3> HIDE DEF next
    <3> QED BY <1>1, <3>6, <3>7, ReadsOnly
  <2> QED BY <1>2, <2>1, <2>2 DEF Answers
<1> QED BY <1>2, <1>3, <1>4, <1>5, <1>6, <1>7 DEF Fail, Answers

(* Every step preserves what holds of requests that come one at a time.    *)
LEMMA AloneInductive == AloneInv /\ [Next]_vars => AloneInv'
<1> SUFFICES ASSUME AloneInv, [Next]_vars PROVE AloneInv'
  OBVIOUS
<1>1. IInv'
  BY Inductive DEF AloneInv
<1>2. ASSUME UNCHANGED <<rows, told, req, alone>> PROVE AloneInv'
  <2>1. OneOpen' /\ TrailTellsAlone'
    BY <1>2 DEF AloneInv, OneOpen, At, TrailTellsAlone
  <2>2. ASSUME alone, NEW c \in Clients PROVE FreshRequest(req[c])'
    <3>1. FreshRequest(req[c]) /\ req'[c] = req[c] /\ rows' = rows
      BY <1>2, <2>2 DEF AloneInv, HeldFresh
    <3>2. req[c].step = "move" => Moves(req[c].write, req[c].at)'
      BY <3>1, <1>2 DEF FreshRequest, Moves, Carried
    <3>3. req[c].step = "write" => Edits(req[c].write, req[c].fields)'
      BY <3>1, <1>2 DEF FreshRequest, Edits
    <3> QED BY <1>2, <3>1, <3>2, <3>3 DEF FreshRequest, TypesOf
  <2>3. HeldFresh'
    BY <1>2, <2>2 DEF HeldFresh
  <2> QED BY <1>1, <2>1, <2>3 DEF AloneInv
<1>3. CASE NextDay \/ UNCHANGED vars
  BY <1>2, <1>3 DEF NextDay, vars
<1>4. ASSUME NEW c \in Clients, Step(c) PROVE AloneInv'
  <2> DEFINE refused == [step |-> "idle", answer |-> "refused"]
  <2>1. CASE ApplyTemplate(c)
    <3>1. CASE \E path \in Paths, target \in Targets :
                 Begin(c, [step |-> "apply", planned |-> Apply(path, target)])
      BY <1>1, <3>1, BegunAlone
    <3>2. CASE Begin(c, refused)
      BY <1>1, <3>2, BegunAlone
    <3> QED BY <2>1, <3>1, <3>2 DEF ApplyTemplate
  <2>2. CASE AddMilestone(c)
    <3>1. CASE \E t \in Types, day \in Days :
                 Begin(c, [step |-> "add", planned |-> [s \in {t} |-> day]])
      BY <1>1, <3>1, BegunAlone
    <3>2. CASE Begin(c, refused)
      BY <1>1, <3>2, BegunAlone
    <3> QED BY <2>2, <3>1, <3>2 DEF AddMilestone
  <2>3. CASE SaveMilestone(c)
    <3>1. PICK m \in Milestones, step \in {"find", "edit"} :
            Begin(c, [step |-> step, at |-> m])
      BY <2>3 DEF SaveMilestone
    <3> QED BY <1>1, <3>1, BegunAlone
  <2> QED BY <1>1, <1>4, <2>1, <2>2, <2>3, DecidesAlone, WritesAlone DEF Step
<1> QED BY <1>3, <1>4 DEF Next

(* A model with no calendar and no request open.                           *)
LEMMA InitiallyAlone == Init => AloneInv
<1> SUFFICES ASSUME Init PROVE AloneInv
  OBVIOUS
<1>1. OneOpen
  BY DEF Init, OneOpen, At
<1>2. TrailTellsAlone
  BY DEF Init, TrailTellsAlone
<1>3. HeldFresh
  BY DEF Init, HeldFresh, FreshRequest
<1> QED BY <1>1, <1>2, <1>3, Initially DEF AloneInv

(* As long as no two requests of calendar.go were open at a time, whatever *)
(* the open one has read still stands in the tables when it writes.        *)
THEOREM AloneInvariance == Spec => []AloneInv
<1> QED BY InitiallyAlone, AloneInductive, PTL DEF Spec

(* The audit trail and the row agree on plan, fact and flag after every    *)
(* commit of ApplyTemplate, AddMilestone, MovePlan and UpdateMilestone,    *)
(* and after a save that stopped between its two transactions.             *)
THEOREM TrailAgreesAlone == Spec => []TrailTellsAlone
<1>1. AloneInv => TrailTellsAlone
  BY DEF AloneInv
<1> QED BY <1>1, AloneInvariance, PTL

(* An apply that nobody raced never runs into the unique index: the steps  *)
(* ApplyTemplate found missing are missing still when it inserts them.     *)
THEOREM ApplyFits == Spec => []ApplyFitsAlone
<1>1. AloneInv => ApplyFitsAlone
  BY DEF AloneInv, HeldFresh, FreshRequest, ApplyFitsAlone, At
<1> QED BY <1>1, AloneInvariance, PTL

(* Done work does not move while requests come one at a time: MovePlan     *)
(* changes the plan date of a row with a fact only where the user typed    *)
(* into that very row, as Cascade leaves done rows where they are.         *)
THEOREM DoneStaysPut == Spec => DoneStaysAlone
<1> DEFINE Stays == \A m \in DOMAIN rows :
                      Done(rows[m]) /\ rows'[m].plan # rows[m].plan
                        => \E c \in Clients : At(c, "move") /\ req[c].at = m
<1>1. AloneInv /\ [Next]_vars => [alone' => Stays]_vars
  <2> SUFFICES ASSUME AloneInv, Next, alone', NEW m \in DOMAIN rows,
                      Done(rows[m]), rows'[m].plan # rows[m].plan
               PROVE  \E c \in Clients : At(c, "move") /\ req[c].at = m
    OBVIOUS
  <2>1. ASSUME NEW c \in Clients, CommitMove(c) PROVE At(c, "move") /\ req[c].at = m
    <3>1. Moves(req[c].write, req[c].at) /\ m \in DOMAIN req[c].write
      BY <2>1 DEF CommitMove, WriteBack, AloneInv, HeldFresh, FreshRequest, At
    <3>2. m \notin Carried(rows, req[c].at, rows[req[c].at].plan)
      BY DEF Carried, Follows
    <3> QED BY <2>1, <3>1, <3>2 DEF CommitMove, Moves
  <2>2. ASSUME NEW c \in Clients, CommitEdit(c) PROVE FALSE
    <3>1. Edits(req[c].write, req[c].fields) /\ m \in DOMAIN req[c].write
      BY <2>2 DEF CommitEdit, WriteBack, AloneInv, HeldFresh, FreshRequest, At
    <3>2. rows[m] \in Row
      BY DEF AloneInv, IInv, TypeOK, RowsOK
    <3>3. PICK fact \in Facts, active \in BOOLEAN, noted \in BOOLEAN :
            req[c].write[m] = Restated(rows[m], fact, active)
      BY <3>1 DEF Edits
    <3>4. req[c].write[m].plan = rows[m].plan
      BY <3>2, <3>3 DEF Row, Restated
    <3>5. rows'[m] = req[c].write[m]
      BY <2>2, <3>1 DEF CommitEdit, WriteBack
    <3> QED BY <3>4, <3>5
  <2>3. ASSUME NEW planned, Insert(planned) PROVE FALSE
    BY <2>3 DEF Insert, AloneInv
  <2> QED
    BY <2>1, <2>2, <2>3
    DEF Next, NextDay, Step, ApplyTemplate, Begin, HoldMissing, CreateMissing,
        AddMilestone, HoldType, InsertOne, SaveMilestone, FindMoved, HoldCalendar,
        ReadEdited, Fail
<1> QED BY <1>1, AloneInvariance, PTL DEF Spec, DoneStaysAlone

-----------------------------------------------------------------------------
(* The book.  A row is the step of its type, as no other row has the type. *)

StepOf(row) == [baseline |-> row.baseline, plan |-> row.plan,
                fact |-> row.fact, active |-> row.active]

(* What the book keeps of a row is read off the row.                       *)
LEMMA StepFields ==
  ASSUME NEW row
  PROVE  /\ StepOf(row).plan = row.plan /\ StepOf(row).fact = row.fact
         /\ StepOf(row).active = row.active
         /\ StepOf(row) = [StepOf(row) EXCEPT !.plan = StepOf(row).plan]
<1> QED BY DEF StepOf

(* A row with another plan date is its step with that date, of the same    *)
(* type.                                                                   *)
LEMMA StepMoved ==
  ASSUME NEW row \in Row, NEW day
  PROVE  /\ Replanned(row, day).type = row.type
         /\ StepOf(Replanned(row, day)) = [StepOf(row) EXCEPT !.plan = day]
<1> QED BY DEF Row, StepOf, Replanned

(* A row with another fact and flag is its step with those, of the same    *)
(* type.                                                                   *)
LEMMA StepEdited ==
  ASSUME NEW row \in Row, NEW fact \in Facts, NEW active
  PROVE  /\ Restated(row, fact, active).type = row.type
         /\ StepOf(Restated(row, fact, active)) =
              [baseline |-> row.baseline, plan |-> row.plan,
               fact |-> fact, active |-> active]
<1> DEFINE edited == [row EXCEPT !.fact = fact, !.active = active]
<1>1. /\ edited.type = row.type /\ edited.baseline = row.baseline
      /\ edited.plan = row.plan /\ edited.fact = fact /\ edited.active = active
  BY DEF Row
<1> HIDE DEF edited
<1>2. StepOf(edited) = [baseline |-> row.baseline, plan |-> row.plan,
                        fact |-> fact, active |-> active]
  BY <1>1 DEF StepOf
<1> QED BY <1>1, <1>2 DEF edited, Restated

(* With one row of a type, the book holds that row under the type.         *)
LEMMA BookRow ==
  ASSUME NEW held, \A m, n \in DOMAIN held : held[m].type = held[n].type => m = n,
         NEW m \in DOMAIN held
  PROVE  /\ held[m].type \in DOMAIN BookOf(held)
         /\ BookOf(held)[held[m].type] = StepOf(held[m])
<1> DEFINE type == held[m].type
<1>1. type \in TypesOf(held)
  BY DEF TypesOf
<1>2. (CHOOSE n \in DOMAIN held : held[n].type = type) = m
  OBVIOUS
<1> QED BY <1>1, <1>2 DEF BookOf, StepOf

(* The book holds the types of the rows.                                   *)
LEMMA BookTypes == ASSUME NEW held PROVE DOMAIN BookOf(held) = TypesOf(held)
<1> QED BY DEF BookOf

(* A book with the steps of the rows is their book.                        *)
LEMMA IsBook ==
  ASSUME NEW held, \A m, n \in DOMAIN held : held[m].type = held[n].type => m = n,
         NEW book, book = [t \in DOMAIN book |-> book[t]],
         DOMAIN book = TypesOf(held),
         \A m \in DOMAIN held : book[held[m].type] = StepOf(held[m])
  PROVE  BookOf(held) = book
<1>1. ASSUME NEW t \in TypesOf(held) PROVE BookOf(held)[t] = book[t]
  <2>1. PICK m \in DOMAIN held : held[m].type = t
    BY DEF TypesOf
  <2> QED BY <2>1, BookRow
<1>2. BookOf(held) = [t \in TypesOf(held) |-> BookOf(held)[t]]
  BY DEF BookOf
<1> QED BY <1>1, <1>2

(* An insert of steps the model lacks is a promise of the book.            *)
LEMMA InsertPromises ==
  ASSUME IInv, IInv', NEW planned,
         DOMAIN planned \subseteq Types, \A t \in DOMAIN planned : planned[t] \in Days,
         Insertable(planned), Insert(planned), today' = today
  PROVE  Book!Promise
<1> DEFINE S == DOMAIN planned
           day == [t \in S |-> planned[t]]
           book == [t \in DOMAIN BookOf(rows) \cup S |->
                      IF t \in S THEN [baseline |-> day[t], plan |-> day[t],
                                       fact |-> NoDay, active |-> TRUE]
                                 ELSE BookOf(rows)[t]]
<1>1. PICK id \in [S -> Milestones \ DOMAIN rows] :
        LET new == {id[t] : t \in S}
            typeOf(n) == CHOOSE t \in S : id[t] = n
        IN  /\ \A s, t \in S : id[s] = id[t] => s = t
            /\ rows' = [n \in DOMAIN rows \cup new |->
                          IF n \in new THEN NewRow(typeOf(n), planned[typeOf(n)])
                                       ELSE rows[n]]
  BY DEF Insert
<1> DEFINE new == {id[t] : t \in S}
           typeOf(n) == CHOOSE t \in S : id[t] = n
<1>2. /\ \A n \in new : typeOf(n) \in S /\ id[typeOf(n)] = n
      /\ new \cap DOMAIN rows = {}
      /\ DOMAIN rows' = DOMAIN rows \cup new
      /\ \A n \in DOMAIN rows : rows'[n] = rows[n]
      /\ \A n \in new : rows'[n] = NewRow(typeOf(n), planned[typeOf(n)])
  BY <1>1
<1>3. \A t \in S : \E n \in new : rows'[n].type = t
  <2> SUFFICES ASSUME NEW t \in S PROVE \E n \in new : rows'[n].type = t
    OBVIOUS
  <2>1. id[t] \in new
    OBVIOUS
  <2>2. typeOf(id[t]) = t
    BY <1>1
  <2> HIDE DEF new, typeOf
  <2>3. rows'[id[t]] = NewRow(t, planned[t])
    BY <1>2, <2>1, <2>2
  <2> QED BY <2>1, <2>3 DEF NewRow
<1> HIDE DEF new, typeOf
<1>4. DOMAIN BookOf(rows) = TypesOf(rows) /\ S \cap TypesOf(rows) = {}
  BY BookTypes DEF Insertable
<1>5. DOMAIN book = TypesOf(rows')
  <2>1. ASSUME NEW t \in DOMAIN book PROVE t \in TypesOf(rows')
    BY <1>2, <1>3, <1>4, <2>1 DEF TypesOf
  <2>2. ASSUME NEW n \in DOMAIN rows' PROVE rows'[n].type \in DOMAIN book
    BY <1>2, <1>4, <2>2 DEF TypesOf, NewRow
  <2> QED BY <2>1, <2>2 DEF TypesOf
<1>6. \A n \in DOMAIN rows' : book[rows'[n].type] = StepOf(rows'[n])
  <2> SUFFICES ASSUME NEW n \in DOMAIN rows' PROVE book[rows'[n].type] = StepOf(rows'[n])
    OBVIOUS
  <2>1. CASE n \in new
    <3>1. rows'[n] = NewRow(typeOf(n), planned[typeOf(n)]) /\ typeOf(n) \in S
      BY <1>2, <2>1
    <3> QED BY <3>1 DEF NewRow, StepOf
  <2>2. CASE n \in DOMAIN rows
    <3>1. rows'[n] = rows[n] /\ rows[n].type \in TypesOf(rows)
      BY <1>2, <2>2 DEF TypesOf
    <3>2. BookOf(rows)[rows[n].type] = StepOf(rows[n])
      BY <2>2, BookRow DEF IInv, TypeOnce
    <3> QED BY <1>4, <3>1, <3>2
  <2> QED BY <1>2, <2>1, <2>2
<1>7. BookOf(rows') = book
  <2>1. \A m, n \in DOMAIN rows' : rows'[m].type = rows'[n].type => m = n
    BY DEF IInv, TypeOnce
  <2>2. book = [t \in DOMAIN book |-> book[t]]
    OBVIOUS
  <2> HIDE DEF book
  <2> QED BY <1>5, <1>6, <2>1, <2>2, IsBook
<1>8. S \in SUBSET (Types \ DOMAIN BookOf(rows)) /\ day \in [S -> Days]
  BY <1>4
<1>9. BookOf(rows)' = book
  BY <1>7 DEF BookOf, TypesOf
<1> HIDE DEF day
<1> QED BY <1>8, <1>9 DEF Book!Promise

(* A commit that writes rows of the table rewrites their steps.            *)
LEMMA WriteRewrites ==
  ASSUME IInv, IInv', NEW write, WriteBack(write),
         \A m \in DOMAIN write : m \in DOMAIN rows /\ write[m].type = rows[m].type
  PROVE  /\ BookOf(rows)' = [t \in DOMAIN BookOf(rows) |-> BookOf(rows)'[t]]
         /\ \A m \in DOMAIN rows :
              /\ rows[m].type \in DOMAIN BookOf(rows)
              /\ BookOf(rows)[rows[m].type] = StepOf(rows[m])
              /\ BookOf(rows)'[rows[m].type] =
                   IF m \in DOMAIN write THEN StepOf(write[m]) ELSE StepOf(rows[m])
         /\ \A t \in DOMAIN BookOf(rows) : \E m \in DOMAIN rows : rows[m].type = t
<1>1. /\ DOMAIN rows' = DOMAIN rows
      /\ \A m \in DOMAIN rows : /\ rows'[m] = IF m \in DOMAIN write THEN write[m] ELSE rows[m]
                                /\ rows'[m].type = rows[m].type
  BY DEF WriteBack
<1>2. TypesOf(rows') = TypesOf(rows)
  BY <1>1 DEF TypesOf
<1>3. BookOf(rows)' = BookOf(rows')
  BY DEF BookOf, TypesOf
<1>4. \A m, n \in DOMAIN rows' : rows'[m].type = rows'[n].type => m = n
  BY DEF IInv, TypeOnce
<1>5. \A m \in DOMAIN rows : /\ rows[m].type \in DOMAIN BookOf(rows)
                             /\ BookOf(rows)[rows[m].type] = StepOf(rows[m])
  BY BookRow DEF IInv, TypeOnce
<1>6. \A m \in DOMAIN rows' : BookOf(rows')[rows'[m].type] = StepOf(rows'[m])
  BY <1>4, BookRow
<1>7. BookOf(rows') = [t \in TypesOf(rows') |-> BookOf(rows')[t]]
  BY DEF BookOf
<1>8. \A t \in TypesOf(rows) : \E m \in DOMAIN rows : rows[m].type = t
  BY DEF TypesOf
<1> QED BY <1>1, <1>2, <1>3, <1>5, <1>6, <1>7, <1>8, BookTypes

(* A move of one row is a move of one step of the book.                    *)
LEMMA MoveIsAlone ==
  ASSUME IInv, IInv', NEW at \in DOMAIN rows, NEW write, WriteBack(write),
         NEW day \in Days, DOMAIN write = {at},
         write[at] = Replanned(rows[at], day), today' = today
  PROVE  Book!MoveAlone
<1> DEFINE t == rows[at].type
           book == BookOf(rows)
<1>1. rows[at] \in Row
  BY DEF IInv, TypeOK, RowsOK
<1>2. write[at].type = t /\ StepOf(write[at]) = [StepOf(rows[at]) EXCEPT !.plan = day]
  BY <1>1, StepMoved
<1>3. /\ BookOf(rows)' = [s \in DOMAIN book |-> BookOf(rows)'[s]]
      /\ t \in DOMAIN book /\ book[t] = StepOf(rows[at])
      /\ BookOf(rows)'[t] = StepOf(write[at])
      /\ \A s \in DOMAIN book : s # t => BookOf(rows)'[s] = book[s]
  <2>1. \A m \in DOMAIN write : m \in DOMAIN rows /\ write[m].type = rows[m].type
    BY <1>2
  <2>2. /\ BookOf(rows)' = [s \in DOMAIN book |-> BookOf(rows)'[s]]
        /\ \A m \in DOMAIN rows :
             /\ rows[m].type \in DOMAIN book
             /\ book[rows[m].type] = StepOf(rows[m])
             /\ BookOf(rows)'[rows[m].type] =
                  IF m \in DOMAIN write THEN StepOf(write[m]) ELSE StepOf(rows[m])
        /\ \A s \in DOMAIN book : \E m \in DOMAIN rows : rows[m].type = s
    BY <2>1, WriteRewrites
  <2> HIDE DEF book
  <2>3. \A s \in DOMAIN book : s # t => BookOf(rows)'[s] = book[s]
    BY <2>2
  <2> QED BY <2>2, <2>3
<1>4. book = [s \in DOMAIN book |-> book[s]]
  BY DEF BookOf
<1> HIDE DEF book, t
<1>5. BookOf(rows)' = [book EXCEPT ![t].plan = day]
  <2>1. [book EXCEPT ![t].plan = day]
          = [s \in DOMAIN book |-> IF s = t THEN [book[t] EXCEPT !.plan = day] ELSE book[s]]
    BY <1>3, <1>4
  <2> QED BY <1>2, <1>3, <2>1
<1> QED BY <1>3, <1>5 DEF Book!MoveAlone, book

(* A shift of a row and of those it carries is a shift of the book.        *)
LEMMA ShiftShifts ==
  ASSUME IInv, IInv', NEW at \in DOMAIN rows, NEW write, WriteBack(write),
         NEW day \in Days, day - rows[at].plan > 0,
         DOMAIN write = {at} \cup Carried(rows, at, rows[at].plan),
         \A m \in DOMAIN write :
           write[m] = Replanned(rows[m], rows[m].plan + (day - rows[at].plan)),
         today' = today
  PROVE  Book!Shift
<1> DEFINE t    == rows[at].type
           book == BookOf(rows)
           days == day - book[t].plan
           goes == {t} \cup {s \in DOMAIN book : /\ Book!Open(book[s])
                                                 /\ book[s].plan > book[t].plan}
<1>0. t \in DOMAIN book /\ book[t].plan = rows[at].plan
  BY BookRow, StepFields DEF IInv, TypeOnce
<1>1. \A m \in DOMAIN write : /\ m \in DOMAIN rows
                              /\ rows[m] \in Row
                              /\ write[m] = Replanned(rows[m], rows[m].plan + days)
  BY <1>0 DEF IInv, TypeOK, RowsOK, Carried
<1>2. \A m \in DOMAIN write :
        /\ write[m].type = rows[m].type
        /\ StepOf(write[m]) = [StepOf(rows[m]) EXCEPT !.plan = rows[m].plan + days]
  <2> SUFFICES ASSUME NEW m \in DOMAIN write
               PROVE  /\ write[m].type = rows[m].type
                      /\ StepOf(write[m]) = [StepOf(rows[m]) EXCEPT !.plan = rows[m].plan + days]
    OBVIOUS
  <2> HIDE DEF days
  <2>1. rows[m] \in Row /\ write[m] = Replanned(rows[m], rows[m].plan + days)
    BY <1>1
  <2> QED BY <2>1, StepMoved
<1>3. /\ BookOf(rows)' = [s \in DOMAIN book |-> BookOf(rows)'[s]]
      /\ \A m \in DOMAIN rows :
           /\ rows[m].type \in DOMAIN book
           /\ book[rows[m].type] = StepOf(rows[m])
           /\ BookOf(rows)'[rows[m].type] =
                IF m \in DOMAIN write THEN StepOf(write[m]) ELSE StepOf(rows[m])
      /\ \A s \in DOMAIN book : \E m \in DOMAIN rows : rows[m].type = s
  BY <1>1, <1>2, WriteRewrites
<1> HIDE DEF book, days
<1>4. \A m \in DOMAIN rows : m \in DOMAIN write <=> rows[m].type \in goes
  <2> SUFFICES ASSUME NEW m \in DOMAIN rows
               PROVE  m \in DOMAIN write <=> rows[m].type \in goes
    OBVIOUS
  <2>1. m = at <=> rows[m].type = t
    BY DEF IInv, TypeOnce
  <2>2. Follows(rows[m], rows[at].plan)
          <=> Book!Open(book[rows[m].type]) /\ book[rows[m].type].plan > book[t].plan
    <3>1. /\ book[t].plan = rows[at].plan
          /\ book[rows[m].type].plan = rows[m].plan
          /\ book[rows[m].type].fact = rows[m].fact
          /\ book[rows[m].type].active = rows[m].active
      BY <1>3, StepFields
    <3> HIDE DEF t
    <3> QED BY <3>1 DEF Follows, Done, Book!Open
  <2> QED BY <1>3, <2>1, <2>2 DEF Carried
<1>5. ASSUME NEW s \in DOMAIN book
      PROVE  BookOf(rows)'[s] =
               [book[s] EXCEPT !.plan = IF s \in goes THEN @ + days ELSE @]
  <2>1. PICK m \in DOMAIN rows : rows[m].type = s
    BY <1>3
  <2>2. book[s] = StepOf(rows[m]) /\ book[s].plan = rows[m].plan
    BY <1>3, <2>1, StepFields
  <2> HIDE DEF goes
  <2>3. CASE m \in DOMAIN write
    <3>1. s \in goes
      BY <1>4, <2>1, <2>3
    <3>2. BookOf(rows)'[s] = StepOf(write[m])
      BY <1>3, <2>1, <2>3
    <3>3. StepOf(write[m]) = [book[s] EXCEPT !.plan = book[s].plan + days]
      BY <1>2, <2>2, <2>3
    <3> QED BY <3>1, <3>2, <3>3
  <2>4. CASE m \notin DOMAIN write
    <3>1. BookOf(rows)'[s] = book[s] /\ s \notin goes
      BY <1>3, <1>4, <2>1, <2>2, <2>4
    <3>2. book[s] = [book[s] EXCEPT !.plan = book[s].plan]
      BY <2>2, StepFields
    <3> QED BY <3>1, <3>2
  <2> QED BY <2>3, <2>4
<1>6. BookOf(rows)' = Book!Later(t, days)
  <2>1. BookOf(rows)' = [s \in DOMAIN book |->
                           [book[s] EXCEPT !.plan = IF s \in goes THEN @ + days ELSE @]]
    BY <1>3, <1>5
  <2> QED BY <2>1 DEF Book!Later, book
<1>7. t \in DOMAIN book /\ day > book[t].plan /\ UNCHANGED today
  <2>1. rows[at].plan \in Int /\ day \in Int
    BY CalendarAssumption DEF IInv, TypeOK, RowsOK, Row, Days
  <2> QED BY <1>0, <2>1 DEF days
<1> HIDE DEF t
<1> QED BY <1>6, <1>7 DEF Book!Shift, book, days

(* The edit of a row is an edit of its step in the book.                   *)
LEMMA EditIsEdit ==
  ASSUME IInv, IInv', NEW m \in DOMAIN rows, NEW write, WriteBack(write),
         NEW fact \in {d \in Days : d <= today} \cup {NoDay}, NEW active \in BOOLEAN,
         DOMAIN write = {m},
         write[m] = Restated(rows[m], fact, active), today' = today
  PROVE  Book!Edit
<1> DEFINE t == rows[m].type
           book == BookOf(rows)
<1>1. rows[m] \in Row
  BY DEF IInv, TypeOK, RowsOK
<1> DEFINE edited == [baseline |-> rows[m].baseline, plan |-> rows[m].plan,
                      fact |-> fact, active |-> active]
<1>2. write[m].type = t /\ StepOf(write[m]) = edited
  BY <1>1, StepEdited DEF Facts
<1>3. /\ BookOf(rows)' = [s \in DOMAIN book |-> BookOf(rows)'[s]]
      /\ t \in DOMAIN book /\ book[t] = StepOf(rows[m])
      /\ BookOf(rows)'[t] = StepOf(write[m])
      /\ \A s \in DOMAIN book : s # t => BookOf(rows)'[s] = book[s]
  <2>1. \A n \in DOMAIN write : n \in DOMAIN rows /\ write[n].type = rows[n].type
    BY <1>2
  <2>2. /\ BookOf(rows)' = [s \in DOMAIN book |-> BookOf(rows)'[s]]
        /\ \A n \in DOMAIN rows :
             /\ rows[n].type \in DOMAIN book
             /\ book[rows[n].type] = StepOf(rows[n])
             /\ BookOf(rows)'[rows[n].type] =
                  IF n \in DOMAIN write THEN StepOf(write[n]) ELSE StepOf(rows[n])
        /\ \A s \in DOMAIN book : \E n \in DOMAIN rows : rows[n].type = s
    BY <2>1, WriteRewrites
  <2> HIDE DEF book
  <2>3. \A s \in DOMAIN book : s # t => BookOf(rows)'[s] = book[s]
    BY <2>2
  <2> QED BY <2>2, <2>3
<1>4. book = [s \in DOMAIN book |-> book[s]]
  BY DEF BookOf
<1> HIDE DEF book, t
<1> DEFINE stamped == [book EXCEPT ![t].fact = fact]
           later   == [book EXCEPT ![t].fact = fact, ![t].active = active]
           first   == [baseline |-> rows[m].baseline, plan |-> rows[m].plan,
                       fact |-> fact, active |-> rows[m].active]
<1>5. later = [s \in DOMAIN book |-> IF s = t THEN edited ELSE book[s]]
  <2>1. [StepOf(rows[m]) EXCEPT !.fact = fact] = first
    BY DEF StepOf
  <2>2. stamped = [s \in DOMAIN book |-> IF s = t THEN first ELSE book[s]]
    BY <1>3, <1>4, <2>1
  <2>3. [first EXCEPT !.active = active] = edited
    OBVIOUS
  <2>4. later = [stamped EXCEPT ![t].active = active]
    BY <1>3, <1>4
  <2> HIDE DEF stamped, first, edited
  <2>5. [stamped EXCEPT ![t].active = active]
          = [s \in DOMAIN book |-> IF s = t THEN [first EXCEPT !.active = active]
                                            ELSE book[s]]
    BY <1>3, <2>2
  <2> QED BY <2>3, <2>4, <2>5
<1>6. BookOf(rows)' = later
  BY <1>2, <1>3, <1>5
<1> QED BY <1>3, <1>6 DEF Book!Edit, book

(* A step of the calendar, while no two requests were open at a time, is a *)
(* step of the book or changes nothing of it.                              *)
LEMMA StepsTheBook ==
  ASSUME AloneInv, [Next]_vars, alone'
  PROVE  [Book!Next]_(Book!vars)
<1> USE DEF Book!Next, Book!vars
<1>1. IInv /\ IInv'
  BY Inductive DEF AloneInv
<1>2. CASE UNCHANGED <<rows, today>>
  BY <1>2 DEF BookOf, TypesOf
<1>3. CASE NextDay
  <2>1. BookOf(rows)' = BookOf(rows) /\ today' = today + 1
    BY <1>3 DEF NextDay, BookOf, TypesOf
  <2> QED BY <2>1 DEF Book!NextDay
<1>4. ASSUME NEW c \in Clients, Step(c) PROVE [Book!Next]_(Book!vars)
  <2>1. CASE \/ ApplyTemplate(c) \/ HoldMissing(c) \/ AddMilestone(c) \/ HoldType(c)
             \/ SaveMilestone(c) \/ FindMoved(c) \/ HoldCalendar(c) \/ ReadEdited(c)
             \/ Fail(c)
    BY <1>2, <2>1
    DEF ApplyTemplate, Begin, HoldMissing, AddMilestone, HoldType, SaveMilestone,
        FindMoved, HoldCalendar, ReadEdited, Fail
  <2>2. CASE CreateMissing(c) \/ InsertOne(c)
    <3>1. CASE UNCHANGED rows
      BY <1>2, <2>2, <3>1 DEF CreateMissing, InsertOne
    <3>2. CASE Insertable(req[c].planned) /\ Insert(req[c].planned)
      <4>1. /\ DOMAIN req[c].planned \subseteq Types
            /\ \A t \in DOMAIN req[c].planned : req[c].planned[t] \in Days
        BY <1>1, <2>2 DEF IInv, TypeOK, RequestOK, CreateMissing, InsertOne, At
      <4>2. today' = today
        BY <2>2 DEF CreateMissing, InsertOne
      <4> QED BY <1>1, <3>2, <4>1, <4>2, InsertPromises
    <3> QED BY <2>2, <3>1, <3>2 DEF CreateMissing, InsertOne
  <2>3. CASE CommitMove(c)
    <3> DEFINE at == req[c].at
               write == req[c].write
    <3>1. alone /\ WriteBack(write) /\ today' = today
      BY <2>3 DEF CommitMove
    <3>2. Moves(write, at)
      BY <2>3, <3>1 DEF CommitMove, AloneInv, HeldFresh, FreshRequest, At
    <3> HIDE DEF at, write
    <3>3. CASE DOMAIN write = {}
      <4>1. /\ BookOf(rows)' = [s \in DOMAIN BookOf(rows) |-> BookOf(rows)'[s]]
            /\ \A m \in DOMAIN rows : BookOf(rows)'[rows[m].type] = StepOf(rows[m])
            /\ \A m \in DOMAIN rows : BookOf(rows)[rows[m].type] = StepOf(rows[m])
            /\ \A s \in DOMAIN BookOf(rows) : \E m \in DOMAIN rows : rows[m].type = s
        BY <1>1, <3>1, <3>3, WriteRewrites
      <4>2. \A s \in DOMAIN BookOf(rows) : BookOf(rows)'[s] = BookOf(rows)[s]
        BY <4>1
      <4>3. BookOf(rows) = [s \in DOMAIN BookOf(rows) |-> BookOf(rows)[s]]
        BY DEF BookOf
      <4> QED BY <3>1, <4>1, <4>2, <4>3
    <3>4. CASE \E day \in Days : /\ DOMAIN write = {at}
                                 /\ write[at] = Replanned(rows[at], day)
      BY <1>1, <3>1, <3>2, <3>4, MoveIsAlone DEF Moves
    <3>5. CASE \E day \in Days :
                 LET days == day - rows[at].plan
                 IN  /\ days > 0
                     /\ DOMAIN write = {at} \cup Carried(rows, at, rows[at].plan)
                     /\ \A m \in DOMAIN write :
                          write[m] = Replanned(rows[m], rows[m].plan + days)
      <4>1. PICK day \in Days :
              /\ day - rows[at].plan > 0
              /\ DOMAIN write = {at} \cup Carried(rows, at, rows[at].plan)
              /\ \A m \in DOMAIN write :
                   write[m] = Replanned(rows[m], rows[m].plan + (day - rows[at].plan))
        BY <3>5
      <4>2. at \in DOMAIN rows
        BY <3>2 DEF Moves
      <4>3. Book!Shift
        BY <1>1, <3>1, <4>1, <4>2, ShiftShifts, Zenon
      <4> QED BY <4>3
    <3>6. \/ DOMAIN write = {}
          \/ \E day \in Days : /\ DOMAIN write = {at}
                               /\ write[at] = Replanned(rows[at], day)
          \/ \E day \in Days :
               LET days == day - rows[at].plan
               IN  /\ days > 0
                   /\ DOMAIN write = {at} \cup Carried(rows, at, rows[at].plan)
                   /\ \A m \in DOMAIN write :
                        write[m] = Replanned(rows[m], rows[m].plan + days)
      <4>1. CASE /\ DOMAIN write \subseteq {at}
                 /\ \A m \in DOMAIN write :
                      \E day \in Days : write[m] = Replanned(rows[m], day)
        <5>1. DOMAIN write = {} \/ DOMAIN write = {at}
          BY <4>1
        <5> QED BY <4>1, <5>1
      <4> QED BY <3>2, <4>1, Zenon DEF Moves
    <3> QED BY <3>3, <3>4, <3>5, <3>6
  <2>4. CASE CommitEdit(c)
    <3> DEFINE write == req[c].write
    <3>1. alone /\ WriteBack(write) /\ today' = today
      BY <2>4 DEF CommitEdit
    <3>2. /\ Edits(write, req[c].fields)
          /\ \A m \in DOMAIN write : StandsFor(write[m], m)
      BY <2>4, <3>1
      DEF CommitEdit, AloneInv, IInv, HeldStands, HoldsStanding, HeldFresh, FreshRequest, At
    <3> HIDE DEF write
    <3>3. PICK m \in DOMAIN rows, fact \in Facts, active \in BOOLEAN :
            /\ DOMAIN write = {m}
            /\ write[m] = Restated(rows[m], fact, active)
      BY <3>2 DEF Edits
    <3>4. rows[m] \in Row /\ write[m].fact = fact
      BY <1>1, <3>3 DEF IInv, TypeOK, RowsOK, Row, Restated
    <3>5. fact \in {d \in Days : d <= today} \cup {NoDay}
      <4>1. today \in Int
        BY <1>1, CalendarAssumption DEF IInv, TypeOK
      <4>2. fact # NoDay => fact \in 0..today
        BY <3>2, <3>3, <3>4 DEF StandsFor, Done
      <4> QED BY <4>1, <4>2 DEF Facts
    <3> QED BY <1>1, <3>1, <3>3, <3>5, EditIsEdit
  <2> QED BY <1>4, <2>1, <2>2, <2>3, <2>4 DEF Step
<1>5. CASE UNCHANGED vars
  BY <1>2, <1>5 DEF vars
<1> QED BY <1>3, <1>4, <1>5 DEF Next

(* The requests of calendar.go implement the book of the feature document  *)
(* as long as no two are open at a time: every commit is one whole         *)
(* decision, a promise, a move, a shift or an edit, on the book that       *)
(* stands, and every other statement leaves it alone.                      *)
THEOREM KeepsTheBook == Spec => KeepsTheBookAlone
<1>1. Init => Book!Init
  BY CalendarAssumption DEF Init, Book!Init, BookOf, TypesOf
<1>2. AloneInv /\ [Next]_vars => [alone' => [Book!Next]_(Book!vars)]_vars
  BY StepsTheBook
<1> QED BY <1>1, <1>2, AloneInvariance, PTL DEF Spec, KeepsTheBookAlone

-----------------------------------------------------------------------------
(* The milestone list.                                                     *)

(* The lists of a season agree with the rows and with each other, whatever *)
(* is added while they are read.  They read the rows and the day alone, so *)
(* the states before the first request are enough.                         *)
ListsAgree == asked = 0 => SeasonsListed

(* What the list and its states read of a step, whatever else it holds.    *)
Reads(row) ==
  /\ row.id \in Int /\ row.article \in Int
  /\ row.plan \in Int /\ row.baseline \in Int

(* Whatever rows a season holds, the list has one order: any two of them   *)
(* stand one before the other, and always the same way (list.go:103).      *)
THEOREM ListInOneOrder ==
  ASSUME NEW held, \A row \in held : Reads(row)
  PROVE  OrderDecided(held)
<1> SUFFICES ASSUME NEW a \in held, NEW b \in held
             PROVE  /\ a.id # b.id => (WorstSlipFirst(a, b) <=> ~WorstSlipFirst(b, a))
                    /\ ~WorstSlipFirst(a, a)
                    /\ \A c \in held :
                         WorstSlipFirst(a, b) /\ WorstSlipFirst(b, c) => WorstSlipFirst(a, c)
  BY DEF OrderDecided
<1>1. \A r \in held : r.id \in Int /\ r.article \in Int /\ r.plan \in Int /\ r.baseline \in Int
  BY DEF Reads
<1>2. \A r \in held : Slip(r) \in Int
  BY <1>1 DEF Slip
<1>3. a.id # b.id => (WorstSlipFirst(a, b) <=> ~WorstSlipFirst(b, a))
  BY <1>1, <1>2 DEF WorstSlipFirst
<1>4. ~WorstSlipFirst(a, a)
  BY <1>1, <1>2 DEF WorstSlipFirst
<1>5. ASSUME NEW c \in held, WorstSlipFirst(a, b), WorstSlipFirst(b, c)
      PROVE  WorstSlipFirst(a, c)
  BY <1>1, <1>2, <1>5 DEF WorstSlipFirst
<1> QED BY <1>3, <1>4, <1>5

(* Whatever the window, an open step is planned, due and late in that      *)
(* order, each from the night its plan date says (state.go:31).            *)
THEOREM StatesTurnInOrder ==
  ASSUME NEW held, \A row \in held : Reads(row), NEW days \in SUBSET Int
  PROVE  TurnsOnTheNight(held, days)
<1> SUFFICES ASSUME NEW row \in held, ~Done(row), NEW day \in days
             PROVE  LET before == State(row, day)
                        after  == State(row, day + 1)
                    IN  /\ after = "late" /\ before # "late" <=> row.plan = day
                        /\ after = "due" /\ before # "due" <=> row.plan = day + DueWindow + 1
                        /\ before = "late" => after = "late"
                        /\ before = "due" => after \in {"due", "late"}
  BY DEF TurnsOnTheNight
<1>1. row.plan \in Int /\ DueWindow \in Nat /\ day \in Int
  BY DueWindowAssumption DEF Reads
<1>2. ASSUME NEW on \in Int
      PROVE  State(row, on) = IF row.plan < on THEN "late"
                              ELSE IF row.plan <= on + DueWindow THEN "due" ELSE "planned"
  BY <1>1 DEF State
<1>3. day + 1 \in Int
  BY <1>1
<1> QED BY <1>1, <1>2, <1>3

(* What the join of a season reads: finitely many rows, one per step.      *)
LEMMA SeasonRows ==
  ASSUME NEW at \in Tables, NEW filter, NEW held, held = HeldInSeason(at, filter)
  PROVE  /\ IsFiniteSet(held)
         /\ \A row \in held : Reads(row)
         /\ \A a, b \in held : a.id = b.id => a = b
<1>1. /\ IsFiniteSet(at.models) /\ IsFiniteSet(at.steps)
      /\ \A m, o \in at.models : m.article \in Int /\ (m.id = o.id => m = o)
      /\ \A s, o \in at.steps :
           /\ s.id \in Int /\ s.plan \in Int /\ s.baseline \in Int
           /\ s.id = o.id => s = o
  BY ListAssumption, Zenon
<1> DEFINE P == at.steps \X InScope(at.models, filter)
<1> DEFINE J == {q \in P :
                  q[1].active /\ q[1].model = q[2].id /\ filter.type \in {NoFilter, q[1].type}}
<1>2. InScope(at.models, filter) \subseteq at.models
  BY DEF InScope
<1>3. IsFiniteSet(P)
  BY <1>1, <1>2, FS_Subset, FS_Product
<1>4. IsFiniteSet(J)
  BY <1>3, FS_Subset
<1>5. held = {Named(q[1], q[2]) : q \in J}
  BY DEF HeldInSeason
<1>6. ASSUME NEW a \in held
      PROVE  \E s \in at.steps, m \in at.models : s.model = m.id /\ a = Named(s, m)
  BY <1>2, <1>5
<1>7. IsFiniteSet(held)
  <2> DEFINE f == [q \in J |-> Named(q[1], q[2])]
  <2>1. held = {f[q] : q \in J} /\ f \in Surjection(J, held)
    BY <1>5 DEF Surjection
  <2> HIDE DEF J, f
  <2> QED BY <1>4, <2>1, FS_Surjection
<1>8. ASSUME NEW a \in held PROVE Reads(a)
  <2>1. PICK s \in at.steps, m \in at.models : s.model = m.id /\ a = Named(s, m)
    BY <1>6
  <2>2. a.id = s.id /\ a.article = m.article /\ a.plan = s.plan /\ a.baseline = s.baseline
    BY <2>1 DEF Named
  <2> QED BY <1>1, <2>2 DEF Reads
<1>9. ASSUME NEW a \in held, NEW b \in held, a.id = b.id PROVE a = b
  <2>1. PICK s \in at.steps, m \in at.models : s.model = m.id /\ a = Named(s, m)
    BY <1>6
  <2>2. PICK t \in at.steps, o \in at.models : t.model = o.id /\ b = Named(t, o)
    BY <1>6
  <2>3. a.id = s.id /\ b.id = t.id
    BY <2>1, <2>2 DEF Named
  <2>4. s = t
    BY <1>1, <1>9, <2>3
  <2>5. m = o
    BY <1>1, <2>1, <2>2, <2>4
  <2> QED BY <2>1, <2>2, <2>4, <2>5
<1> QED BY <1>7, <1>8, <1>9

(* The rows of the filter, each once, in the order of the list.            *)
LEMMA TheList ==
  ASSUME NEW held, IsFiniteSet(held), \A row \in held : Reads(row),
         \A a, b \in held : a.id = b.id => a = b,
         NEW states, NEW articles, NEW day,
         NEW kept, kept = Kept(held, states, articles, day),
         NEW shown, shown = Listed(held, states, articles, day)
  PROVE  \E n \in Nat :
           /\ shown \in [1..n -> kept]
           /\ \A row \in kept : \E i \in 1..n : shown[i] = row
           /\ \A i, j \in 1..n : i < j => WorstSlipFirst(shown[i], shown[j])
<1>1. kept \subseteq held /\ IsFiniteSet(kept)
  BY FS_Subset DEF Kept
<1>2. OrderDecided(kept)
  BY <1>1, ListInOneOrder
<1>3. \A a, b \in kept : <<a, b>> \in SlipOrder(kept) <=> WorstSlipFirst(a, b)
  BY DEF SlipOrder
<1>4. Orders(SlipOrder(kept), kept)
  BY <1>1, <1>2, <1>3 DEF Orders, OrderDecided
<1>5. PICK order : order = SlipOrder(kept)
  OBVIOUS
<1>6. shown = SortedBy(kept, order)
  BY <1>5 DEF Listed
<1>7. PICK n : n = Cardinality(kept)
  OBVIOUS
<1>8. /\ n \in Nat
      /\ shown \in [1..n -> kept]
      /\ \A row \in kept : \E i \in 1..n : shown[i] = row
      /\ \A i, j \in 1..n : i < j => <<shown[i], shown[j]>> \in order
  BY <1>1, <1>4, <1>5, <1>6, <1>7, ListsInOrder
<1>9. \A i \in 1..n : shown[i] \in kept
  BY <1>8
<1>10. \A i, j \in 1..n : i < j => WorstSlipFirst(shown[i], shown[j])
  BY <1>3, <1>5, <1>8, <1>9
<1> QED BY <1>8, <1>10

(* So the list holds every row it should, and the lists of the states      *)
(* divide the list of all of them.                                         *)
LEMMA ListsDivide ==
  ASSUME NEW held, IsFiniteSet(held), \A row \in held : Reads(row),
         \A a, b \in held : a.id = b.id => a = b,
         NEW states, NEW articles, NEW day \in Int
  PROVE  /\ ListIsWhole(held, states, articles, day)
         /\ StatesPartition(held, articles, day)
<1>1. ASSUME NEW which, NEW kept, kept = Kept(held, which, articles, day),
             NEW shown, shown = Listed(held, which, articles, day)
      PROVE  /\ ToSet(shown) = kept
             /\ \A i, j \in DOMAIN shown : i < j => WorstSlipFirst(shown[i], shown[j])
  <2>1. PICK n \in Nat :
          /\ shown \in [1..n -> kept]
          /\ \A row \in kept : \E i \in 1..n : shown[i] = row
          /\ \A i, j \in 1..n : i < j => WorstSlipFirst(shown[i], shown[j])
    BY <1>1, TheList
  <2>2. DOMAIN shown = 1..n
    BY <2>1
  <2>3. ToSet(shown) = kept
    BY <2>1, <2>2 DEF ToSet
  <2> QED BY <2>1, <2>2, <2>3
<1>2. ListIsWhole(held, states, articles, day)
  BY <1>1 DEF ListIsWhole
<1> DEFINE Of(which) == Kept(held, which, articles, day)
           Shown(which) == ToSet(Listed(held, which, articles, day))
<1>3. \A which : Shown(which) = Of(which)
  BY <1>1
<1>4. ASSUME NEW row \in held PROVE State(row, day) \in States
  BY <1>4 DEF State, States
<1>5. Of({}) = UNION {Of({s}) : s \in States}
  BY <1>4 DEF Kept, Keeps, HoldsState
<1>6. \A s, t \in States : s # t => Of({s}) \cap Of({t}) = {}
  BY DEF Kept, Keeps, HoldsState
<1> HIDE DEF Of, Shown
<1>7. {Shown({s}) : s \in States} = {Of({s}) : s \in States}
  BY <1>3, Zenon
<1>8. Shown({}) = UNION {Shown({s}) : s \in States}
  BY <1>3, <1>5, <1>7, Zenon
<1>9. \A s, t \in States : s # t => Shown({s}) \cap Shown({t}) = {}
  BY <1>3, <1>6, Zenon
<1>10. StatesPartition(held, articles, day)
  BY <1>8, <1>9 DEF StatesPartition, Shown
<1> QED BY <1>2, <1>10

(* The groups are put together row by row.                                 *)
LEMMA GroupsGrow ==
  ASSUME NEW shown, Len(shown) \in Nat, NEW group, NEW upTo, upTo = GroupsUpTo(shown, group)
  PROVE  /\ upTo[0] = <<>>
         /\ \A n \in 1..Len(shown) : upTo[n] = Put(upTo[n - 1], shown[n], group)
<1> DEFINE Built(g, l) ==
      g = [n \in 0..l |-> IF n = 0 THEN <<>> ELSE Put(g[n - 1], shown[n], group)]
<1> DEFINE S == {l \in Nat : \E g : Built(g, l)}
<1>1. 0 \in S
  <2>1. Built([n \in 0..0 |-> <<>>], 0)
    OBVIOUS
  <2> QED BY <2>1
<1>2. ASSUME NEW l \in Nat, l \in S PROVE l + 1 \in S
  <2>1. PICK g : Built(g, l)
    BY <1>2
  <2> DEFINE h == [n \in 0..l + 1 |-> IF n = l + 1 THEN Put(g[l], shown[l + 1], group) ELSE g[n]]
  <2>2. ASSUME NEW n \in 0..l + 1
        PROVE  h[n] = IF n = 0 THEN <<>> ELSE Put(h[n - 1], shown[n], group)
    <3>1. CASE n = l + 1
      <4>1. n # 0 /\ n - 1 = l /\ l \in 0..l + 1 /\ l # l + 1
        BY <3>1
      <4>2. h[n] = Put(g[l], shown[l + 1], group) /\ h[l] = g[l]
        BY <3>1, <4>1
      <4> QED BY <3>1, <4>1, <4>2
    <3>2. CASE n # l + 1
      <4>1. n \in 0..l
        BY <3>2
      <4>2. h[n] = g[n]
        BY <3>2
      <4>3. g[n] = IF n = 0 THEN <<>> ELSE Put(g[n - 1], shown[n], group)
        BY <2>1, <4>1
      <4>4. n # 0 => n - 1 \in 0..l + 1 /\ n - 1 # l + 1
        BY <4>1
      <4>5. n # 0 => h[n - 1] = g[n - 1]
        BY <4>4
      <4> QED BY <4>2, <4>3, <4>5
    <3> QED BY <3>1, <3>2
  <2>3. Built(h, l + 1)
    BY <2>2
  <2>4. \E f : Built(f, l + 1)
    BY <2>3
  <2> QED BY <2>4
<1>3. Len(shown) \in S
  <2> HIDE DEF S
  <2>1. \A l \in 0..(Len(shown) - 1) : l \in S => l + 1 \in S
    BY <1>2
  <2>2. 0..Len(shown) \subseteq S
    BY <1>1, <2>1, UpTo
  <2> QED BY <2>2
<1>4. \E g : Built(g, Len(shown))
  BY <1>3
<1>5. upTo = CHOOSE g : Built(g, Len(shown))
  BY DEF GroupsUpTo
<1> HIDE DEF Built
<1>6. Built(upTo, Len(shown))
  BY <1>4, <1>5
<1>7. upTo = [n \in 0..Len(shown) |->
                IF n = 0 THEN <<>> ELSE Put(upTo[n - 1], shown[n], group)]
  BY <1>6 DEF Built
<1> QED BY <1>7

(* What the groups of the first n rows of a list are.                      *)
RowsGrouped(groups, shown, n, group) ==
  \A i \in DOMAIN groups :
    /\ groups[i].rows # <<>>
    /\ \A j \in DOMAIN groups[i].rows :
         /\ GroupName(groups[i].rows[j], group) = groups[i].name
         /\ \E m \in 1..n : groups[i].rows[j] = shown[m]
    /\ \A j, k \in DOMAIN groups[i].rows :
         j < k => WorstSlipFirst(groups[i].rows[j], groups[i].rows[k])

NoneLeft(groups, shown, n) ==
  \A m \in 1..n : \E i \in DOMAIN groups :
    \E j \in DOMAIN groups[i].rows : groups[i].rows[j] = shown[m]

GroupsInOrder(groups) ==
  \A i, j \in DOMAIN groups :
    i < j => /\ groups[i].name # groups[j].name
             /\ WorstSlipFirst(groups[i].rows[1], groups[j].rows[1])

GroupedSoFar(groups, shown, n, group) ==
  /\ RowsGrouped(groups, shown, n, group)
  /\ NoneLeft(groups, shown, n)
  /\ GroupsInOrder(groups)

GroupsOf(kept, group) ==
  Seq([name : {GroupName(row, group) : row \in kept}, rows : Seq(kept)])

(* A row that joins the end of its group, or opens one behind the others,  *)
(* leaves the groups in order: it stands behind every row before it.       *)
LEMMA PutInOrder ==
  ASSUME NEW kept, NEW shown \in Seq(kept), NEW group, NEW n \in 1..Len(shown),
         \A i, j \in 1..Len(shown) : i < j => WorstSlipFirst(shown[i], shown[j]),
         NEW groups \in GroupsOf(kept, group), GroupedSoFar(groups, shown, n - 1, group),
         NEW next, next = Put(groups, shown[n], group)
  PROVE  next \in GroupsOf(kept, group) /\ GroupedSoFar(next, shown, n, group)
<1> DEFINE row == shown[n]
           name == GroupName(row, group)
           Group == [name : {GroupName(r, group) : r \in kept}, rows : Seq(kept)]
<1>1. /\ row \in kept /\ n \in Nat /\ n - 1 \in Nat
      /\ Len(shown) \in Nat /\ [name |-> name, rows |-> <<row>>] \in Group
  <2>1. row \in kept /\ Len(shown) \in Nat
    OBVIOUS
  <2>2. <<row>> \in Seq(kept)
    BY <2>1
  <2> QED BY <2>1, <2>2
<1>2. groups \in Seq(Group)
  BY DEF GroupsOf
<1>3. /\ Len(groups) \in Nat /\ DOMAIN groups = 1..Len(groups)
      /\ \A i \in DOMAIN groups : groups[i] \in Group
  <2> HIDE DEF Group
  <2> QED BY <1>2
<1>4. ASSUME NEW i \in DOMAIN groups
      PROVE  /\ groups[i].rows \in Seq(kept) /\ Len(groups[i].rows) \in Nat
             /\ DOMAIN groups[i].rows = 1..Len(groups[i].rows)
             /\ 1 \in DOMAIN groups[i].rows
  <2>1. groups[i].rows \in Seq(kept)
    BY <1>3
  <2>2. groups[i].rows # <<>>
    BY DEF GroupedSoFar, RowsGrouped
  <2> QED BY <2>1, <2>2, EmptySeq
<1>5. ASSUME NEW m \in 1..n - 1
      PROVE  WorstSlipFirst(shown[m], row) /\ m \in 1..n
  <2>1. m \in 1..Len(shown) /\ n \in 1..Len(shown) /\ m < n
    BY <1>1
  <2> QED BY <1>1, <2>1
<1>6. ASSUME NEW i \in DOMAIN groups, NEW j \in DOMAIN groups[i].rows
      PROVE  WorstSlipFirst(groups[i].rows[j], row)
  BY <1>5 DEF GroupedSoFar, RowsGrouped
<1>7. CASE \E i \in DOMAIN groups : groups[i].name = name
  <2> DEFINE joined(i) == [name |-> name, rows |-> Append(groups[i].rows, row)]
  <2>1. next = [i \in DOMAIN groups |-> IF groups[i].name = name THEN joined(i) ELSE groups[i]]
    BY <1>7, Zenon DEF Put
  <2>2. ASSUME NEW i \in DOMAIN groups
        PROVE  /\ next[i] \in Group /\ next[i].name = groups[i].name
               /\ next[i].rows \in Seq(kept)
               /\ Len(next[i].rows) >= Len(groups[i].rows)
               /\ \A j \in 1..Len(groups[i].rows) : next[i].rows[j] = groups[i].rows[j]
               /\ groups[i].name # name => Len(next[i].rows) = Len(groups[i].rows)
               /\ groups[i].name = name =>
                    /\ Len(next[i].rows) = Len(groups[i].rows) + 1
                    /\ next[i].rows[Len(groups[i].rows) + 1] = row
    <3>1. CASE groups[i].name = name
      <4>1. next[i] = joined(i)
        BY <2>1, <3>1
      <4>2. next[i].name = name /\ next[i].rows = Append(groups[i].rows, row)
        BY <4>1
      <4>3. Append(groups[i].rows, row) \in Seq(kept)
        BY <1>1, <1>4, AppendProperties
      <4>4. name \in {GroupName(r, group) : r \in kept}
        BY <1>1
      <4>5. next[i] \in Group
        BY <4>1, <4>3, <4>4
      <4>6. /\ Len(next[i].rows) = Len(groups[i].rows) + 1
            /\ next[i].rows[Len(groups[i].rows) + 1] = row
            /\ \A j \in 1..Len(groups[i].rows) : next[i].rows[j] = groups[i].rows[j]
        <5> HIDE DEF row
        <5> QED BY <1>1, <1>4, <4>2, AppendProperties
      <4> QED BY <1>4, <3>1, <4>2, <4>3, <4>5, <4>6
    <3>2. CASE groups[i].name # name
      <4>1. next[i] = groups[i]
        BY <2>1, <3>2
      <4> QED BY <1>3, <1>4, <3>2, <4>1
    <3> QED BY <3>1, <3>2
  <2>3. DOMAIN next = DOMAIN groups
    BY <2>1
  <2> HIDE DEF joined, name, row, Group
  <2>4. next \in Seq(Group)
    <3>1. next = [i \in 1..Len(groups) |-> next[i]]
      BY <1>3, <2>1, <2>3
    <3>2. next \in [1..Len(groups) -> Group]
      BY <1>3, <2>2, <3>1
    <3> QED BY <1>3, <3>2
  <2>5. ASSUME NEW i \in DOMAIN next
        PROVE  /\ DOMAIN next[i].rows = 1..Len(next[i].rows)
               /\ Len(next[i].rows) \in Nat /\ Len(next[i].rows) >= 1
               /\ next[i].rows[1] = groups[i].rows[1]
    BY <1>4, <2>2, <2>3
  <2>6. ASSUME NEW i \in DOMAIN next, NEW j \in DOMAIN next[i].rows
        PROVE  \/ j \in DOMAIN groups[i].rows /\ next[i].rows[j] = groups[i].rows[j]
               \/ /\ j = Len(groups[i].rows) + 1 /\ next[i].rows[j] = row
                  /\ groups[i].name = name
    <3>0. i \in DOMAIN groups /\ j \in Int /\ 1 <= j /\ j <= Len(next[i].rows)
      BY <2>3, <2>5
    <3>1. CASE j <= Len(groups[i].rows)
      <4>1. j \in 1..Len(groups[i].rows)
        BY <1>4, <3>0, <3>1
      <4> QED BY <1>4, <2>2, <3>0, <4>1
    <3>2. CASE ~(j <= Len(groups[i].rows))
      <4>1. groups[i].name = name
        BY <1>4, <2>2, <3>0, <3>2
      <4>2. Len(next[i].rows) = Len(groups[i].rows) + 1
        BY <2>2, <3>0, <4>1
      <4>3. j = Len(groups[i].rows) + 1
        BY <1>4, <3>0, <3>2, <4>2
      <4>4. next[i].rows[Len(groups[i].rows) + 1] = row
        BY <2>2, <3>0, <4>1
      <4> QED BY <4>1, <4>3, <4>4
    <3> QED BY <3>1, <3>2
  <2>7. ASSUME NEW i \in DOMAIN next, NEW j \in DOMAIN next[i].rows
        PROVE  /\ GroupName(next[i].rows[j], group) = next[i].name
               /\ \E m \in 1..n : next[i].rows[j] = shown[m]
    <3>1. CASE j \in DOMAIN groups[i].rows /\ next[i].rows[j] = groups[i].rows[j]
      <4>1. GroupName(groups[i].rows[j], group) = groups[i].name
        BY <2>3, <3>1 DEF GroupedSoFar, RowsGrouped
      <4>2. PICK m \in 1..n - 1 : groups[i].rows[j] = shown[m]
        BY <2>3, <3>1 DEF GroupedSoFar, RowsGrouped
      <4> QED BY <1>5, <2>2, <2>3, <3>1, <4>1, <4>2
    <3>2. CASE next[i].rows[j] = row /\ groups[i].name = name
      <4>1. n \in 1..n
        BY <1>1
      <4> QED BY <2>2, <2>3, <3>2, <4>1 DEF name, row
    <3> QED BY <2>6, <3>1, <3>2
  <2>8. ASSUME NEW i \in DOMAIN next, NEW j \in DOMAIN next[i].rows,
               NEW k \in DOMAIN next[i].rows, j < k
        PROVE  WorstSlipFirst(next[i].rows[j], next[i].rows[k])
    <3>0. j \in Int /\ k \in Int /\ i \in DOMAIN groups
      BY <2>3, <2>5
    <3>1. j \in DOMAIN groups[i].rows /\ next[i].rows[j] = groups[i].rows[j]
      <4>1. CASE j = Len(groups[i].rows) + 1
        <5>1. k <= Len(groups[i].rows) + 1
          BY <1>4, <2>6, <3>0
        <5> QED BY <1>4, <2>8, <3>0, <4>1, <5>1
      <4> QED BY <2>6, <4>1
    <3>2. CASE k \in DOMAIN groups[i].rows /\ next[i].rows[k] = groups[i].rows[k]
      <4>1. WorstSlipFirst(groups[i].rows[j], groups[i].rows[k])
        BY <2>8, <3>0, <3>1, <3>2 DEF GroupedSoFar, RowsGrouped
      <4> QED BY <3>1, <3>2, <4>1
    <3>3. CASE next[i].rows[k] = row
      BY <1>6, <3>0, <3>1, <3>3
    <3> QED BY <2>6, <3>2, <3>3
  <2>9. RowsGrouped(next, shown, n, group)
    <3>1. \A i \in DOMAIN next : next[i].rows # <<>>
      BY <2>5
    <3> QED BY <2>7, <2>8, <3>1 DEF RowsGrouped
  <2>10. NoneLeft(next, shown, n)
    <3>1. ASSUME NEW m \in 1..n
          PROVE  \E i \in DOMAIN next : \E j \in DOMAIN next[i].rows : next[i].rows[j] = shown[m]
      <4>1. CASE m \in 1..n - 1
        <5>1. PICK i \in DOMAIN groups : \E j \in DOMAIN groups[i].rows : groups[i].rows[j] = shown[m]
          BY <4>1 DEF GroupedSoFar, NoneLeft
        <5>2. PICK j \in DOMAIN groups[i].rows : groups[i].rows[j] = shown[m]
          BY <5>1
        <5>3. /\ j \in 1..Len(groups[i].rows) /\ Len(groups[i].rows) \in Nat
              /\ Len(next[i].rows) \in Nat /\ Len(next[i].rows) >= Len(groups[i].rows)
              /\ DOMAIN next[i].rows = 1..Len(next[i].rows)
          BY <1>4, <2>2, <2>3, <2>5
        <5>4. j \in DOMAIN next[i].rows
          BY <5>3
        <5>5. next[i].rows[j] = shown[m]
          BY <2>2, <5>2, <5>3
        <5> QED BY <2>3, <5>4, <5>5
      <4>2. CASE m = n
        <5>1. PICK i \in DOMAIN groups : groups[i].name = name
          BY <1>7 DEF name, row
        <5>2. Len(groups[i].rows) + 1 \in DOMAIN next[i].rows
          BY <1>4, <2>2, <2>3, <2>5, <5>1
        <5>3. next[i].rows[Len(groups[i].rows) + 1] = shown[m]
          BY <2>2, <4>2, <5>1 DEF row
        <5> QED BY <2>3, <5>2, <5>3
      <4> QED BY <1>1, <4>1, <4>2
    <3> QED BY <3>1 DEF NoneLeft
  <2>11. GroupsInOrder(next)
    <3>1. \A i \in DOMAIN next : next[i].name = groups[i].name /\ next[i].rows[1] = groups[i].rows[1]
      BY <2>2, <2>3, <2>5
    <3> QED BY <2>3, <3>1 DEF GroupedSoFar, GroupsInOrder
  <2> QED BY <2>4, <2>9, <2>10, <2>11 DEF GroupedSoFar, GroupsOf, Group
<1>8. CASE ~\E i \in DOMAIN groups : groups[i].name = name
  <2> DEFINE opened == [name |-> name, rows |-> <<row>>]
             last == Len(groups) + 1
  <2>1. next = Append(groups, opened)
    BY <1>8, Zenon DEF Put
  <2>2. opened.name = name /\ opened.rows = <<row>> /\ opened \in Group
    BY <1>1
  <2>3. DOMAIN opened.rows = {1} /\ opened.rows[1] = row /\ opened.rows # <<>>
    BY <2>2
  <2> HIDE DEF opened, name, row, Group
  <2>4. /\ next \in Seq(Group) /\ DOMAIN next = 1..last /\ next[last] = opened
        /\ \A i \in DOMAIN groups : next[i] = groups[i]
    BY <1>2, <1>3, <2>1, <2>2, AppendProperties
  <2>5. \A i \in DOMAIN next : i \in DOMAIN groups \/ i = last
    BY <1>3, <2>4
  <2>6. RowsGrouped(next, shown, n, group)
    <3>1. ASSUME NEW i \in DOMAIN groups
          PROVE  /\ groups[i].rows # <<>>
                 /\ \A j \in DOMAIN groups[i].rows :
                      /\ GroupName(groups[i].rows[j], group) = groups[i].name
                      /\ \E m \in 1..n : groups[i].rows[j] = shown[m]
                 /\ \A j, k \in DOMAIN groups[i].rows :
                      j < k => WorstSlipFirst(groups[i].rows[j], groups[i].rows[k])
      BY <1>5 DEF GroupedSoFar, RowsGrouped
    <3>2. n \in 1..n /\ opened.rows[1] = shown[n] /\ GroupName(shown[n], group) = name
      BY <1>1, <2>3 DEF row, name
    <3>3. /\ opened.rows # <<>>
          /\ \A j \in DOMAIN opened.rows :
               /\ GroupName(opened.rows[j], group) = opened.name
               /\ \E m \in 1..n : opened.rows[j] = shown[m]
          /\ \A j, k \in DOMAIN opened.rows :
               j < k => WorstSlipFirst(opened.rows[j], opened.rows[k])
      BY <2>2, <2>3, <3>2
    <3> QED BY <2>4, <2>5, <3>1, <3>3 DEF RowsGrouped
  <2>7. NoneLeft(next, shown, n)
    <3>1. ASSUME NEW m \in 1..n
          PROVE  \E i \in DOMAIN next : \E j \in DOMAIN next[i].rows : next[i].rows[j] = shown[m]
      <4>1. CASE m \in 1..n - 1
        <5>1. PICK i \in DOMAIN groups : \E j \in DOMAIN groups[i].rows : groups[i].rows[j] = shown[m]
          BY <4>1 DEF GroupedSoFar, NoneLeft
        <5>2. i \in DOMAIN next
          BY <1>3, <2>4
        <5> QED BY <2>4, <5>1, <5>2
      <4>2. CASE m = n
        <5>1. last \in DOMAIN next /\ 1 \in DOMAIN next[last].rows /\ next[last].rows[1] = shown[m]
          BY <1>3, <2>3, <2>4, <4>2 DEF row
        <5> QED BY <5>1
      <4> QED BY <1>1, <4>1, <4>2
    <3> QED BY <3>1 DEF NoneLeft
  <2>8. GroupsInOrder(next)
    <3>1. ASSUME NEW i \in DOMAIN next, NEW j \in DOMAIN next, i < j
          PROVE  next[i].name # next[j].name /\ WorstSlipFirst(next[i].rows[1], next[j].rows[1])
      <4>1. i \in DOMAIN groups
        BY <1>3, <2>4, <3>1
      <4>2. CASE j \in DOMAIN groups
        BY <2>4, <3>1, <4>1, <4>2 DEF GroupedSoFar, GroupsInOrder
      <4>3. CASE j = last
        <5>1. groups[i].name # name
          BY <1>8, <4>1 DEF name, row
        <5>2. WorstSlipFirst(groups[i].rows[1], row)
          BY <1>4, <1>6, <4>1 DEF row
        <5> QED BY <2>2, <2>3, <2>4, <4>1, <4>3, <5>1, <5>2
      <4> QED BY <2>5, <4>2, <4>3
    <3> QED BY <3>1 DEF GroupsInOrder
  <2> QED BY <2>4, <2>6, <2>7, <2>8 DEF GroupedSoFar, GroupsOf, Group
<1> QED BY <1>7, <1>8

(* So the groups of a list hold its rows, each group in order, and open on *)
(* the group of the worst row.                                             *)
LEMMA GroupsHold ==
  ASSUME NEW kept, NEW shown \in Seq(kept), NEW group,
         \A i, j \in 1..Len(shown) : i < j => WorstSlipFirst(shown[i], shown[j])
  PROVE  GroupsKeep(shown, group)
<1> DEFINE upTo == GroupsUpTo(shown, group)
           S == {n \in 0..Len(shown) :
                   upTo[n] \in GroupsOf(kept, group) /\ GroupedSoFar(upTo[n], shown, n, group)}
           groups == Groups(shown, group)
<1>1. Len(shown) \in Nat /\ DOMAIN shown = 1..Len(shown)
  OBVIOUS
<1>2. /\ upTo[0] = <<>>
      /\ \A n \in 1..Len(shown) : upTo[n] = Put(upTo[n - 1], shown[n], group)
  <2> HIDE DEF upTo
  <2> QED BY <1>1, GroupsGrow DEF upTo
<1>3. groups = upTo[Len(shown)]
  BY DEF Groups
<1> HIDE DEF upTo, groups
<1>4. 0 \in S
  <2>1. upTo[0] \in GroupsOf(kept, group)
    BY <1>2 DEF GroupsOf
  <2>2. GroupedSoFar(upTo[0], shown, 0, group)
    BY <1>2 DEF GroupedSoFar, RowsGrouped, NoneLeft, GroupsInOrder
  <2> QED BY <1>1, <2>1, <2>2
<1>5. ASSUME NEW n \in 0..(Len(shown) - 1), n \in S PROVE n + 1 \in S
  <2>1. n + 1 \in 1..Len(shown) /\ (n + 1) - 1 = n
    BY <1>1
  <2>2. upTo[n + 1] = Put(upTo[n], shown[n + 1], group)
    BY <1>2, <2>1
  <2>3. upTo[n] \in GroupsOf(kept, group) /\ GroupedSoFar(upTo[n], shown, (n + 1) - 1, group)
    BY <1>5, <2>1
  <2>4. /\ upTo[n + 1] \in GroupsOf(kept, group)
        /\ GroupedSoFar(upTo[n + 1], shown, n + 1, group)
    BY <2>1, <2>2, <2>3, PutInOrder
  <2> QED BY <2>1, <2>4
<1>6. Len(shown) \in S
  <2> HIDE DEF S
  <2>1. 0..Len(shown) \subseteq S
    BY <1>1, <1>4, <1>5, UpTo
  <2> QED BY <1>1, <2>1
<1>7. groups \in GroupsOf(kept, group) /\ GroupedSoFar(groups, shown, Len(shown), group)
  BY <1>3, <1>6
<1>8. UNION {ToSet(groups[i].rows) : i \in DOMAIN groups} = ToSet(shown)
  <2>1. \A i \in DOMAIN groups : ToSet(groups[i].rows) \subseteq ToSet(shown)
    BY <1>1, <1>7 DEF GroupedSoFar, RowsGrouped, ToSet
  <2>2. ASSUME NEW m \in 1..Len(shown)
        PROVE  \E i \in DOMAIN groups : shown[m] \in ToSet(groups[i].rows)
    BY <1>7 DEF GroupedSoFar, NoneLeft, ToSet
  <2>3. ToSet(shown) = {shown[m] : m \in 1..Len(shown)}
    BY <1>1 DEF ToSet
  <2> QED BY <2>1, <2>2, <2>3
<1> QED BY <1>7, <1>8 DEF GroupsKeep, groups, GroupedSoFar, RowsGrouped, GroupsInOrder

(* The models of a drop that a list names, and the ones that hold a step.  *)
NamedOn(shown, d) == {r.model : r \in {q \in ToSet(shown) : q.drop = d}}

Stepped(at, filter, d) ==
  {m \in InScope(at.models, filter) : m.drop = d /\ HasStep(at, m)}

(* The models named on an unfiltered list are the ones that have a step.   *)
LEMMA ListedModels ==
  ASSUME NEW at \in Tables, NEW filter, filter.type = NoFilter, filter.states = {},
         NEW d, NEW day,
         NEW shown, ToSet(shown) = Kept(HeldInSeason(at, filter), {}, AllArticles(at), day)
  PROVE  NamedOn(shown, d) = {m.id : m \in Stepped(at, filter, d)}
<1> DEFINE held == HeldInSeason(at, filter)
<1>1. ASSUME NEW row
      PROVE  row \in held <=>
               \E s \in at.steps, m \in InScope(at.models, filter) :
                 s.active /\ s.model = m.id /\ row = Named(s, m)
  <2> DEFINE J == {q \in at.steps \X InScope(at.models, filter) :
                    q[1].active /\ q[1].model = q[2].id /\ filter.type \in {NoFilter, q[1].type}}
  <2>1. held = {Named(q[1], q[2]) : q \in J}
    BY DEF HeldInSeason
  <2>2. ASSUME row \in held
        PROVE  \E s \in at.steps, m \in InScope(at.models, filter) :
                 s.active /\ s.model = m.id /\ row = Named(s, m)
    <3>1. PICK q \in J : row = Named(q[1], q[2])
      BY <2>1, <2>2
    <3>2. q[1] \in at.steps /\ q[2] \in InScope(at.models, filter) /\ q[1].active /\ q[1].model = q[2].id
      OBVIOUS
    <3> QED BY <3>1, <3>2
  <2>3. ASSUME NEW s \in at.steps, NEW m \in InScope(at.models, filter),
               s.active, s.model = m.id, row = Named(s, m)
        PROVE  row \in held
    <3>1. <<s, m>> \in J
      BY <2>3
    <3>2. row = Named(<<s, m>>[1], <<s, m>>[2])
      BY <2>3
    <3> QED BY <2>1, <3>1, <3>2
  <2> QED BY <2>2, <2>3
<1> HIDE DEF held
<1>2. ASSUME NEW s \in at.steps, NEW m \in InScope(at.models, filter), s.active, s.model = m.id
      PROVE  /\ Named(s, m) \in ToSet(shown)
             /\ Named(s, m).model = m.id /\ Named(s, m).drop = m.drop
  <2>1. m.article \in AllArticles(at)
    BY DEF InScope, AllArticles
  <2>2. Named(s, m).active = s.active /\ Named(s, m).article = m.article
    BY DEF Named
  <2>3. Keeps(Named(s, m), {}, AllArticles(at), day)
    BY <1>2, <2>1, <2>2, Zenon DEF Keeps, HoldsState
  <2>4. Named(s, m) \in held
    BY <1>1, <1>2
  <2>5. Named(s, m).model = m.id /\ Named(s, m).drop = m.drop
    BY <1>2 DEF Named
  <2> QED BY <2>3, <2>4, <2>5 DEF Kept, held
<1>3. ASSUME NEW row \in ToSet(shown), row.drop = d
      PROVE  \E m \in Stepped(at, filter, d) : row.model = m.id
  <2>1. row \in held
    BY DEF Kept, held
  <2>2. PICK s \in at.steps, m \in InScope(at.models, filter) :
          s.active /\ s.model = m.id /\ row = Named(s, m)
    BY <1>1, <2>1
  <2>3. row.model = m.id /\ row.drop = m.drop
    BY <1>2, <2>2
  <2>4. HasStep(at, m)
    BY <2>2 DEF HasStep
  <2> QED BY <1>3, <2>3, <2>4 DEF Stepped
<1>4. ASSUME NEW m \in Stepped(at, filter, d)
      PROVE  \E r \in {q \in ToSet(shown) : q.drop = d} : r.model = m.id
  <2>1. PICK s \in at.steps : s.active /\ s.model = m.id
    BY DEF Stepped, HasStep
  <2>2. m \in InScope(at.models, filter) /\ m.drop = d
    BY DEF Stepped
  <2> QED BY <1>2, <2>1, <2>2
<1> QED BY <1>3, <1>4 DEF NamedOn

(* So a model is on the list or counted beside it, unless its first step   *)
(* came, or its last one went, between the two reads.                      *)
LEMMA NobodyLost ==
  ASSUME NEW at \in Tables, NEW after \in Tables, after.models = at.models,
         NEW filter, filter.type = NoFilter, filter.states = {}, NEW d, NEW day,
         NEW shown, ToSet(shown) = Kept(HeldInSeason(at, filter), {}, AllArticles(at), day)
  PROVE  NobodyIsLost(shown, at, after, filter, d)
<1> DEFINE work == {m \in InScope(at.models, filter) : m.drop = d}
           held == Stepped(at, filter, d)
           bare == {m \in work : ~HasStep(after, m)}
           came == {m \in work : ~HasStep(at, m) /\ HasStep(after, m)}
           went == {m \in work : HasStep(at, m) /\ ~HasStep(after, m)}
           named == NamedOn(shown, d)
           counts == ModelsWithoutCalendar(after, filter)
<1>1. IsFiniteSet(work)
  <2>1. IsFiniteSet(at.models) /\ work \subseteq at.models
    BY ListAssumption, Zenon DEF InScope
  <2> QED BY <2>1, FS_Subset
<1>2. \A m, o \in work : m.id = o.id => m = o
  BY ListAssumption, Zenon DEF InScope
<1>3. Cardinality(named) = Cardinality(held)
  <2>1. named = {m.id : m \in held}
    BY ListedModels
  <2>2. held \subseteq work
    BY DEF Stepped
  <2>3. IsFiniteSet(held) /\ \A m, o \in held : m.id = o.id => m = o
    BY <1>1, <1>2, <2>2, FS_Subset
  <2> DEFINE f == [m \in held |-> m.id]
  <2> HIDE DEF held, named
  <2>4. f \in Bijection(held, named)
    BY <2>1, <2>3 DEF Bijection, Injection, Surjection, IsInjective
  <2>5. ExistsBijection(held, named)
    BY <2>4 DEF ExistsBijection
  <2> QED BY <2>3, <2>5, FS_Bijection
<1>4. Counted(counts, d) = Cardinality(bare)
  <2> DEFINE all == {m \in InScope(after.models, filter) : ~HasStep(after, m)}
  <2>1. counts = [e \in {m.drop : m \in all} |-> Cardinality({m \in all : m.drop = e})]
    BY DEF ModelsWithoutCalendar
  <2>2. bare = {m \in all : m.drop = d}
    OBVIOUS
  <2>3. CASE d \in {m.drop : m \in all}
    <3>1. Counted(counts, d) = counts[d] /\ counts[d] = Cardinality({m \in all : m.drop = d})
      BY <2>1, <2>3 DEF Counted
    <3> QED BY <2>2, <3>1
  <2>4. CASE d \notin {m.drop : m \in all}
    <3>1. bare = {}
      BY <2>2, <2>4
    <3>2. Counted(counts, d) = 0
      BY <2>1, <2>4 DEF Counted
    <3> QED BY <3>1, <3>2, FS_EmptySet
  <2> QED BY <2>3, <2>4
<1>5. Cardinality(held) + Cardinality(bare)
        = Cardinality(work) - Cardinality(came) + Cardinality(went)
  <2> DEFINE both == bare \ went
  <2>1. /\ held \subseteq work /\ bare \subseteq work /\ came \subseteq work
        /\ went \subseteq bare /\ both \subseteq work
        /\ came \cap both = {} /\ held \cap (came \cup both) = {}
        /\ bare \cap went = went /\ held \cup (came \cup both) = work
    BY DEF Stepped
  <2> HIDE DEF work, held, bare, came, went, both
  <2>2. /\ IsFiniteSet(held) /\ IsFiniteSet(bare) /\ IsFiniteSet(came)
        /\ IsFiniteSet(both) /\ IsFiniteSet(went)
    BY <1>1, <2>1, FS_Subset
  <2>3. /\ Cardinality(held) \in Nat /\ Cardinality(bare) \in Nat /\ Cardinality(came) \in Nat
        /\ Cardinality(both) \in Nat /\ Cardinality(went) \in Nat
    BY <2>2, FS_CardinalityType
  <2>4. Cardinality(both) = Cardinality(bare) - Cardinality(went)
    BY <2>1, <2>2, FS_Difference DEF both
  <2>5. /\ IsFiniteSet(came \cup both)
        /\ Cardinality(came \cup both) = Cardinality(came) + Cardinality(both) - Cardinality({})
    BY <2>1, <2>2, FS_Union
  <2>6. Cardinality(held \cup (came \cup both))
          = Cardinality(held) + Cardinality(came \cup both) - Cardinality({})
    BY <2>1, <2>2, <2>5, FS_Union
  <2>7. Cardinality({}) = 0
    BY FS_EmptySet
  <2>8. Cardinality(held \cup (came \cup both)) = Cardinality(work)
    BY <2>1, Zenon
  <2>9. Cardinality(came \cup both) = Cardinality(came) + Cardinality(bare) - Cardinality(went)
    BY <2>3, <2>4, <2>5, <2>7
  <2> QED BY <2>3, <2>6, <2>7, <2>8, <2>9
<1> HIDE DEF held, bare, counts, named
<1>6. Cardinality(named) + Counted(counts, d)
        = Cardinality(work) - Cardinality(came) + Cardinality(went)
  BY <1>3, <1>4, <1>5
<1> QED BY <1>6 DEF NobodyIsLost, NamedOn, named, counts

(* The lists of a season agree with the rows and with each other, whatever *)
(* the tables hold, whichever screen narrows them and on whichever day     *)
(* (list.go, state.go, sqlgen ListMilestonesBySeason).                     *)
THEOREM ListsAlwaysAgree == Spec => []ListsAgree
<1>1. ASSUME NEW at \in Tables, NEW screen \in Screens, NEW day \in ListDays,
             NEW held, held = HeldInSeason(at, screen),
             NEW shown, shown = ListMilestones(at, screen, AllArticles(at), day)
      PROVE  /\ OrderDecided(held) /\ TurnsOnTheNight(held, ListDays)
             /\ ListIsWhole(held, screen.states, AllArticles(at), day)
             /\ StatesPartition(held, AllArticles(at), day)
             /\ \A group \in {"", "drop", "type"} : GroupsKeep(shown, group)
             /\ \A after \in Tables, d \in {m.drop : m \in at.models} :
                  after.models = at.models /\ screen.type = NoFilter /\ screen.states = {}
                    => NobodyIsLost(shown, at, after, screen, d)
  <2>1. day \in Int /\ ListDays \in SUBSET Int
    BY ListAssumption, Zenon
  <2>2. /\ IsFiniteSet(held) /\ \A row \in held : Reads(row)
        /\ \A a, b \in held : a.id = b.id => a = b
    BY <1>1, SeasonRows
  <2>3. OrderDecided(held) /\ TurnsOnTheNight(held, ListDays)
    BY <2>1, <2>2, ListInOneOrder, StatesTurnInOrder
  <2>4. /\ ListIsWhole(held, screen.states, AllArticles(at), day)
        /\ StatesPartition(held, AllArticles(at), day)
    BY <2>1, <2>2, ListsDivide
  <2>5. shown = Listed(held, screen.states, AllArticles(at), day)
    BY <1>1 DEF ListMilestones
  <2>6. PICK kept : kept = Kept(held, screen.states, AllArticles(at), day)
    OBVIOUS
  <2>7. PICK n \in Nat :
          /\ shown \in [1..n -> kept]
          /\ \A i, j \in 1..n : i < j => WorstSlipFirst(shown[i], shown[j])
    BY <2>2, <2>5, <2>6, TheList
  <2>8. shown \in Seq(kept) /\ Len(shown) = n
    BY <2>7
  <2>9. \A group \in {"", "drop", "type"} : GroupsKeep(shown, group)
    BY <2>7, <2>8, GroupsHold
  <2>10. ToSet(shown) = Kept(held, screen.states, AllArticles(at), day)
    BY <2>4, <2>5 DEF ListIsWhole
  <2>11. ASSUME NEW after \in Tables, NEW d, after.models = at.models,
                screen.type = NoFilter, screen.states = {}
         PROVE  NobodyIsLost(shown, at, after, screen, d)
    BY <1>1, <2>10, <2>11, NobodyLost
  <2> QED BY <2>3, <2>4, <2>9, <2>11
<1>2. SeasonsListed
  BY <1>1 DEF SeasonsListed
<1> QED BY <1>2, PTL DEF ListsAgree
=============================================================================
