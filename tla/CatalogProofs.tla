----------------------------- MODULE CatalogProofs -----------------------------
(***************************************************************************)
(* What holds of seasons, drops, models and milestone types for every      *)
(* number of requests, rows and connections: names stay unique, the trail  *)
(* tells of committed rows and in the order they were written, a card is   *)
(* not ahead of its trail, and as long as requests come one after the      *)
(* other, rows, trails and lists agree.                                    *)
(***************************************************************************)
EXTENDS Catalog, SeasonChoice, AuditLog, PositionsProofs, FiniteSetTheorems, TLAPS

(* The steps of a request that writes, those of one that has its row, and  *)
(* those of one that has its name as well.                                 *)
Writing == {"begin", "lock", "write", "record", "commit"}

Locked == {"write", "record", "commit"}

Named == {"record", "commit"}

(* The steps of a request that has yet to stamp the entries of its trail.  *)
Unstamped == {"offer", "parent", "hold", "begin", "lock", "write", "record"}

ToStamp == {c \in Clients : req[c].step \in Unstamped}

(* What a request is about to write has the parent the foreign keys ask    *)
(* for, and only a model gets a calendar.                                  *)
HasItsParent(r) ==
  /\ r.step \in Writing => /\ HasParent(r.id, r.row, DOMAIN rows)
                           /\ r.path => r.id \in Models
  /\ r.step = "offer" => r.row.parent \in Drops
  /\ r.step = "parent" => /\ r.row.parent \in Seasons \cup Drops
                          /\ r.path => r.row.parent \in Drops
  /\ r.step = "calendar" => r.id \in Models

(* Every row has its parent, and so will a row that is on its way in.      *)
ParentsStand ==
  /\ \A i \in DOMAIN rows : HasParent(i, rows[i], DOMAIN rows)
  /\ \A c \in Clients : HasItsParent(req[c])

(* Two requests never write one row at a time, nor one name.               *)
Apart(q, r) ==
  /\ q.step \in Locked /\ r.step \in Locked => q.id # r.id
  /\ q.step \in Named /\ r.step \in Named => ~SameKey(q.id, q.row, r.id, r.row)

(* The name that was checked is no other row's.                            *)
NameIsFree(r) ==
  r.step \in Named =>
    \A j \in DOMAIN rows \ {r.id} : ~SameKey(r.id, r.row, j, rows[j])

LocksStand ==
  \A c \in Clients :
    /\ NameIsFree(req[c])
    /\ \A d \in Clients \ {c} : Apart(req[c], req[d])

(* A stamp in hand is later than the entries of its row.                   *)
StampIsLast(r) ==
  r.step = "commit" =>
    /\ 0 < r.at /\ r.at <= clock
    /\ r.id \in DOMAIN told => told[r.id].at < r.at

(* The clock is not behind what was stamped, and leaves a tick for every   *)
(* request that has one to come.                                           *)
ClockStands ==
  /\ clock + Cardinality(ToStamp) <= asked
  /\ \A i \in DOMAIN told : told[i].at <= clock
  /\ \A c \in Clients : StampIsLast(req[c])

(* A card that was read has a trail, and one as late as the row; a form    *)
(* that comes back names no row.                                           *)
ShowsItsTrail(r) ==
  /\ r.step = "trail" => r.id \in DOMAIN told /\ r.at <= told[r.id].at
  /\ r.step = "idle" => /\ r.answer # "untold"
                        /\ r.answer \in {"refused", "taken"} => r.id = None

ScreensStand == \A c \in Clients : ShowsItsTrail(req[c])

(* A row that is written again differs from the one that is there in the   *)
(* fields that were named alone.                                           *)
NamesItsFields(r, held) ==
  /\ "name"   \notin r.fields => r.row.name   = held.name
  /\ "day"    \notin r.fields => r.row.day    = held.day
  /\ "active" \notin r.fields => r.row.active = held.active

(* What a request read is still so: the fields it moves, and every drop    *)
(* but those of the seasons it has yet to read.                            *)
StillSo(r) ==
  /\ r.step \in Writing /\ r.id \in DOMAIN rows => NamesItsFields(r, rows[r.id])
  /\ r.step = "drops" =>
       \A d \in DOMAIN rows \cap Drops : d \in r.drops \/ rows[d].parent \in r.seasons
  /\ r.step = "idle" => r.answer # "bare"

(* As long as no two requests were open at a time: one is open at most,    *)
(* the trail tells what the rows hold, and what was read is still so.      *)
AloneStands ==
  alone =>
    /\ \A c, d \in Clients : ~At(c, "idle") /\ ~At(d, "idle") => c = d
    /\ \A i \in DOMAIN rows : told[i] = Says(rows[i], told[i].at)
    /\ \A c \in Clients : StillSo(req[c])

IInv ==
  /\ TypeOK /\ TrailOfRows /\ NamesUnique
  /\ ParentsStand /\ LocksStand /\ ClockStands /\ ScreensStand /\ AloneStands

-----------------------------------------------------------------------------
(* Statements, requests and names.                                         *)

(* The four statements of a transaction, in their order.                   *)
LEMMA InOrderOfStatements ==
  /\ Statements[1] = "lock" /\ Statements[2] = "write"
  /\ Statements[3] = "record" /\ Statements[4] = "commit"
BY DEF Statements

(* A request that writes holds the row it writes.                          *)
LEMMA WritingHolds ==
  ASSUME NEW r, RequestOK(r), r.step \in Writing
  PROVE  r \in Writes
BY DEF RequestOK, Writing, Writes

(* The statements a transaction has run, by the one it is at.              *)
LEMMA HasRun ==
  ASSUME NEW d
  PROVE  /\ Ran(d, "lock") <=> req[d].step \in Locked
         /\ Ran(d, "write") <=> req[d].step \in Named
<1>1. \A i \in 1..4 : i = 1 \/ i = 2 \/ i = 3 \/ i = 4
  OBVIOUS
<1>2. Ran(d, "lock") <=> req[d].step \in Locked
  BY <1>1, InOrderOfStatements DEF Ran, Locked
<1>3. Ran(d, "write") <=> req[d].step \in Named
  BY <1>1, InOrderOfStatements DEF Ran, Named
<1> QED BY <1>2, <1>3

(* A request that has run one more statement, and one that got its stamp.  *)
Runs(r, s) == [r EXCEPT !.step = s]

Stamped(r, at) == [r EXCEPT !.at = at]

(* The next statement.                                                     *)
LEMMA RunsOn ==
  ASSUME NEW c, NEW record, Then(c, record)
  PROVE  /\ At(c, "lock") => Goto(c, Runs(record, "write"))
         /\ At(c, "write") => Goto(c, Runs(record, "record"))
         /\ At(c, "record") => Goto(c, Runs(record, "commit"))
<1>1. PICK i \in 1..3 : /\ req[c].step = Statements[i]
                        /\ Goto(c, [record EXCEPT !.step = Statements[i + 1]])
  BY DEF Then
<1>2. CASE i = 1
  BY <1>1, <1>2, InOrderOfStatements DEF At, Runs
<1>3. CASE i = 2
  BY <1>1, <1>3, InOrderOfStatements DEF At, Runs
<1>4. CASE i = 3
  BY <1>1, <1>4, InOrderOfStatements DEF At, Runs
<1> QED BY <1>1, <1>2, <1>3, <1>4

(* A statement takes nothing out of the hands of its request.              *)
LEMMA HandsOn ==
  ASSUME NEW r \in Writes, NEW s \in Writing
  PROVE  /\ Runs(r, s) \in Writes /\ Runs(r, s).step = s /\ Runs(r, s).id = r.id
         /\ Runs(r, s).row = r.row /\ Runs(r, s).fields = r.fields
         /\ Runs(r, s).path = r.path /\ Runs(r, s).at = r.at
<1>1. Writing = {"begin"} \cup {Statements[i] : i \in 1..4}
  BY InOrderOfStatements DEF Writing
<1> QED BY <1>1 DEF Writes, Runs

(* A stamp changes nothing of a write but its time.                        *)
LEMMA StampsOn ==
  ASSUME NEW r \in Writes, NEW at \in 0..MaxRequests
  PROVE  /\ Stamped(r, at) \in Writes /\ Stamped(r, at).at = at /\ Stamped(r, at).id = r.id
         /\ Stamped(r, at).row = r.row /\ Stamped(r, at).fields = r.fields
         /\ Stamped(r, at).path = r.path
BY DEF Writes, Stamped

(* One name is another's whichever is looked at first.                     *)
LEMMA SameKeyIsMutual ==
  ASSUME NEW i, NEW r, NEW j, NEW s
  PROVE  SameKey(i, r, j, s) <=> SameKey(j, s, i, r)
BY DEF SameKey

(* Two requests are apart whichever is looked at first.                    *)
LEMMA ApartIsMutual ==
  ASSUME NEW q, NEW r, Apart(q, r)
  PROVE  Apart(r, q)
BY SameKeyIsMutual DEF Apart

(* What a form may make of a row is a row, under the same parent.          *)
LEMMA UpdatesAreRows ==
  ASSUME NEW id, NEW row \in Row, NEW new \in Updated(id, row)
  PROVE  new \in Row /\ new.parent = row.parent
<1>1. ASSUME NEW r \in Renamed(row) PROVE r \in Row /\ r.parent = row.parent
  <2>1. PICK name \in Names, active \in BOOLEAN : r = Edited(row, name, active)
    BY <1>1 DEF Renamed
  <2> QED BY <2>1 DEF Edited, Row
<1>2. ASSUME new \in UpdatedSeason(row) PROVE new \in Row /\ new.parent = row.parent
  BY <1>1, <1>2 DEF UpdatedSeason, Row
<1> QED BY <1>1, <1>2 DEF Updated, UpdatedDrop, UpdatedModel, UpdatedType

(* A step of a client is a step of its request alone.                      *)
LEMMA OneRequestMoves ==
  ASSUME TypeOK, NEW c \in Clients, NEW next, Goto(c, next)
  PROVE  /\ DOMAIN req' = Clients /\ req'[c] = next
         /\ \A d \in Clients \ {c} : req'[d] = req[d]
BY DEF TypeOK, Goto

-----------------------------------------------------------------------------
(* Steps that leave the rows and the trail as they are.                    *)

(* The request of a client goes on, or a new one begins.                   *)
GoesOn(c) ==
  \/ ~At(c, "idle") /\ asked' = asked /\ alone' = alone
  \/ /\ At(c, "idle") /\ asked < MaxRequests /\ asked' = asked + 1
     /\ alone' = (alone /\ \A d \in Clients : At(d, "idle"))

(* Two requests that are open at a time end what is told of one.           *)
LEMMA AloneSoFar ==
  ASSUME AloneStands, NEW c \in Clients, GoesOn(c), alone'
  PROVE  alone /\ \A d \in Clients \ {c} : At(d, "idle")
BY DEF AloneStands, GoesOn

(* The types, through a step that leaves the tables alone.                 *)
LEMMA TypesStay ==
  ASSUME TypeOK, NEW c \in Clients, NEW next, Goto(c, next), RequestOK(next), GoesOn(c),
         UNCHANGED <<rows, told>>, clock' \in 0..MaxRequests, calendars' \subseteq Models
  PROVE  TypeOK'
<1>1. \A d \in Clients : RequestOK(req'[d])
  BY OneRequestMoves DEF TypeOK
<1>2. DOMAIN req' = Clients
  BY OneRequestMoves
<1>3. asked' \in 0..MaxRequests
  BY CatalogAssumption DEF TypeOK, GoesOn
<1>4. alone' \in BOOLEAN
  BY Zenon DEF TypeOK, GoesOn
<1> QED BY <1>1, <1>2, <1>3, <1>4 DEF TypeOK

(* The parents of rows and of requests, through such a step.               *)
LEMMA ParentsStay ==
  ASSUME TypeOK, ParentsStand, NEW c \in Clients, NEW next, Goto(c, next), rows' = rows,
         HasItsParent(next)
  PROVE  ParentsStand'
BY OneRequestMoves DEF ParentsStand, HasItsParent

(* The locks on rows and names, through a step to a request that is apart  *)
(* from the others.                                                        *)
LEMMA LocksStay ==
  ASSUME TypeOK, LocksStand, NEW c \in Clients, NEW next, Goto(c, next), rows' = rows,
         NameIsFree(next), \A d \in Clients \ {c} : Apart(next, req[d])
  PROVE  LocksStand'
<1>1. \A d \in Clients : NameIsFree(req'[d])
  BY OneRequestMoves DEF LocksStand
<1>2. ASSUME NEW d \in Clients, NEW e \in Clients \ {d} PROVE Apart(req'[d], req'[e])
  <2>1. CASE d = c
    BY <1>2, <2>1, OneRequestMoves
  <2>2. CASE e = c
    <3>1. Apart(next, req[d]) /\ req'[d] = req[d] /\ req'[e] = next
      BY <1>2, <2>2, OneRequestMoves
    <3> QED BY <3>1, ApartIsMutual
  <2>3. CASE d # c /\ e # c
    BY <1>2, <2>3, OneRequestMoves DEF LocksStand
  <2> QED BY <2>1, <2>2, <2>3
<1>3. \A d \in Clients : NameIsFree(req[d])'
  BY <1>1 DEF NameIsFree
<1>4. \A d \in Clients : \A e \in Clients \ {d} : Apart(req[d], req[e])'
  BY <1>2 DEF Apart
<1> QED BY <1>3, <1>4 DEF LocksStand

(* What the screens have read, through a step that tells nothing.          *)
LEMMA ScreensStay ==
  ASSUME TypeOK, ScreensStand, NEW c \in Clients, NEW next, Goto(c, next), told' = told,
         ShowsItsTrail(next)
  PROVE  ScreensStand'
BY OneRequestMoves DEF ScreensStand, ShowsItsTrail

(* What is known of the one request while alone, through a step of its     *)
(* own.                                                                    *)
LEMMA AloneStays ==
  ASSUME TypeOK, AloneStands, NEW c \in Clients, NEW next, Goto(c, next), GoesOn(c),
         UNCHANGED <<rows, told>>, alone' => StillSo(next)
  PROVE  AloneStands'
<1> SUFFICES ASSUME alone' PROVE AloneStands'
  BY DEF AloneStands
<1>1. alone /\ \A d \in Clients \ {c} : At(d, "idle")
  BY AloneSoFar
<1>2. \A d \in Clients \ {c} : At(d, "idle")'
  BY <1>1, OneRequestMoves DEF At
<1>3. \A d \in Clients : StillSo(req'[d])
  BY <1>1, OneRequestMoves DEF AloneStands
<1>4. \A d \in Clients : StillSo(req[d])'
  BY <1>3 DEF StillSo
<1>5. \A i \in DOMAIN rows' : told'[i] = Says(rows'[i], told'[i].at)
  BY <1>1 DEF AloneStands
<1> QED BY <1>2, <1>4, <1>5 DEF AloneStands

(* Who has a stamp to come is counted.                                     *)
LEMMA ToStampIsFinite ==
  /\ IsFiniteSet(ToStamp) /\ Cardinality(ToStamp) \in Nat
<1>1. IsFiniteSet(ToStamp)
  BY CatalogAssumption, FS_Subset DEF ToStamp
<1> QED BY <1>1, FS_CardinalityType

(* A step adds a request that wants a stamp only where it begins one.      *)
LEMMA StampsStay ==
  ASSUME TypeOK, NEW c \in Clients, NEW next, Goto(c, next), GoesOn(c),
         next.step \in Unstamped => req[c].step \in Unstamped \/ asked' = asked + 1
  PROVE  Cardinality(ToStamp') <= Cardinality(ToStamp) + (asked' - asked)
<1>1. PICK S, T : S = ToStamp /\ T = ToStamp'
  OBVIOUS
<1>2. IsFiniteSet(S) /\ Cardinality(S) \in Nat
  BY <1>1, ToStampIsFinite
<1>3. asked \in Nat /\ asked' \in {asked, asked + 1}
  BY DEF TypeOK, GoesOn
<1>4. CASE asked' = asked
  <2>1. T \subseteq S
    BY <1>1, <1>3, <1>4, OneRequestMoves DEF ToStamp
  <2>2. Cardinality(T) <= Cardinality(S)
    BY <1>2, <2>1, FS_Subset
  <2> QED BY <1>1, <1>2, <1>3, <1>4, <2>2, FS_CardinalityType, FS_Subset, <2>1
<1>5. CASE asked' = asked + 1
  <2>1. T \subseteq S \cup {c}
    BY <1>1, OneRequestMoves DEF ToStamp
  <2>2. IsFiniteSet(S \cup {c}) /\ Cardinality(S \cup {c}) <= Cardinality(S) + 1
    <3>1. IsFiniteSet(S \cup {c})
          /\ Cardinality(S \cup {c}) = IF c \in S THEN Cardinality(S) ELSE Cardinality(S) + 1
      BY <1>2, FS_AddElement
    <3> QED BY <1>2, <3>1
  <2>3. Cardinality(T) <= Cardinality(S \cup {c}) /\ IsFiniteSet(T)
    BY <2>1, <2>2, FS_Subset
  <2>4. Cardinality(T) \in Nat /\ Cardinality(S \cup {c}) \in Nat
    BY <2>2, <2>3, FS_CardinalityType
  <2> QED BY <1>1, <1>2, <1>3, <1>5, <2>2, <2>3, <2>4
<1> QED BY <1>3, <1>4, <1>5

(* The clock stays far enough from its bound for every stamp still         *)
(* wanted.                                                                 *)
LEMMA ClockStays ==
  ASSUME TypeOK, ClockStands, NEW c \in Clients, NEW next, Goto(c, next), GoesOn(c),
         UNCHANGED <<told, clock>>, StampIsLast(next),
         next.step \in Unstamped => req[c].step \in Unstamped \/ asked' = asked + 1
  PROVE  ClockStands'
<1>1. Cardinality(ToStamp') <= Cardinality(ToStamp) + (asked' - asked)
  BY StampsStay
<1>2. clock \in Nat /\ asked \in Nat /\ asked' \in Nat
  BY DEF TypeOK, GoesOn
<1>3. Cardinality(ToStamp) \in Nat
  BY ToStampIsFinite
<1>4. IsFiniteSet(ToStamp')
  BY CatalogAssumption, FS_Subset DEF ToStamp
<1>5. Cardinality(ToStamp') \in Nat
  BY <1>4, FS_CardinalityType
<1>6. clock' + Cardinality(ToStamp') <= asked'
  BY <1>1, <1>2, <1>3, <1>5 DEF ClockStands
<1>7. \A d \in Clients : StampIsLast(req[d])'
  BY OneRequestMoves DEF ClockStands, StampIsLast
<1>8. \A i \in DOMAIN told' : told'[i].at <= clock'
  BY DEF ClockStands
<1> QED BY <1>6, <1>7, <1>8 DEF ClockStands

(* What a request must bring along to go on with.                          *)
Fits(c, next) ==
  /\ RequestOK(next)
  /\ HasItsParent(next) /\ NameIsFree(next) /\ StampIsLast(next) /\ ShowsItsTrail(next)
  /\ \A d \in Clients \ {c} : Apart(next, req[d])
  /\ next.step \in Unstamped => req[c].step \in Unstamped \/ asked' = asked + 1
  /\ alone' => StillSo(next)

(* A step that leaves the tables alone and fits what is known keeps the    *)
(* invariant.                                                              *)
LEMMA RequestGoesOn ==
  ASSUME IInv, NEW c \in Clients, NEW next, Goto(c, next), Fits(c, next), GoesOn(c),
         UNCHANGED <<rows, told, clock>>, calendars' \subseteq Models
  PROVE  IInv'
<1>1. TypeOK'
  BY TypesStay DEF IInv, Fits, TypeOK
<1>2. ParentsStand'
  BY ParentsStay DEF IInv, Fits
<1>3. LocksStand'
  BY LocksStay DEF IInv, Fits
<1>4. ClockStands'
  BY ClockStays DEF IInv, Fits
<1>5. ScreensStand'
  BY ScreensStay DEF IInv, Fits
<1>6. AloneStands'
  BY AloneStays DEF IInv, Fits
<1>7. TrailOfRows' /\ NamesUnique'
  BY DEF IInv, TrailOfRows, NamesUnique
<1> QED BY <1>1, <1>2, <1>3, <1>4, <1>5, <1>6, <1>7 DEF IInv

-----------------------------------------------------------------------------
(* The steps outside a transaction, and those that end one.                *)

(* What a request holds at each of its steps.                              *)
LEMMA RequestHolds ==
  ASSUME NEW r, RequestOK(r)
  PROVE  /\ r.step = "offer" => r.row \in Row
         /\ r.step = "parent" => r.row \in Row /\ r.path \in BOOLEAN
         /\ r.step \in {"hold", "calendar", "card", "trail"} => r.id \in Ids
         /\ r.step = "drops" => r.seasons \subseteq Seasons /\ r.drops \subseteq Drops
<1>1. r \in Writes => r.step \in Writing
  BY InOrderOfStatements DEF Writes, Writing
<1> QED BY <1>1 DEF RequestOK, Writing

(* What asks for no row needs no lock.                                     *)
LEMMA FitsUnlocked ==
  ASSUME NEW c, NEW next, next.step \notin Locked,
         RequestOK(next), HasItsParent(next), ShowsItsTrail(next),
         next.step \in Unstamped => req[c].step \in Unstamped \/ asked' = asked + 1,
         alone' => StillSo(next)
  PROVE  Fits(c, next)
BY DEF Fits, NameIsFree, StampIsLast, Apart, Locked, Named

(* Every answer but those of a list and of a card may be given at any time.*)
LEMMA AnswerFits ==
  ASSUME NEW c, NEW answer \in Answers \ {"bare", "untold"}, NEW id \in Ids \cup {None},
         answer \in {"refused", "taken"} => id = None
  PROVE  Fits(c, Idle(answer, id))
<1> DEFINE next == Idle(answer, id)
<1>1. next.step = "idle" /\ next.answer = answer /\ next.id = id
  BY DEF Idle
<1>2. RequestOK(next)
  BY DEF Idle, RequestOK
<1> HIDE DEF next
<1>3. HasItsParent(next) /\ ShowsItsTrail(next) /\ StillSo(next)
  BY <1>1 DEF HasItsParent, ShowsItsTrail, StillSo, Writing
<1>4. Fits(c, next)
  BY <1>1, <1>2, <1>3, FitsUnlocked DEF Locked, Unstamped
<1> QED BY <1>4 DEF next

(* A write begins with the row it is to leave.                             *)
LEMMA WriteFits ==
  ASSUME NEW c, NEW id \in Ids, NEW row \in Row, NEW fields \in SUBSET Fields,
         NEW path \in BOOLEAN,
         HasParent(id, row, DOMAIN rows), path => id \in Models,
         req[c].step \in Unstamped \/ asked' = asked + 1,
         id \in DOMAIN rows => NamesItsFields([row |-> row, fields |-> fields], rows[id])
  PROVE  Fits(c, Write(id, row, fields, path))
<1> DEFINE next == Write(id, row, fields, path)
<1>1. /\ next.step = "begin" /\ next.id = id /\ next.row = row
      /\ next.fields = fields /\ next.path = path
  BY DEF Write
<1>2. RequestOK(next)
  BY CatalogAssumption DEF Write, RequestOK, Writes
<1> HIDE DEF next
<1>3. HasItsParent(next) /\ ShowsItsTrail(next) /\ StillSo(next)
  BY <1>1 DEF HasItsParent, ShowsItsTrail, StillSo, NamesItsFields
<1>4. Fits(c, next)
  BY <1>1, <1>2, <1>3, FitsUnlocked DEF Locked
<1> QED BY <1>4 DEF next

(* What a client asks for.                                                 *)
LEMMA Begins ==
  ASSUME IInv, NEW c \in Clients, NEW next, Begin(c, next),
         asked' = asked + 1 => Fits(c, next)
  PROVE  IInv'
<1>1. GoesOn(c) /\ Goto(c, next) /\ asked' = asked + 1
      /\ UNCHANGED <<rows, told, clock, calendars>>
  BY DEF Begin, GoesOn
<1>2. calendars' \subseteq Models
  BY <1>1 DEF IInv, TypeOK
<1> QED BY <1>1, <1>2, RequestGoesOn

(* A new identifier is one of the table that no row holds.                 *)
LEMMA NewIsNew ==
  ASSUME NEW table, NEW id \in New(table)
  PROVE  id \in table /\ id \notin DOMAIN rows
BY DEF New

(* A request begins.                                                       *)
LEMMA AsksKeep ==
  ASSUME IInv, NEW c \in Clients, Asks(c)
  PROVE  IInv'
<1>1. ASSUME CreateSeason(c) PROVE IInv'
  <2>1. PICK name \in Names, day \in Days \ {0}, id \in New(Seasons) :
          Begin(c, Write(id, NewSeason(name, day), {}, FALSE))
    BY <1>1 DEF CreateSeason
  <2>2. id \in Seasons /\ id \notin DOMAIN rows
    BY NewIsNew
  <2>3. NewSeason(name, day) \in Row
    BY DEF NewSeason, NewRow, Row
  <2>4. id \in Ids /\ HasParent(id, NewSeason(name, day), DOMAIN rows)
    BY <2>2, CatalogAssumption DEF HasParent, Ids
  <2> QED BY <2>1, <2>2, <2>3, <2>4, WriteFits, Begins
<1>2. ASSUME CreateType(c) PROVE IInv'
  <2>1. PICK name \in Names, id \in New(Types) :
          Begin(c, Write(id, NewType(name), {}, FALSE))
    BY <1>2 DEF CreateType
  <2>2. id \in Types /\ id \notin DOMAIN rows
    BY NewIsNew
  <2>3. NewType(name) \in Row
    BY CatalogAssumption DEF NewType, NewRow, Row, Days
  <2>4. id \in Ids /\ HasParent(id, NewType(name), DOMAIN rows)
    BY <2>2, CatalogAssumption DEF HasParent, Ids
  <2> QED BY <2>1, <2>2, <2>3, <2>4, WriteFits, Begins
<1>3. ASSUME CreateDrop(c) PROVE IInv'
  <2>1. PICK name \in Names, season \in Seasons :
          Begin(c, [step |-> "parent", row |-> NewDrop(name, season), path |-> FALSE])
    BY <1>3 DEF CreateDrop
  <2> DEFINE next == [step |-> "parent", row |-> NewDrop(name, season), path |-> FALSE]
  <2>2. next.step = "parent" /\ next.row.parent = season /\ ~next.path
    BY DEF NewDrop, NewRow
  <2>3. RequestOK(next)
    BY CatalogAssumption DEF RequestOK, NewDrop, NewRow, Row, Days, Ids
  <2>4. Begin(c, next)
    BY <2>1
  <2> HIDE DEF next
  <2>5. HasItsParent(next) /\ ShowsItsTrail(next) /\ StillSo(next)
    BY <2>2 DEF HasItsParent, ShowsItsTrail, StillSo, Writing
  <2>6. asked' = asked + 1 => Fits(c, next)
    BY <2>2, <2>3, <2>5, FitsUnlocked DEF Locked
  <2> QED BY <2>4, <2>6, Begins
<1>4. ASSUME CreateModel(c) PROVE IInv'
  <2>1. PICK article \in Names, drop \in Drops :
          Begin(c, [step |-> "offer", row |-> NewModel(article, drop)])
    BY <1>4 DEF CreateModel
  <2> DEFINE next == [step |-> "offer", row |-> NewModel(article, drop)]
  <2>2. next.step = "offer" /\ next.row.parent = drop
    BY DEF NewModel, NewRow
  <2>3. RequestOK(next)
    BY CatalogAssumption DEF RequestOK, NewModel, NewRow, Row, Days, Ids
  <2>4. Begin(c, next)
    BY <2>1
  <2> HIDE DEF next
  <2>5. HasItsParent(next) /\ ShowsItsTrail(next) /\ StillSo(next)
    BY <2>2 DEF HasItsParent, ShowsItsTrail, StillSo, Writing
  <2>6. asked' = asked + 1 => Fits(c, next)
    BY <2>2, <2>3, <2>5, FitsUnlocked DEF Locked
  <2> QED BY <2>4, <2>6, Begins
<1>5. ASSUME NEW id \in Ids, NEW step \in {"hold", "card"}, Begin(c, [step |-> step, id |-> id])
      PROVE  IInv'
  <2> DEFINE next == [step |-> step, id |-> id]
  <2>1. next.step = step
    OBVIOUS
  <2>2. RequestOK(next)
    BY DEF RequestOK
  <2>3. Begin(c, next)
    BY <1>5
  <2> HIDE DEF next
  <2>4. HasItsParent(next) /\ ShowsItsTrail(next) /\ StillSo(next)
    BY <2>1 DEF HasItsParent, ShowsItsTrail, StillSo, Writing
  <2>5. asked' = asked + 1 => Fits(c, next)
    BY <2>1, <2>2, <2>4, FitsUnlocked DEF Locked
  <2> QED BY <2>3, <2>5, Begins
<1>6. ASSUME SaveSeason(c) \/ SaveDrop(c) \/ SaveModel(c) \/ SaveType(c) PROVE IInv'
  BY <1>5, <1>6 DEF SaveSeason, SaveDrop, SaveModel, SaveType, Save, Ids
<1>7. ASSUME ShowCard(c) PROVE IInv'
  BY <1>5, <1>7 DEF ShowCard
<1>8. ASSUME ListModels(c) PROVE IInv'
  <2> DEFINE next == [step |-> "seasons"]
  <2>1. next.step = "seasons"
    OBVIOUS
  <2>2. RequestOK(next)
    BY DEF RequestOK
  <2>3. Begin(c, next)
    BY <1>8 DEF ListModels
  <2> HIDE DEF next
  <2>4. HasItsParent(next) /\ ShowsItsTrail(next) /\ StillSo(next)
    BY <2>1 DEF HasItsParent, ShowsItsTrail, StillSo, Writing
  <2>5. asked' = asked + 1 => Fits(c, next)
    BY <2>1, <2>2, <2>4, FitsUnlocked DEF Locked
  <2> QED BY <2>3, <2>5, Begins
<1>9. ASSUME Refuse(c) PROVE IInv'
  <2>1. Fits(c, Idle("refused", None))
    BY AnswerFits DEF Answers
  <2> QED BY <1>9, <2>1, Begins DEF Refuse
<1> QED BY <1>1, <1>2, <1>3, <1>4, <1>6, <1>7, <1>8, <1>9 DEF Asks

-----------------------------------------------------------------------------
(* What the server does about it, until it writes.                         *)

(* A step of a request that is open.                                       *)
LEMMA Serving ==
  ASSUME IInv, NEW c \in Clients, NEW next, ~At(c, "idle"), Goto(c, next), Fits(c, next),
         UNCHANGED <<rows, told, clock, asked, alone>>, calendars' \subseteq Models
  PROVE  IInv'
<1>1. GoesOn(c)
  BY DEF GoesOn
<1> QED BY <1>1, RequestGoesOn

(* One that gives an answer.                                               *)
LEMMA Answering ==
  ASSUME IInv, NEW c \in Clients, ~At(c, "idle"),
         NEW answer \in Answers \ {"bare", "untold"}, NEW id \in Ids \cup {None},
         answer \in {"refused", "taken"} => id = None, Goto(c, Idle(answer, id)),
         UNCHANGED <<rows, told, calendars, clock, asked, alone>>
  PROVE  IInv'
<1>1. Fits(c, Idle(answer, id))
  BY AnswerFits
<1>2. calendars' \subseteq Models
  BY DEF IInv, TypeOK
<1> QED BY <1>1, <1>2, Serving

(* A request fails.                                                        *)
LEMMA FailKeeps ==
  ASSUME IInv, NEW c \in Clients, Fail(c)
  PROVE  IInv'
<1>1. ~At(c, "idle") /\ Goto(c, Idle("failed", None))
  BY DEF Fail, Answer
<1>2. calendars' = calendars
  BY DEF Fail
<1>3. UNCHANGED <<rows, told, calendars, clock, asked, alone>>
  BY <1>2 DEF Fail
<1> QED BY <1>1, <1>3, Answering DEF Answers

(* The database ends a transaction that waits for another.                 *)
LEMMA DeadlockedKeeps ==
  ASSUME IInv, NEW c \in Clients, Deadlocked(c)
  PROVE  IInv'
<1>1. PICK e : WaitsFor(c, e)
  BY DEF Deadlocked
<1>2. ~At(c, "idle")
  BY <1>1 DEF WaitsFor, RowHeld, NameHeld, At
<1>3. Goto(c, Idle("failed", None)) /\ UNCHANGED <<rows, told, calendars, clock, asked, alone>>
  BY DEF Deadlocked, Answer
<1> QED BY <1>2, <1>3, Answering DEF Answers

(* A new model reads the templates it may start with.                      *)
LEMMA OfferPathsKeeps ==
  ASSUME IInv, NEW c \in Clients, OfferPaths(c)
  PROVE  IInv'
<1>1. req[c].step = "offer" /\ UNCHANGED <<rows, told, calendars, clock, asked, alone>>
  BY DEF OfferPaths, At
<1>2. ~At(c, "idle") /\ RequestOK(req[c]) /\ HasItsParent(req[c])
  BY <1>1 DEF At, IInv, TypeOK, ParentsStand
<1>3. CASE Goto(c, Idle("refused", None))
  BY <1>1, <1>2, <1>3, Answering DEF Answers
<1>4. ASSUME NEW path \in BOOLEAN,
             Goto(c, [step |-> "parent", row |-> req[c].row, path |-> path])
      PROVE  IInv'
  <2> DEFINE next == [step |-> "parent", row |-> req[c].row, path |-> path]
  <2>1. next.step = "parent" /\ next.row.parent \in Drops
    BY <1>1, <1>2 DEF HasItsParent
  <2>2. RequestOK(next)
    BY <1>1, <1>2, RequestHolds DEF RequestOK
  <2>3. Goto(c, next)
    BY <1>4
  <2> HIDE DEF next
  <2>4. HasItsParent(next) /\ ShowsItsTrail(next) /\ StillSo(next)
    BY <2>1 DEF HasItsParent, ShowsItsTrail, StillSo, Writing
  <2>5. req[c].step \in Unstamped
    BY <1>1 DEF Unstamped
  <2>6. Fits(c, next)
    BY <2>1, <2>2, <2>4, <2>5, FitsUnlocked DEF Locked
  <2>7. calendars' \subseteq Models
    BY <1>1 DEF IInv, TypeOK
  <2> QED BY <1>1, <1>2, <2>3, <2>6, <2>7, Serving
<1> QED BY <1>3, <1>4 DEF OfferPaths, Answer

(* A create reads its parent.                                              *)
LEMMA HoldParentKeeps ==
  ASSUME IInv, NEW c \in Clients, HoldParent(c)
  PROVE  IInv'
<1> DEFINE row   == req[c].row
           table == IF row.parent \in Seasons THEN Drops ELSE Models
<1>1. req[c].step = "parent" /\ UNCHANGED <<rows, told, calendars, clock, asked, alone>>
  BY DEF HoldParent, At
<1>2. ~At(c, "idle") /\ RequestOK(req[c]) /\ HasItsParent(req[c])
  BY <1>1 DEF At, IInv, TypeOK, ParentsStand
<1>3. ASSUME NEW answer \in {"refused", "failed"}, Goto(c, Idle(answer, None)) PROVE IInv'
  BY <1>1, <1>2, <1>3, Answering DEF Answers
<1>4. ASSUME row.parent \in DOMAIN rows, NEW id \in New(table),
             Goto(c, Write(id, row, {}, req[c].path))
      PROVE  IInv'
  <2>1. id \in table /\ id \notin DOMAIN rows
    BY <1>4, NewIsNew
  <2>2. row \in Row /\ req[c].path \in BOOLEAN
    BY <1>1, <1>2, RequestHolds
  <2>3. HasParent(id, row, DOMAIN rows) /\ (req[c].path => id \in Models)
    BY <1>1, <1>2, <1>4, <2>1, CatalogAssumption DEF HasItsParent, HasParent
  <2>4. req[c].step \in Unstamped
    BY <1>1 DEF Unstamped
  <2>5. id \in Ids
    BY <2>1 DEF Ids
  <2>6. Fits(c, Write(id, row, {}, req[c].path))
    BY <2>1, <2>2, <2>3, <2>4, <2>5, WriteFits
  <2>7. calendars' \subseteq Models
    BY <1>1 DEF IInv, TypeOK
  <2> QED BY <1>1, <1>2, <1>4, <2>6, <2>7, Serving
<1> QED BY <1>3, <1>4 DEF HoldParent, Answer

(* A save reads its row.                                                   *)
LEMMA HoldRowKeeps ==
  ASSUME IInv, NEW c \in Clients, HoldRow(c)
  PROVE  IInv'
<1> DEFINE id == req[c].id
<1>1. req[c].step = "hold" /\ UNCHANGED <<rows, told, calendars, clock, asked, alone>>
  BY DEF HoldRow, At
<1>2. ~At(c, "idle") /\ RequestOK(req[c])
  BY <1>1 DEF At, IInv, TypeOK
<1>3. id \in Ids
  BY <1>1, <1>2, RequestHolds
<1>4. CASE Goto(c, Idle("missing", None))
  BY <1>1, <1>2, <1>4, Answering DEF Answers
<1>5. CASE Goto(c, Idle("saved", id))
  BY <1>1, <1>2, <1>3, <1>5, Answering DEF Answers
<1>6. ASSUME id \in DOMAIN rows, NEW new \in Updated(id, rows[id]),
             Goto(c, Write(id, new, Moved(rows[id], new), FALSE))
      PROVE  IInv'
  <2>1. rows[id] \in Row /\ HasParent(id, rows[id], DOMAIN rows)
    BY <1>6 DEF IInv, TypeOK, ParentsStand
  <2>2. new \in Row /\ new.parent = rows[id].parent
    BY <1>6, <2>1, UpdatesAreRows
  <2>3. HasParent(id, new, DOMAIN rows)
    BY <2>1, <2>2 DEF HasParent
  <2>4. Moved(rows[id], new) \in SUBSET Fields
    BY DEF Moved
  <2>5. NamesItsFields([row |-> new, fields |-> Moved(rows[id], new)], rows[id])
    BY DEF NamesItsFields, Moved, Fields
  <2>6. req[c].step \in Unstamped
    BY <1>1 DEF Unstamped
  <2>7. Fits(c, Write(id, new, Moved(rows[id], new), FALSE))
    BY <1>3, <2>2, <2>3, <2>4, <2>5, <2>6, WriteFits
  <2>8. calendars' \subseteq Models
    BY <1>1 DEF IInv, TypeOK
  <2> QED BY <1>1, <1>2, <1>6, <2>7, <2>8, Serving
<1> QED BY <1>4, <1>5, <1>6 DEF HoldRow, Answer

(* A new model is given its calendar.                                      *)
LEMMA StartCalendarKeeps ==
  ASSUME IInv, NEW c \in Clients, StartCalendar(c)
  PROVE  IInv'
<1>1. req[c].step = "calendar" /\ Goto(c, Idle("saved", req[c].id))
      /\ UNCHANGED <<rows, told, clock, asked, alone>>
  BY DEF StartCalendar, At
<1>2. ~At(c, "idle") /\ req[c].id \in Models
  BY <1>1 DEF At, IInv, ParentsStand, HasItsParent
<1>3. calendars' \subseteq Models
  BY <1>2 DEF StartCalendar, IInv, TypeOK
<1>4. Fits(c, Idle("saved", req[c].id))
  BY <1>2, AnswerFits DEF Answers, Ids
<1> QED BY <1>1, <1>2, <1>3, <1>4, Serving

-----------------------------------------------------------------------------
(* Lists and cards.                                                        *)

(* A request that writes nothing goes on to read.                          *)
LEMMA Reading ==
  ASSUME IInv, NEW c \in Clients, NEW next, ~At(c, "idle"), Goto(c, next),
         next.step \in {"drops", "trail", "idle"}, RequestOK(next), ShowsItsTrail(next),
         alone => StillSo(next),
         UNCHANGED <<rows, told, calendars, clock, asked, alone>>
  PROVE  IInv'
<1>1. HasItsParent(next)
  BY DEF HasItsParent, Writing
<1>2. Fits(c, next)
  BY <1>1, FitsUnlocked DEF Locked, Unstamped
<1>3. calendars' \subseteq Models
  BY DEF IInv, TypeOK
<1> QED BY <1>2, <1>3, Serving

(* A list reads the seasons.                                               *)
LEMMA ReadSeasonsKeeps ==
  ASSUME IInv, NEW c \in Clients, ReadSeasons(c)
  PROVE  IInv'
<1> DEFINE next == Groups(DOMAIN rows \cap Seasons, {})
<1>1. /\ next.step = "drops" /\ next.seasons = DOMAIN rows \cap Seasons /\ next.drops = {}
      /\ RequestOK(next)
  BY DEF Groups, RequestOK
<1>2. ~At(c, "idle") /\ Goto(c, next) /\ UNCHANGED <<rows, told, calendars, clock, asked, alone>>
  BY DEF ReadSeasons, At
<1> HIDE DEF next
<1>3. ShowsItsTrail(next)
  BY <1>1 DEF ShowsItsTrail
<1>4. \A d \in DOMAIN rows \cap Drops : rows[d].parent \in next.seasons
  BY <1>1 DEF IInv, ParentsStand, HasParent
<1>5. StillSo(next)
  BY <1>1, <1>4 DEF StillSo, Writing
<1> QED BY <1>1, <1>2, <1>3, <1>5, Reading

(* A list reads the drops.                                                 *)
LEMMA ReadDropsKeeps ==
  ASSUME IInv, NEW c \in Clients, ReadDrops(c)
  PROVE  IInv'
<1>1. PICK s \in req[c].seasons :
        Goto(c, Groups(req[c].seasons \ {s},
                       req[c].drops \cup {d \in DOMAIN rows \cap Drops : rows[d].parent = s}))
  BY DEF ReadDrops
<1> DEFINE next == Groups(req[c].seasons \ {s},
                       req[c].drops \cup {d \in DOMAIN rows \cap Drops : rows[d].parent = s})
<1>2. req[c].step = "drops" /\ UNCHANGED <<rows, told, calendars, clock, asked, alone>>
  BY DEF ReadDrops, At
<1>3. RequestOK(req[c])
  BY DEF IInv, TypeOK
<1>4. req[c].seasons \subseteq Seasons /\ req[c].drops \subseteq Drops
  BY <1>2, <1>3, RequestHolds
<1>5. /\ next.step = "drops" /\ next.seasons = req[c].seasons \ {s}
      /\ next.drops = req[c].drops \cup {d \in DOMAIN rows \cap Drops : rows[d].parent = s}
  BY DEF Groups
<1>6. RequestOK(next)
  BY <1>4 DEF Groups, RequestOK
<1>7. Goto(c, next)
  BY <1>1
<1> HIDE DEF next
<1>8. alone => StillSo(next)
  BY <1>2, <1>5 DEF IInv, AloneStands, StillSo, Writing
<1>9. ShowsItsTrail(next) /\ ~At(c, "idle")
  BY <1>2, <1>5 DEF ShowsItsTrail, At
<1> QED BY <1>2, <1>5, <1>6, <1>7, <1>8, <1>9, Reading

(* A list reads the models.                                                *)
LEMMA ReadModelsKeeps ==
  ASSUME IInv, NEW c \in Clients, ReadModels(c)
  PROVE  IInv'
<1>1. PICK kept \in SUBSET (DOMAIN rows \cap Models) :
        Answer(c, IF \A m \in kept : rows[m].parent \in req[c].drops THEN "shown" ELSE "bare")
  BY DEF ReadModels
<1>2. PICK answer : answer = IF \A m \in kept : rows[m].parent \in req[c].drops
                             THEN "shown" ELSE "bare"
  OBVIOUS
<1>3. /\ req[c].step = "drops" /\ req[c].seasons = {}
      /\ UNCHANGED <<rows, told, calendars, clock, asked, alone>>
  BY DEF ReadModels, At
<1>4. ASSUME alone PROVE answer = "shown"
  <2>1. \A m \in kept : rows[m].parent \in DOMAIN rows \cap Drops
    BY DEF IInv, ParentsStand, HasParent
  <2>2. DOMAIN rows \cap Drops \subseteq req[c].drops
    BY <1>3, <1>4 DEF IInv, AloneStands, StillSo
  <2> QED BY <1>2, <2>1, <2>2
<1> DEFINE next == Idle(answer, None)
<1>5. next.step = "idle" /\ next.answer = answer /\ RequestOK(next) /\ answer \in {"shown", "bare"}
  BY <1>2 DEF Idle, RequestOK, Answers
<1>6. Goto(c, next)
  BY <1>1, <1>2 DEF Answer
<1> HIDE DEF next
<1>7. ShowsItsTrail(next) /\ (alone => StillSo(next)) /\ ~At(c, "idle")
  BY <1>3, <1>4, <1>5 DEF ShowsItsTrail, StillSo, Writing, At
<1> QED BY <1>3, <1>5, <1>6, <1>7, Reading

(* A card reads its row.                                                   *)
LEMMA ReadCardKeeps ==
  ASSUME IInv, NEW c \in Clients, ReadCard(c)
  PROVE  IInv'
<1> DEFINE id == req[c].id
<1>1. req[c].step = "card" /\ UNCHANGED <<rows, told, calendars, clock, asked, alone>>
  BY DEF ReadCard, At
<1>2. ~At(c, "idle") /\ RequestOK(req[c])
  BY <1>1 DEF At, IInv, TypeOK
<1>3. CASE Goto(c, Idle("missing", None))
  BY <1>1, <1>2, <1>3, Answering DEF Answers
<1>4. CASE id \in DOMAIN rows /\ Goto(c, [step |-> "trail", id |-> id, at |-> told[id].at])
  <2> DEFINE next == [step |-> "trail", id |-> id, at |-> told[id].at]
  <2>1. id \in DOMAIN told /\ told[id].at \in 0..MaxRequests
    BY <1>4 DEF IInv, TrailOfRows, TypeOK, Told
  <2>2. next.step = "trail" /\ next.id = id /\ next.at = told[id].at
    OBVIOUS
  <2>3. RequestOK(next)
    BY <1>1, <1>2, <2>1, RequestHolds DEF RequestOK
  <2>4. Goto(c, next)
    BY <1>4
  <2> HIDE DEF next
  <2>5. ShowsItsTrail(next) /\ StillSo(next)
    BY <2>1, <2>2 DEF ShowsItsTrail, StillSo, Writing
  <2> QED BY <1>1, <1>2, <2>2, <2>3, <2>4, <2>5, Reading
<1> QED BY <1>3, <1>4 DEF ReadCard

(* A card reads its trail.                                                 *)
LEMMA ReadTrailKeeps ==
  ASSUME IInv, NEW c \in Clients, ReadTrail(c)
  PROVE  IInv'
<1>1. req[c].step = "trail" /\ UNCHANGED <<rows, told, calendars, clock, asked, alone>>
  BY DEF ReadTrail, At
<1>2. ~At(c, "idle") /\ RequestOK(req[c])
  BY <1>1 DEF At, IInv, TypeOK
<1>3. req[c].id \in DOMAIN told /\ req[c].at <= told[req[c].id].at
  BY <1>1 DEF IInv, ScreensStand, ShowsItsTrail
<1>4. req[c].at \in 0..MaxRequests /\ told[req[c].id].at \in 0..MaxRequests
  <2>1. told[req[c].id].at \in 0..MaxRequests
    BY <1>3 DEF IInv, TypeOK, Told
  <2>2. req[c].at \in 0..MaxRequests
    BY <1>1, <1>2, InOrderOfStatements DEF RequestOK, Writes
  <2> QED BY <2>1, <2>2
<1>5. Goto(c, Idle("shown", None))
  BY <1>3, <1>4 DEF ReadTrail, Answer
<1> QED BY <1>1, <1>2, <1>5, Answering DEF Answers

-----------------------------------------------------------------------------
(* The transaction, one statement after the other.                         *)

(* A statement that is run changes where a request stands, and no more.    *)
LEMMA TakesAlong ==
  ASSUME NEW r \in Writes, HasItsParent(r), alone => StillSo(r), NEW next \in Writes,
         r.step \in Writing, next.step \in Writing, next.id = r.id, next.row = r.row,
         next.fields = r.fields, next.path = r.path
  PROVE  /\ RequestOK(next) /\ HasItsParent(next) /\ ShowsItsTrail(next)
         /\ alone => StillSo(next)
<1>1. RequestOK(next)
  BY DEF RequestOK
<1>2. HasItsParent(next)
  BY DEF HasItsParent, Writing
<1>3. ShowsItsTrail(next)
  BY DEF ShowsItsTrail, Writing
<1>4. alone => StillSo(next)
  BY DEF StillSo, NamesItsFields, Writing
<1> QED BY <1>1, <1>2, <1>3, <1>4

(* What is known of a request that writes.                                 *)
LEMMA InHand ==
  ASSUME IInv, NEW c \in Clients, req[c].step \in Writing
  PROVE  /\ req[c] \in Writes /\ HasItsParent(req[c]) /\ (alone => StillSo(req[c]))
         /\ ~At(c, "idle") /\ calendars \subseteq Models
         /\ StampIsLast(req[c]) /\ NameIsFree(req[c])
         /\ \A d \in Clients \ {c} : Apart(req[c], req[d])
<1>1. RequestOK(req[c])
  BY DEF IInv, TypeOK
<1>2. req[c] \in Writes
  BY <1>1, WritingHolds
<1>3. HasItsParent(req[c]) /\ (alone => StillSo(req[c]))
  BY DEF IInv, ParentsStand, AloneStands
<1>4. ~At(c, "idle") /\ calendars \subseteq Models
  BY DEF At, Writing, IInv, TypeOK
<1>5. StampIsLast(req[c]) /\ NameIsFree(req[c]) /\ \A d \in Clients \ {c} : Apart(req[c], req[d])
  BY DEF IInv, ClockStands, LocksStand
<1> QED BY <1>2, <1>3, <1>4, <1>5

(* A transaction takes a connection.                                       *)
LEMMA BeginTxKeeps ==
  ASSUME IInv, NEW c \in Clients, BeginTx(c)
  PROVE  IInv'
<1>1. /\ req[c].step = "begin" /\ Goto(c, Runs(req[c], "lock"))
      /\ UNCHANGED <<rows, told, calendars, clock, asked, alone>>
  BY InOrderOfStatements DEF BeginTx, At, Runs
<1>2. PICK next : next = Runs(req[c], "lock")
  OBVIOUS
<1>3. req[c].step \in Writing
  BY <1>1 DEF Writing
<1>4. "lock" \in Writing
  BY DEF Writing
<1>5. /\ next \in Writes /\ next.step = "lock" /\ next.id = req[c].id /\ next.row = req[c].row
      /\ next.fields = req[c].fields /\ next.path = req[c].path
  BY <1>2, <1>3, <1>4, InHand, HandsOn
<1>6. /\ RequestOK(next) /\ HasItsParent(next) /\ ShowsItsTrail(next)
      /\ alone => StillSo(next)
  BY <1>3, <1>4, <1>5, InHand, TakesAlong
<1>7. Fits(c, next)
  BY <1>1, <1>5, <1>6, FitsUnlocked DEF Locked, Unstamped
<1> QED BY <1>1, <1>2, <1>3, <1>7, InHand, Serving

(* The row of a request is no other's from here on.                        *)
LEMMA LockRowKeeps ==
  ASSUME IInv, NEW c \in Clients, LockRow(c)
  PROVE  IInv'
<1>1. /\ req[c].step = "lock" /\ At(c, "lock")
      /\ UNCHANGED <<rows, told, calendars, clock, asked, alone>>
      /\ \A d \in Clients : ~WaitsFor(c, d)
  BY DEF LockRow, At
<1>2. PICK next : next = Runs(req[c], "write") /\ Goto(c, next)
  BY <1>1, RunsOn DEF LockRow
<1>3. req[c].step \in Writing
  BY <1>1 DEF Writing
<1>4. "write" \in Writing
  BY DEF Writing
<1>5. /\ next \in Writes /\ next.step = "write" /\ next.id = req[c].id /\ next.row = req[c].row
      /\ next.fields = req[c].fields /\ next.path = req[c].path
  BY <1>2, <1>3, <1>4, InHand, HandsOn
<1>6. /\ RequestOK(next) /\ HasItsParent(next) /\ ShowsItsTrail(next)
      /\ alone => StillSo(next)
  BY <1>3, <1>4, <1>5, InHand, TakesAlong
<1>7. \A d \in Clients \ {c} : Apart(next, req[d])
  <2> SUFFICES ASSUME NEW d \in Clients \ {c}, req[d].step \in Locked PROVE req[d].id # next.id
    BY <1>5 DEF Apart, Named
  <2>1. ~RowHeld(c, d) /\ Ran(d, "lock")
    BY <1>1, HasRun DEF WaitsFor
  <2> QED BY <1>1, <1>5, <2>1 DEF RowHeld
<1>8. Fits(c, next)
  BY <1>1, <1>5, <1>6, <1>7 DEF Fits, NameIsFree, StampIsLast, Named, Unstamped
<1> QED BY <1>1, <1>2, <1>3, <1>8, InHand, Serving

(* Nor is the name: no row has it, and no open transaction gives it.       *)
LEMMA WriteNameKeeps ==
  ASSUME IInv, NEW c \in Clients, WriteName(c)
  PROVE  IInv'
<1>1. /\ req[c].step = "write" /\ At(c, "write")
      /\ UNCHANGED <<rows, told, calendars, clock, asked, alone>>
      /\ \A d \in Clients : ~WaitsFor(c, d)
  BY DEF WriteName, At
<1>2. req[c].step \in Writing
  BY <1>1 DEF Writing
<1>3. CASE Goto(c, Idle("taken", None))
  BY <1>1, <1>2, <1>3, InHand, Answering DEF Answers
<1>4. ASSUME \A j \in DOMAIN rows \ {req[c].id} : ~SameKey(req[c].id, req[c].row, j, rows[j]),
             Then(c, req[c])
      PROVE  IInv'
  <2>1. PICK next : next = Runs(req[c], "record") /\ Goto(c, next)
    BY <1>1, <1>4, RunsOn
  <2>2. "record" \in Writing
    BY DEF Writing
  <2>3. /\ next \in Writes /\ next.step = "record" /\ next.id = req[c].id
        /\ next.row = req[c].row /\ next.fields = req[c].fields /\ next.path = req[c].path
    BY <1>2, <2>1, <2>2, InHand, HandsOn
  <2>4. /\ RequestOK(next) /\ HasItsParent(next) /\ ShowsItsTrail(next)
        /\ alone => StillSo(next)
    BY <1>2, <2>2, <2>3, InHand, TakesAlong
  <2>5. \A d \in Clients \ {c} : Apart(next, req[d])
    <3> TAKE d \in Clients \ {c}
    <3>1. req[d].step \in Locked => next.id # req[d].id
      BY <1>1, <1>2, <2>3, InHand DEF Apart, Locked
    <3>2. ASSUME req[d].step \in Named PROVE ~SameKey(next.id, next.row, req[d].id, req[d].row)
      <4>1. ~NameHeld(c, d) /\ Ran(d, "lock") /\ Ran(d, "write")
        BY <1>1, <3>2, HasRun DEF WaitsFor, Locked, Named
      <4>2. req[d].id # req[c].id
        BY <2>3, <3>1, <3>2 DEF Locked, Named
      <4> QED BY <1>1, <2>3, <4>1, <4>2 DEF NameHeld
    <3> QED BY <3>1, <3>2 DEF Apart
  <2>6. NameIsFree(next)
    BY <1>4, <2>3 DEF NameIsFree
  <2>7. Fits(c, next)
    BY <1>1, <2>3, <2>4, <2>5, <2>6 DEF Fits, StampIsLast, Unstamped
  <2> QED BY <1>1, <1>2, <2>1, <2>7, InHand, Serving
<1> QED BY <1>3, <1>4 DEF WriteName, Answer

(* The stamp is later than all there are.                                  *)
LEMMA RecordTrailKeeps ==
  ASSUME IInv, NEW c \in Clients, RecordTrail(c)
  PROVE  IInv'
<1>1. /\ req[c].step = "record" /\ At(c, "record") /\ clock' = clock + 1
      /\ UNCHANGED <<rows, told, calendars, asked, alone>>
  BY DEF RecordTrail, At
<1>2. PICK next : next = Runs(Stamped(req[c], clock + 1), "commit") /\ Goto(c, next)
  BY <1>1, RunsOn DEF RecordTrail, Stamped
<1>3. req[c].step \in Writing /\ "commit" \in Writing
  BY <1>1 DEF Writing
<1>4. clock \in Nat /\ asked \in Nat /\ MaxRequests \in Nat /\ asked <= MaxRequests
  BY CatalogAssumption DEF IInv, TypeOK
<1>5. clock + 1 \in 0..MaxRequests
  <2>1. PICK S : S = ToStamp
    OBVIOUS
  <2>2. IsFiniteSet(S) /\ Cardinality(S) \in Nat /\ c \in S
    BY <1>1, <2>1, ToStampIsFinite DEF ToStamp, Unstamped
  <2>3. Cardinality(S) # 0
    BY <2>2, FS_EmptySet
  <2> QED BY <1>4, <2>1, <2>2, <2>3 DEF IInv, ClockStands
<1>6. /\ next \in Writes /\ next.step = "commit" /\ next.id = req[c].id
      /\ next.row = req[c].row /\ next.fields = req[c].fields /\ next.path = req[c].path
      /\ next.at = clock + 1
  <2>1. PICK stamped : stamped = Stamped(req[c], clock + 1)
    OBVIOUS
  <2>2. /\ stamped \in Writes /\ stamped.id = req[c].id /\ stamped.row = req[c].row
        /\ stamped.fields = req[c].fields /\ stamped.path = req[c].path /\ stamped.at = clock + 1
    BY <1>3, <1>5, <2>1, InHand, StampsOn
  <2> QED BY <1>2, <1>3, <2>1, <2>2, HandsOn
<1>7. Cardinality(ToStamp') + 1 = Cardinality(ToStamp) /\ Cardinality(ToStamp') \in Nat
  <2>1. PICK S, T : S = ToStamp /\ T = ToStamp'
    OBVIOUS
  <2>2. IsFiniteSet(S) /\ Cardinality(S) \in Nat /\ c \in S
    BY <1>1, <2>1, ToStampIsFinite DEF ToStamp, Unstamped
  <2>3. TypeOK /\ req'[c] = next /\ \A d \in Clients \ {c} : req'[d] = req[d]
    BY <1>2, OneRequestMoves DEF IInv
  <2>4. T = S \ {c}
    BY <1>6, <2>1, <2>3 DEF ToStamp, Unstamped
  <2>5. IsFiniteSet(T) /\ Cardinality(T) = Cardinality(S) - 1
    BY <2>2, <2>4, FS_RemoveElement
  <2>6. Cardinality(T) \in Nat
    BY <2>5, FS_CardinalityType
  <2> QED BY <2>1, <2>2, <2>5, <2>6
<1>8. clock' + Cardinality(ToStamp') <= asked'
  <2>1. Cardinality(ToStamp) \in Nat
    BY ToStampIsFinite
  <2> QED BY <1>1, <1>4, <1>7, <2>1 DEF IInv, ClockStands
<1>9. /\ RequestOK(next) /\ HasItsParent(next) /\ ShowsItsTrail(next)
      /\ alone => StillSo(next)
  BY <1>3, <1>6, InHand, TakesAlong
<1>10. GoesOn(c)
  BY <1>1, <1>3, InHand DEF GoesOn
<1>11. TypeOK'
  <2>1. clock' \in 0..MaxRequests /\ calendars' \subseteq Models
    BY <1>1, <1>3, <1>5, InHand
  <2> QED BY <1>1, <1>2, <1>9, <1>10, <2>1, TypesStay DEF IInv
<1>12. ParentsStand'
  BY <1>1, <1>2, <1>9, ParentsStay DEF IInv
<1>13. LocksStand'
  <2>1. NameIsFree(next)
    BY <1>1, <1>3, <1>6, InHand DEF NameIsFree, Named
  <2>2. \A d \in Clients \ {c} : Apart(next, req[d])
    BY <1>1, <1>3, <1>6, InHand DEF Apart, Named, Locked
  <2> QED BY <1>1, <1>2, <2>1, <2>2, LocksStay DEF IInv
<1>14. ScreensStand'
  BY <1>1, <1>2, <1>9, ScreensStay DEF IInv
<1>15. AloneStands'
  BY <1>1, <1>2, <1>9, <1>10, AloneStays DEF IInv
<1>16. ClockStands'
  <2>1. \A i \in DOMAIN told : told[i].at \in Nat /\ told[i].at <= clock
    BY DEF IInv, TypeOK, Told, ClockStands
  <2>2. \A i \in DOMAIN told' : told'[i].at <= clock'
    BY <1>1, <1>4, <2>1
  <2>3. ASSUME NEW d \in Clients, req'[d].step = "commit"
        PROVE  /\ 0 < req'[d].at /\ req'[d].at <= clock'
               /\ req'[d].id \in DOMAIN told' => told'[req'[d].id].at < req'[d].at
    <3>1. CASE d = c
      <4>1. req'[d] = next
        BY <1>2, <3>1, OneRequestMoves DEF IInv
      <4> QED BY <1>1, <1>4, <1>6, <2>1, <4>1
    <3>2. CASE d # c
      <4>1. req'[d] = req[d]
        BY <1>2, <3>2, OneRequestMoves DEF IInv
      <4>2. StampIsLast(req[d]) /\ RequestOK(req[d])
        BY DEF IInv, ClockStands, TypeOK
      <4>3. req[d].at \in 0..MaxRequests
        BY <2>3, <4>1, <4>2, WritingHolds DEF Writing, Writes
      <4> QED BY <1>1, <1>4, <2>3, <4>1, <4>2, <4>3 DEF StampIsLast
    <3> QED BY <3>1, <3>2
  <2>4. \A d \in Clients : StampIsLast(req[d])'
    BY <2>3 DEF StampIsLast
  <2> QED BY <1>8, <2>2, <2>4 DEF ClockStands
<1>17. TrailOfRows' /\ NamesUnique'
  BY <1>1 DEF IInv, TrailOfRows, NamesUnique
<1> QED BY <1>11, <1>12, <1>13, <1>14, <1>15, <1>16, <1>17 DEF IInv

-----------------------------------------------------------------------------
(* The commit.                                                             *)

(* What is said of a row when it is written, and of no other row.          *)
LEMMA SaysOfOne ==
  ASSUME TypeOK, NEW id \in Ids, NEW row \in Row, NEW fields \in SUBSET Fields,
         NEW at \in 0..MaxRequests
  PROVE  /\ DOMAIN SaysNow(id, row, fields, at) = DOMAIN told \cup {id}
         /\ \A i \in DOMAIN told \ {id} : SaysNow(id, row, fields, at)[i] = told[i]
         /\ SaysNow(id, row, fields, at)[id] \in Told
         /\ SaysNow(id, row, fields, at)[id].at = at
<1> DEFINE said == SaysNow(id, row, fields, at)
<1>1. DOMAIN said = DOMAIN told \cup {id} /\ \A i \in DOMAIN told \ {id} : said[i] = told[i]
  BY DEF SaysNow
<1>2. said[id] \in Told /\ said[id].at = at
  <2>1. CASE id \notin DOMAIN told
    <3>1. said[id] = Says(row, at)
      BY <2>1 DEF SaysNow
    <3> QED BY <3>1 DEF Says, Told, Row
  <2>2. CASE id \in DOMAIN told
    <3>1. said[id] =
            [name   |-> IF "name"   \in fields THEN row.name   ELSE told[id].name,
             day    |-> IF "day"    \in fields THEN row.day    ELSE told[id].day,
             active |-> IF "active" \in fields THEN row.active ELSE told[id].active,
             at     |-> at]
      BY <2>2 DEF SaysNow
    <3>2. told[id] \in Told
      BY <2>2 DEF TypeOK
    <3> HIDE DEF said
    <3> QED BY <3>1, <3>2 DEF Told, Row
  <2> QED BY <2>1, <2>2
<1> QED BY <1>1, <1>2

(* What is said of a row that was told and is written with its fields      *)
(* named, or that is new, is what it holds.                                *)
LEMMA SaysAll ==
  ASSUME NEW id, NEW row \in Row, NEW fields, NEW at,
         id \in DOMAIN told =>
           /\ NamesItsFields([row |-> row, fields |-> fields], rows[id])
           /\ told[id] = Says(rows[id], told[id].at)
  PROVE  SaysNow(id, row, fields, at)[id] = Says(row, at)
<1>1. CASE id \notin DOMAIN told
  BY <1>1 DEF SaysNow
<1>2. CASE id \in DOMAIN told
  <2>1. SaysNow(id, row, fields, at)[id] =
          [name   |-> IF "name"   \in fields THEN row.name   ELSE told[id].name,
           day    |-> IF "day"    \in fields THEN row.day    ELSE told[id].day,
           active |-> IF "active" \in fields THEN row.active ELSE told[id].active,
           at     |-> at]
    BY <1>2 DEF SaysNow
  <2>2. /\ "name"   \notin fields => row.name   = told[id].name
        /\ "day"    \notin fields => row.day    = told[id].day
        /\ "active" \notin fields => row.active = told[id].active
    BY <1>2 DEF NamesItsFields, Says
  <2> QED BY <2>1, <2>2 DEF Says
<1> QED BY <1>1, <1>2

(* The row of one request is committed with its entries.                   *)
LEMMA Commits ==
  ASSUME IInv, NEW c \in Clients, CommitTx(c)
  PROVE  /\ req[c].step = "commit" /\ req[c] \in Writes
         /\ DOMAIN rows' = DOMAIN rows \cup {req[c].id} /\ rows'[req[c].id] = req[c].row
         /\ \A i \in DOMAIN rows \ {req[c].id} : rows'[i] = rows[i]
         /\ DOMAIN told' = DOMAIN told \cup {req[c].id}
         /\ \A i \in DOMAIN told \ {req[c].id} : told'[i] = told[i]
         /\ told'[req[c].id] \in Told /\ told'[req[c].id].at = req[c].at
         /\ told' = SaysNow(req[c].id, req[c].row, req[c].fields, req[c].at)
         /\ Goto(c, IF req[c].path THEN [step |-> "calendar", id |-> req[c].id]
                                  ELSE Idle("saved", req[c].id))
         /\ UNCHANGED <<calendars, clock, asked, alone>>
<1>1. req[c].step = "commit" /\ UNCHANGED <<calendars, clock, asked, alone>>
  BY DEF CommitTx, At
<1>2. req[c] \in Writes
  BY <1>1, InHand DEF Writing
<1>3. told' = SaysNow(req[c].id, req[c].row, req[c].fields, req[c].at)
  BY DEF CommitTx
<1>4. /\ req[c].id \in Ids /\ req[c].row \in Row /\ req[c].fields \in SUBSET Fields
      /\ req[c].at \in 0..MaxRequests
  BY <1>2 DEF Writes
<1>5. /\ DOMAIN told' = DOMAIN told \cup {req[c].id}
      /\ \A i \in DOMAIN told \ {req[c].id} : told'[i] = told[i]
      /\ told'[req[c].id] \in Told /\ told'[req[c].id].at = req[c].at
  <2>1. PICK id, row, fields, at : /\ id = req[c].id /\ row = req[c].row
                                   /\ fields = req[c].fields /\ at = req[c].at
    OBVIOUS
  <2>2. /\ TypeOK /\ id \in Ids /\ row \in Row /\ fields \in SUBSET Fields
        /\ at \in 0..MaxRequests
    BY <1>4, <2>1 DEF IInv
  <2>3. PICK said : said = SaysNow(id, row, fields, at)
    OBVIOUS
  <2>4. /\ DOMAIN said = DOMAIN told \cup {id}
        /\ \A i \in DOMAIN told \ {id} : said[i] = told[i]
        /\ said[id] \in Told /\ said[id].at = at
    <3>1. /\ DOMAIN SaysNow(id, row, fields, at) = DOMAIN told \cup {id}
          /\ \A i \in DOMAIN told \ {id} : SaysNow(id, row, fields, at)[i] = told[i]
          /\ SaysNow(id, row, fields, at)[id] \in Told
          /\ SaysNow(id, row, fields, at)[id].at = at
      BY <2>2, SaysOfOne, Zenon
    <3> QED BY <2>3, <3>1, Zenon
  <2> QED BY <1>3, <2>1, <2>3, <2>4
<1>6. /\ DOMAIN rows' = DOMAIN rows \cup {req[c].id} /\ rows'[req[c].id] = req[c].row
      /\ \A i \in DOMAIN rows \ {req[c].id} : rows'[i] = rows[i]
  BY DEF CommitTx
<1>7. Goto(c, IF req[c].path THEN [step |-> "calendar", id |-> req[c].id]
                             ELSE Idle("saved", req[c].id))
  BY DEF CommitTx
<1> QED BY <1>1, <1>2, <1>3, <1>5, <1>6, <1>7

(* Names are unique before and after.                                      *)
LEMMA UniqueMeans ==
  /\ NamesUnique <=> \A i, j \in DOMAIN rows : SameKey(i, rows[i], j, rows[j]) => i = j
  /\ NamesUnique' <=> \A i, j \in DOMAIN rows' : SameKey(i, rows'[i], j, rows'[j]) => i = j
BY DEF NamesUnique, SameKey

(* A transaction commits.                                                  *)
LEMMA CommitTxKeeps ==
  ASSUME IInv, NEW c \in Clients, CommitTx(c)
  PROVE  IInv'
<1>1. PICK r : r = req[c]
  OBVIOUS
<1>2. PICK next : next = IF r.path THEN [step |-> "calendar", id |-> r.id] ELSE Idle("saved", r.id)
  OBVIOUS
<1>3. /\ r.step = "commit" /\ r \in Writes
      /\ DOMAIN rows' = DOMAIN rows \cup {r.id} /\ rows'[r.id] = r.row
      /\ \A i \in DOMAIN rows \ {r.id} : rows'[i] = rows[i]
      /\ DOMAIN told' = DOMAIN told \cup {r.id}
      /\ \A i \in DOMAIN told \ {r.id} : told'[i] = told[i]
      /\ told'[r.id] \in Told /\ told'[r.id].at = r.at
      /\ Goto(c, next)
      /\ UNCHANGED <<calendars, clock, asked, alone>>
  BY <1>1, <1>2, Commits
<1>4. /\ DOMAIN req' = Clients /\ req'[c] = next
      /\ \A d \in Clients \ {c} : req'[d] = req[d]
  BY <1>3, OneRequestMoves DEF IInv
<1>5. /\ HasItsParent(r) /\ (alone => StillSo(r)) /\ StampIsLast(r) /\ NameIsFree(r)
      /\ \A d \in Clients \ {c} : Apart(r, req[d])
      /\ ~At(c, "idle") /\ calendars \subseteq Models
  BY <1>1, <1>3, InHand DEF Writing
<1>6. /\ r.id \in Ids /\ r.row \in Row /\ r.path \in BOOLEAN /\ r.at \in 0..MaxRequests
      /\ 0 < r.at /\ r.at <= clock
  BY <1>3, <1>5 DEF Writes, StampIsLast
<1>7. GoesOn(c)
  BY <1>3, <1>5 DEF GoesOn
<1>8. /\ next.step \in {"calendar", "idle"} /\ RequestOK(next)
      /\ next.step = "idle" => next.answer = "saved"
      /\ next.step = "calendar" => r.path /\ next.id = r.id
  <2>1. CASE r.path
    BY <1>2, <1>6, <2>1 DEF RequestOK
  <2>2. CASE ~r.path
    BY <1>2, <1>6, <2>2 DEF RequestOK, Idle, Answers
  <2> QED BY <2>1, <2>2
<1>9. TypeOK'
  <2>1. DOMAIN rows' \subseteq Ids /\ \A i \in DOMAIN rows' : rows'[i] \in Row
    BY <1>3, <1>6 DEF IInv, TypeOK
  <2>2. \A i \in DOMAIN told' : told'[i] \in Told
    BY <1>3 DEF IInv, TypeOK
  <2>3. \A i \in DOMAIN told' \ DOMAIN Held : told'[i].at > 0
    BY <1>3, <1>6 DEF IInv, TypeOK
  <2>4. \A d \in Clients : RequestOK(req'[d])
    BY <1>4, <1>8 DEF IInv, TypeOK
  <2>5. /\ calendars' \subseteq Models /\ clock' \in 0..MaxRequests
        /\ asked' \in 0..MaxRequests
    BY <1>3, <1>5 DEF IInv, TypeOK
  <2>6. alone' \in BOOLEAN
    BY <1>3 DEF IInv, TypeOK
  <2> QED BY <1>4, <2>1, <2>2, <2>3, <2>4, <2>5, <2>6 DEF TypeOK
<1>10. TrailOfRows'
  BY <1>3 DEF IInv, TrailOfRows
<1>11. NamesUnique'
  <2> SUFFICES ASSUME NEW i \in DOMAIN rows', NEW j \in DOMAIN rows',
                      SameKey(i, rows'[i], j, rows'[j])
               PROVE  i = j
    BY UniqueMeans
  <2>1. \A k \in DOMAIN rows \ {r.id} : ~SameKey(r.id, r.row, k, rows[k])
    BY <1>3, <1>5 DEF NameIsFree, Named
  <2>2. CASE i = r.id
    BY <1>3, <2>1, <2>2
  <2>3. CASE i # r.id /\ j = r.id
    BY <1>3, <2>1, <2>3, SameKeyIsMutual
  <2>4. CASE i # r.id /\ j # r.id
    BY <1>3, <2>4, UniqueMeans DEF IInv
  <2> QED BY <2>2, <2>3, <2>4
<1>12. ParentsStand'
  <2>1. \A i \in DOMAIN rows' : HasParent(i, rows'[i], DOMAIN rows')
    <3> TAKE i \in DOMAIN rows'
    <3>1. CASE i = r.id
      BY <1>3, <1>5, <3>1 DEF HasItsParent, HasParent, Writing
    <3>2. CASE i # r.id
      BY <1>3, <3>2 DEF IInv, ParentsStand, HasParent
    <3> QED BY <3>1, <3>2
  <2>2. ASSUME NEW d \in Clients PROVE HasItsParent(req[d])'
    <3>1. CASE d = c
      BY <1>3, <1>4, <1>5, <1>8, <3>1 DEF HasItsParent, Writing
    <3>2. CASE d # c
      <4>1. HasItsParent(req[d]) /\ req'[d] = req[d]
        BY <1>4, <3>2 DEF IInv, ParentsStand
      <4> QED BY <1>3, <4>1 DEF HasItsParent, HasParent
    <3> QED BY <3>1, <3>2
  <2> QED BY <2>1, <2>2 DEF ParentsStand
<1>13. LocksStand'
  <2>1. ASSUME NEW d \in Clients PROVE NameIsFree(req[d])'
    <3>1. CASE d = c
      BY <1>4, <1>8, <3>1 DEF NameIsFree, Named
    <3>2. CASE d # c
      <4>1. req'[d] = req[d] /\ NameIsFree(req[d]) /\ Apart(r, req[d])
        BY <1>4, <1>5, <3>2 DEF IInv, LocksStand
      <4>2. ASSUME req[d].step \in Named, NEW j \in DOMAIN rows' \ {req[d].id}
            PROVE  ~SameKey(req[d].id, req[d].row, j, rows'[j])
        <5>1. CASE j = r.id
          BY <1>3, <4>1, <4>2, <5>1, SameKeyIsMutual DEF Apart, Named
        <5>2. CASE j # r.id
          BY <1>3, <4>1, <4>2, <5>2 DEF NameIsFree
        <5> QED BY <5>1, <5>2
      <4> QED BY <4>1, <4>2 DEF NameIsFree
    <3> QED BY <3>1, <3>2
  <2>2. ASSUME NEW d \in Clients, NEW e \in Clients \ {d} PROVE Apart(req[d], req[e])'
    <3>1. CASE d = c \/ e = c
      BY <1>4, <1>8, <3>1 DEF Apart, Locked, Named
    <3>2. CASE d # c /\ e # c
      BY <1>4, <3>2 DEF IInv, LocksStand, Apart
    <3> QED BY <3>1, <3>2
  <2> QED BY <2>1, <2>2 DEF LocksStand
<1>14. ClockStands'
  <2>1. Cardinality(ToStamp') <= Cardinality(ToStamp) + (asked' - asked)
    BY <1>3, <1>7, <1>8, StampsStay DEF IInv, Unstamped
  <2>2. IsFiniteSet(ToStamp')
    BY CatalogAssumption, FS_Subset DEF ToStamp
  <2>3. clock' + Cardinality(ToStamp') <= asked'
    <3>1. Cardinality(ToStamp') \in Nat /\ Cardinality(ToStamp) \in Nat
      BY <2>2, FS_CardinalityType, ToStampIsFinite
    <3> QED BY <1>3, <2>1, <3>1 DEF IInv, ClockStands, TypeOK
  <2>4. \A i \in DOMAIN told' : told'[i].at <= clock'
    BY <1>3, <1>6 DEF IInv, ClockStands
  <2>5. ASSUME NEW d \in Clients PROVE StampIsLast(req[d])'
    <3>1. CASE d = c
      BY <1>4, <1>8, <3>1 DEF StampIsLast
    <3>2. CASE d # c
      <4>1. req'[d] = req[d] /\ StampIsLast(req[d]) /\ Apart(r, req[d])
        BY <1>4, <1>5, <3>2 DEF IInv, ClockStands
      <4>2. req[d].step = "commit" => req[d].id # r.id
        BY <1>3, <4>1 DEF Apart, Locked
      <4> QED BY <1>3, <4>1, <4>2 DEF StampIsLast
    <3> QED BY <3>1, <3>2
  <2> QED BY <2>3, <2>4, <2>5 DEF ClockStands
<1>15. ScreensStand'
  <2> SUFFICES ASSUME NEW d \in Clients PROVE ShowsItsTrail(req[d])'
    BY DEF ScreensStand
  <2>1. CASE d = c
    BY <1>4, <1>8, <2>1 DEF ShowsItsTrail
  <2>2. CASE d # c
    <3>1. req'[d] = req[d] /\ ShowsItsTrail(req[d]) /\ RequestOK(req[d])
      BY <1>4, <2>2 DEF IInv, ScreensStand, TypeOK
    <3>2. ASSUME req[d].step = "trail"
          PROVE  req[d].id \in DOMAIN told' /\ req[d].at <= told'[req[d].id].at
      <4>1. CASE req[d].id # r.id
        BY <1>3, <3>1, <3>2, <4>1 DEF ShowsItsTrail
      <4>2. CASE req[d].id = r.id
        <5>1. req[d].id \in DOMAIN told /\ req[d].at <= told[r.id].at /\ told[r.id].at < r.at
          BY <1>3, <1>5, <3>1, <3>2, <4>2 DEF ShowsItsTrail, StampIsLast
        <5>2. req[d].at \in 0..MaxRequests
          BY <3>1, <3>2, InOrderOfStatements DEF RequestOK, Writes
        <5>3. told[r.id].at \in 0..MaxRequests
          BY <4>2, <5>1 DEF IInv, TypeOK, Told
        <5> QED BY <1>3, <1>6, <4>2, <5>1, <5>2, <5>3
      <4> QED BY <4>1, <4>2
    <3> QED BY <3>1, <3>2 DEF ShowsItsTrail
  <2> QED BY <2>1, <2>2
<1>16. AloneStands'
  <2> SUFFICES ASSUME alone' PROVE AloneStands'
    BY DEF AloneStands
  <2>1. alone /\ \A d \in Clients \ {c} : At(d, "idle")
    BY <1>7, AloneSoFar DEF IInv
  <2>2. \A d \in Clients \ {c} : At(d, "idle")'
    BY <1>4, <2>1 DEF At
  <2>3. \A i \in DOMAIN rows' : told'[i] = Says(rows'[i], told'[i].at)
    <3> TAKE i \in DOMAIN rows'
    <3>1. CASE i = r.id
      <4>1. told' = SaysNow(r.id, r.row, r.fields, r.at)
        BY <1>1, Commits
      <4>2. r.id \in DOMAIN told =>
              /\ NamesItsFields([row |-> r.row, fields |-> r.fields], rows[r.id])
              /\ told[r.id] = Says(rows[r.id], told[r.id].at)
        BY <1>3, <1>5, <2>1 DEF IInv, TrailOfRows, AloneStands, StillSo, NamesItsFields, Writing
      <4>3. told'[r.id] = Says(r.row, r.at)
        BY <1>6, <4>1, <4>2, SaysAll
      <4> QED BY <1>3, <3>1, <4>3
    <3>2. CASE i # r.id
      BY <1>3, <2>1, <3>2 DEF IInv, TrailOfRows, AloneStands
    <3> QED BY <3>1, <3>2
  <2>4. ASSUME NEW d \in Clients PROVE StillSo(req[d])'
    <3>1. CASE d = c
      BY <1>4, <1>8, <3>1 DEF StillSo, Writing
    <3>2. CASE d # c
      <4>1. req'[d] = req[d] /\ req[d].step = "idle" /\ StillSo(req[d])
        BY <1>4, <2>1, <3>2 DEF At, IInv, AloneStands
      <4> QED BY <4>1 DEF StillSo, Writing
    <3> QED BY <3>1, <3>2
  <2> QED BY <2>2, <2>3, <2>4 DEF AloneStands
<1> QED BY <1>9, <1>10, <1>11, <1>12, <1>13, <1>14, <1>15, <1>16 DEF IInv

-----------------------------------------------------------------------------
(* The theorems.                                                           *)

(* The invariant is inductive.                                             *)
LEMMA Inductive ==
  ASSUME IInv, [Next]_vars
  PROVE  IInv'
<1>1. CASE UNCHANGED vars
  BY <1>1 DEF vars, IInv, TypeOK, TrailOfRows, NamesUnique, ParentsStand, HasItsParent,
     LocksStand, NameIsFree, Apart, ClockStands, ToStamp, StampIsLast, ScreensStand,
     ShowsItsTrail, AloneStands, StillSo, At
<1>2. ASSUME NEW c \in Clients, Serves(c) PROVE IInv'
  BY <1>2, OfferPathsKeeps, HoldParentKeeps, HoldRowKeeps, BeginTxKeeps, LockRowKeeps,
     WriteNameKeeps, DeadlockedKeeps, RecordTrailKeeps, CommitTxKeeps, StartCalendarKeeps,
     ReadSeasonsKeeps, ReadDropsKeeps, ReadModelsKeeps, ReadCardKeeps, ReadTrailKeeps
     DEF Serves
<1> QED BY <1>1, <1>2, AsksKeep, FailKeeps DEF Next

(* The rows there are to begin with have their parents and their names,    *)
(* the trail tells of them, and nobody asks for anything.                  *)
LEMMA Initial == Init => IInv
<1> SUFFICES ASSUME Init PROVE IInv
  OBVIOUS
<1>1. \A c \in Clients : req[c] = Idle("none", None)
  BY DEF Init
<1>2. \A c \in Clients : req[c].step = "idle" /\ req[c].answer = "none" /\ RequestOK(req[c])
  BY <1>1 DEF Idle, RequestOK, Answers
<1>3. \A i \in DOMAIN Held : Held[i] \in Row /\ told[i] = Says(Held[i], 0)
  BY CatalogAssumption DEF Init
<1>4. \A i \in DOMAIN told : i \in DOMAIN Held /\ told[i] \in Told /\ told[i].at = 0
  BY <1>3, CatalogAssumption DEF Init, Says, Told, Row
<1>5. TypeOK
  BY <1>2, <1>3, <1>4, CatalogAssumption DEF Init, TypeOK
<1>6. NamesUnique
  BY CatalogAssumption DEF Init, NamesUnique, UniqueNames, SameKey
<1>7. ParentsStand /\ TrailOfRows
  BY <1>2, CatalogAssumption DEF Init, ParentsStand, HasItsParent, Writing, TrailOfRows
<1>8. LocksStand
  BY <1>2 DEF LocksStand, NameIsFree, Apart, Locked, Named
<1>9. ClockStands
  <2>1. ToStamp = {}
    BY <1>2 DEF ToStamp, Unstamped
  <2>2. clock = 0 /\ asked = 0 /\ Cardinality(ToStamp) = 0
    BY <2>1, FS_EmptySet DEF Init
  <2> QED BY <1>2, <1>4, <2>2 DEF ClockStands, StampIsLast
<1>10. ScreensStand
  BY <1>2 DEF ScreensStand, ShowsItsTrail
<1>11. AloneStands
  BY <1>2, <1>3 DEF Init, AloneStands, StillSo, Writing, At, Says
<1> QED BY <1>5, <1>6, <1>7, <1>8, <1>9, <1>10, <1>11 DEF IInv

(* The invariant holds of every behaviour.                                 *)
THEOREM Invariance == Spec => []IInv
BY Initial, Inductive, PTL DEF Spec

(* Names stay unique although no request looks for one before it writes,   *)
(* the trail tells of every row and of no other, and a form that comes     *)
(* back wrote nothing (internal/catalog, internal/postgres/tx.go).         *)
THEOREM TheTablesStand == Spec => []TablesStand
<1>1. IInv => TablesStand
  <2> SUFFICES ASSUME IInv PROVE RefusalLeavesNoRow
    BY DEF IInv, TablesStand
  <2>1. DOMAIN rows \subseteq Ids
    BY DEF IInv, TypeOK
  <2> QED BY <2>1, CatalogAssumption DEF IInv, ScreensStand, ShowsItsTrail, RefusalLeavesNoRow, At
<1> QED BY <1>1, Invariance, PTL

(* A card is not ahead of its trail, whatever commits between the two      *)
(* statements that read them; and as long as requests come one after the   *)
(* other, the trail tells what the rows hold and a list names the drop of  *)
(* every model (loadOne and modelRows, internal/http/models/models.go).    *)
THEOREM TheScreensAgree == Spec => []ScreensAgree
<1>1. IInv => ScreensAgree
  BY DEF IInv, ScreensAgree, ListedNamedAlone, CardNotBehind, TrailTellsAlone,
         ScreensStand, ShowsItsTrail, AloneStands, StillSo, At
<1> QED BY <1>1, Invariance, PTL

(* Of two writes of one row the later has the later time, however long     *)
(* either waited for its locks (RecordTrail, internal/audit/audit.go).     *)
THEOREM TimesFollowWrites == Spec => TrailInOrder
<1>1. ASSUME IInv, [Next]_vars
      PROVE  \A i \in DOMAIN told : told'[i] # told[i] => told'[i].at > told[i].at
  <2> SUFFICES ASSUME NEW i \in DOMAIN told, told'[i] # told[i]
               PROVE  told'[i].at > told[i].at
    OBVIOUS
  <2>1. PICK c \in Clients : CommitTx(c)
    BY <1>1 DEF vars, Next, Asks, Serves, Fail, Begin, CreateSeason, CreateType, CreateDrop,
       CreateModel, SaveSeason, SaveDrop, SaveModel, SaveType, Save, ListModels, ShowCard, Refuse,
       OfferPaths, HoldParent, HoldRow, BeginTx, LockRow, WriteName, Deadlocked, RecordTrail,
       StartCalendar, ReadSeasons, ReadDrops, ReadModels, ReadCard, ReadTrail
  <2>2. i = req[c].id /\ told'[i].at = req[c].at /\ req[c].step = "commit"
    BY <1>1, <2>1, Commits
  <2>3. told[i].at < req[c].at
    BY <1>1, <2>2 DEF IInv, ClockStands, StampIsLast
  <2> QED BY <2>2, <2>3
<1> QED BY <1>1, Invariance, PTL DEF Spec, TrailInOrder

-----------------------------------------------------------------------------
(* What is chosen of a list, or cut out of one: the season a screen opens  *)
(* on (SeasonChoice) and the entries a card shows (AuditLog), over the     *)
(* lists, trails and limits of an instance.                                *)

CONSTANTS
  SeasonLists,      \* the seasons there may be, in the order they are listed
  OpenDays,         \* the days a screen is opened on
  Trails,           \* what the trail may hold
  Limits,           \* what a screen asks for
  ScopeLists        \* the scopes a card covers, one list per card

(* season_name_key: no two seasons share a name.  A name and an identifier *)
(* are their places in the alphabet.                                       *)
ASSUME ChoicesAssumption ==
  /\ OpenDays \subseteq Int /\ Limits \subseteq Int
  /\ \A list \in SeasonLists :
       /\ list \in Seq(ToSet(list))
       /\ \A i, j \in DOMAIN list :
            /\ list[i].day \in Int /\ list[i].name \in Int
            /\ list[i].name = list[j].name => list[i] = list[j]
  /\ \A trail \in Trails :
       /\ IsFiniteSet(trail)
       /\ \A e, f \in trail : e.at \in Int /\ e.id \in Int /\ (e.id = f.id => e = f)
  /\ \A scopes \in ScopeLists : scopes \in Seq(ToSet(scopes))

(* A screen opens on the season the comment of CurrentSeason names, in     *)
(* whatever order the seasons are listed, and on none when there is none.  *)
OpensOnCurrent ==
  \A list \in SeasonLists, today \in OpenDays :
    LET opens == CurrentSeason(list, today)
    IN  IF ToSet(list) = {} THEN opens = {}
        ELSE \E s \in opens : opens = {s} /\ IsCurrent(s, ToSet(list), today)

(* A card shows the newest entries of all it covers: each scope is cut on  *)
(* its own, and yet nothing that is left out is newer than anything shown, *)
(* and the limit alone leaves things out.                                  *)
ShowsNewest(shown, covered, most) ==
  /\ ToSet(shown) \subseteq covered
  /\ Len(shown) = IF most < Cardinality(covered) THEN most ELSE Cardinality(covered)
  /\ \A i, j \in DOMAIN shown : i < j => NewestFirst(shown[i], shown[j])
  /\ \A e \in covered \ ToSet(shown), i \in DOMAIN shown : NewestFirst(shown[i], e)

CardShowsNewest ==
  \A trail \in Trails, limit \in Limits, scopes \in ScopeLists :
    ShowsNewest(Scopes(trail, limit, scopes), {e \in trail : e.scope \in ToSet(scopes)},
                Clamped(limit))

(* What is chosen of a list, or cut out of one, is what it is said to be.  *)
(* Neither reads the tables, so the states before the first request are    *)
(* enough.                                                                 *)
ChoicesHold == asked = 0 => OpensOnCurrent /\ CardShowsNewest

(* The loop of CurrentSeason, season by season.                            *)
LEMMA HeldGrows ==
  ASSUME NEW list, Len(list) \in Nat, NEW day, NEW upTo, upTo = HeldUpTo(list, day)
  PROVE  /\ upTo[0] = [newest |-> {}, started |-> {}, coming |-> {}]
         /\ \A n \in 1..Len(list) : upTo[n] = Consider(upTo[n - 1], list[n], day)
<1> DEFINE first == [newest |-> {}, started |-> {}, coming |-> {}]
           Built(g, l) ==
             g = [n \in 0..l |-> IF n = 0 THEN first ELSE Consider(g[n - 1], list[n], day)]
           S == {l \in Nat : \E g : Built(g, l)}
<1> HIDE DEF first
<1>1. 0 \in S
  <2>1. Built([n \in 0..0 |-> first], 0)
    OBVIOUS
  <2> QED BY <2>1
<1>2. ASSUME NEW l \in Nat, l \in S PROVE l + 1 \in S
  <2>1. PICK g : Built(g, l)
    BY <1>2
  <2> DEFINE h == [n \in 0..l + 1 |-> IF n = l + 1 THEN Consider(g[l], list[l + 1], day) ELSE g[n]]
  <2>2. ASSUME NEW n \in 0..l + 1
        PROVE  h[n] = IF n = 0 THEN first ELSE Consider(h[n - 1], list[n], day)
    <3>1. CASE n = l + 1
      <4>1. n # 0 /\ n - 1 = l /\ l \in 0..l + 1 /\ l # l + 1
        BY <3>1
      <4>2. h[n] = Consider(g[l], list[l + 1], day) /\ h[l] = g[l]
        BY <3>1, <4>1
      <4> QED BY <3>1, <4>1, <4>2
    <3>2. CASE n # l + 1
      <4>1. n \in 0..l /\ h[n] = g[n]
        BY <3>2
      <4>2. g[n] = IF n = 0 THEN first ELSE Consider(g[n - 1], list[n], day)
        BY <2>1, <4>1
      <4>3. n # 0 => n - 1 \in 0..l + 1 /\ n - 1 # l + 1
        BY <4>1
      <4>4. n # 0 => h[n - 1] = g[n - 1]
        BY <4>3
      <4> QED BY <4>1, <4>2, <4>4
    <3> QED BY <3>1, <3>2
  <2>3. Built(h, l + 1)
    BY <2>2
  <2>4. \E f : Built(f, l + 1)
    BY <2>3
  <2> QED BY <2>4
<1>3. Len(list) \in S
  <2> HIDE DEF S
  <2>1. \A l \in 0..(Len(list) - 1) : l \in S => l + 1 \in S
    BY <1>2
  <2>2. 0..Len(list) \subseteq S
    BY <1>1, <2>1, UpTo
  <2> QED BY <2>2
<1>4. \E g : Built(g, Len(list))
  BY <1>3
<1>5. upTo = CHOOSE g : Built(g, Len(list))
  BY DEF HeldUpTo, first
<1> HIDE DEF Built
<1>6. Built(upTo, Len(list))
  BY <1>4, <1>5
<1>7. upTo = [n \in 0..Len(list) |->
                IF n = 0 THEN first ELSE Consider(upTo[n - 1], list[n], day)]
  BY <1>6 DEF Built
<1>8. upTo[0] = first /\ \A n \in 1..Len(list) : upTo[n] = Consider(upTo[n - 1], list[n], day)
  BY <1>7
<1> QED BY <1>8 DEF first

(* Seasons that start on days and differ in their names.                   *)
Dated(S) ==
  \A a, b \in S : a.day \in Int /\ a.name \in Int /\ (a.name = b.name => a = b)

(* The last season to start of a set of them, and the first.               *)
IsLatest(held, S) ==
  IF S = {} THEN held = {}
  ELSE \E s \in S : held = {s} /\ \A o \in S \ {s} : StartsBefore(o, s)

IsEarliest(held, S) ==
  IF S = {} THEN held = {}
  ELSE \E s \in S : held = {s} /\ \A o \in S \ {s} : StartsBefore(s, o)

(* Of two seasons one starts before the other, and they run in no circle.  *)
LEMMA SeasonOrder ==
  ASSUME NEW S, Dated(S)
  PROVE  /\ \A a, b \in S : /\ ~StartsBefore(a, a)
                            /\ a # b => (StartsBefore(a, b) <=> ~StartsBefore(b, a))
         /\ \A a, b, c \in S : StartsBefore(a, b) /\ StartsBefore(b, c) => StartsBefore(a, c)
BY DEF Dated, StartsBefore

(* One more season, and the last of them is still held.                    *)
LEMMA StillLatest ==
  ASSUME NEW S, Dated(S), NEW P \in SUBSET S, NEW x \in S, NEW held, IsLatest(held, P)
  PROVE  IsLatest(Latest(held, x), P \cup {x})
<1>1. /\ \A a, b \in S : /\ ~StartsBefore(a, a)
                         /\ a # b => (StartsBefore(a, b) <=> ~StartsBefore(b, a))
      /\ \A a, b, c \in S : StartsBefore(a, b) /\ StartsBefore(b, c) => StartsBefore(a, c)
  BY SeasonOrder
<1>2. CASE P = {}
  <2>1. P \cup {x} = {x} /\ (P \cup {x}) \ {x} = {} /\ P \cup {x} # {}
    BY <1>2
  <2>2. Latest(held, x) = {x}
    BY <1>2 DEF IsLatest, Latest
  <2> QED BY <2>1, <2>2 DEF IsLatest
<1>3. CASE P # {}
  <2>1. PICK s \in P : held = {s} /\ \A o \in P \ {s} : StartsBefore(o, s)
    BY <1>3 DEF IsLatest
  <2>2. CASE StartsBefore(s, x)
    <3>1. Latest(held, x) = {x}
      BY <2>1, <2>2 DEF Latest
    <3>2. \A o \in (P \cup {x}) \ {x} : StartsBefore(o, x)
      BY <1>1, <2>1, <2>2
    <3> QED BY <3>1, <3>2 DEF IsLatest
  <2>3. CASE ~StartsBefore(s, x)
    <3>1. Latest(held, x) = {s}
      BY <2>1, <2>3 DEF Latest
    <3>2. \A o \in (P \cup {x}) \ {s} : StartsBefore(o, s)
      BY <1>1, <2>1, <2>3
    <3> QED BY <3>1, <3>2 DEF IsLatest
  <2> QED BY <2>2, <2>3
<1> QED BY <1>2, <1>3

(* And so is the first.                                                    *)
LEMMA StillEarliest ==
  ASSUME NEW S, Dated(S), NEW P \in SUBSET S, NEW x \in S, NEW held, IsEarliest(held, P)
  PROVE  IsEarliest(Earliest(held, x), P \cup {x})
<1>1. /\ \A a, b \in S : /\ ~StartsBefore(a, a)
                         /\ a # b => (StartsBefore(a, b) <=> ~StartsBefore(b, a))
      /\ \A a, b, c \in S : StartsBefore(a, b) /\ StartsBefore(b, c) => StartsBefore(a, c)
  BY SeasonOrder
<1>2. CASE P = {}
  <2>1. P \cup {x} = {x} /\ (P \cup {x}) \ {x} = {} /\ P \cup {x} # {}
    BY <1>2
  <2>2. Earliest(held, x) = {x}
    BY <1>2 DEF IsEarliest, Earliest
  <2> QED BY <2>1, <2>2 DEF IsEarliest
<1>3. CASE P # {}
  <2>1. PICK s \in P : held = {s} /\ \A o \in P \ {s} : StartsBefore(s, o)
    BY <1>3 DEF IsEarliest
  <2>2. CASE StartsBefore(x, s)
    <3>1. Earliest(held, x) = {x}
      BY <2>1, <2>2 DEF Earliest
    <3>2. \A o \in (P \cup {x}) \ {x} : StartsBefore(x, o)
      BY <1>1, <2>1, <2>2
    <3> QED BY <3>1, <3>2 DEF IsEarliest
  <2>3. CASE ~StartsBefore(x, s)
    <3>1. Earliest(held, x) = {s}
      BY <2>1, <2>3 DEF Earliest
    <3>2. \A o \in (P \cup {x}) \ {s} : StartsBefore(s, o)
      BY <1>1, <2>1, <2>3
    <3> QED BY <3>1, <3>2 DEF IsEarliest
  <2> QED BY <2>2, <2>3
<1> QED BY <1>2, <1>3

(* The seasons of a set that have started in work, and that are to come.   *)
Begun(S, day) == {s \in S : s.active /\ Started(s, day)}

ToCome(S, day) == {s \in S : s.active /\ ~Started(s, day)}

(* The loop holds the extremes of the seasons it has passed.               *)
HoldsExtremes(held, S, day) ==
  /\ IsLatest(held.newest, S)
  /\ IsLatest(held.started, Begun(S, day))
  /\ IsEarliest(held.coming, ToCome(S, day))

(* So the season a screen opens on is the one the comment names.           *)
LEMMA OpensOn ==
  ASSUME NEW list \in SeasonLists, NEW day \in OpenDays,
         NEW opens, opens = CurrentSeason(list, day)
  PROVE  IF ToSet(list) = {} THEN opens = {}
         ELSE \E s \in opens : opens = {s} /\ IsCurrent(s, ToSet(list), day)
<1> DEFINE S == ToSet(list)
           upTo == HeldUpTo(list, day)
           Passed(n) == {list[i] : i \in 1..n}
<1>1. /\ list \in Seq(S) /\ Len(list) \in Nat /\ DOMAIN list = 1..Len(list)
      /\ Dated(S) /\ S = Passed(Len(list))
  <2>1. list \in Seq(S)
    BY ChoicesAssumption, Zenon
  <2>2. Len(list) \in Nat /\ DOMAIN list = 1..Len(list)
    BY <2>1
  <2>3. \A i, j \in DOMAIN list :
          /\ list[i].day \in Int /\ list[i].name \in Int
          /\ list[i].name = list[j].name => list[i] = list[j]
    BY ChoicesAssumption, Zenon
  <2>4. S = {list[i] : i \in DOMAIN list}
    BY DEF ToSet
  <2>5. Dated(S)
    BY <2>3, <2>4 DEF Dated
  <2> QED BY <2>1, <2>2, <2>4, <2>5
<1>2. /\ upTo[0] = [newest |-> {}, started |-> {}, coming |-> {}]
      /\ \A n \in 1..Len(list) : upTo[n] = Consider(upTo[n - 1], list[n], day)
  <2> HIDE DEF upTo
  <2> QED BY <1>1, HeldGrows DEF upTo
<1> HIDE DEF upTo, S
<1> DEFINE T == {n \in 0..Len(list) : HoldsExtremes(upTo[n], Passed(n), day)}
<1>3. 0 \in T
  <2>1. Passed(0) = {} /\ Begun({}, day) = {} /\ ToCome({}, day) = {}
    BY DEF Begun, ToCome
  <2>2. HoldsExtremes(upTo[0], {}, day)
    BY <1>2, <2>1 DEF HoldsExtremes, IsLatest, IsEarliest
  <2>3. 0 \in 0..Len(list)
    BY <1>1
  <2> HIDE DEF Passed
  <2>4. HoldsExtremes(upTo[0], Passed(0), day)
    BY <2>1, <2>2, Zenon
  <2> QED BY <2>3, <2>4
<1>4. ASSUME NEW n \in 0..(Len(list) - 1), n \in T PROVE n + 1 \in T
  <2> DEFINE x == list[n + 1]
             P == Passed(n)
             was == upTo[n]
             now == upTo[n + 1]
  <2>1. n + 1 \in 1..Len(list) /\ (n + 1) - 1 = n
    BY <1>1
  <2>2. now = Consider(was, x, day)
    BY <1>2, <2>1
  <2>3. x \in S /\ P \in SUBSET S /\ Passed(n + 1) = P \cup {x}
    <3>1. 1..(n + 1) = (1..n) \cup {n + 1} /\ 1..(n + 1) \subseteq 1..Len(list)
      BY <1>1
    <3> QED BY <1>1, <2>1, <3>1
  <2>4. HoldsExtremes(was, P, day)
    BY <1>4
  <2> HIDE DEF x, P, was, now, Passed
  <2>5. /\ now.newest = Latest(was.newest, x)
        /\ now.started = IF x.active /\ Started(x, day) THEN Latest(was.started, x) ELSE was.started
        /\ now.coming = IF x.active /\ ~Started(x, day) THEN Earliest(was.coming, x) ELSE was.coming
    BY <2>2 DEF Consider
  <2>6. Begun(P, day) \in SUBSET S /\ ToCome(P, day) \in SUBSET S
    BY <2>3 DEF Begun, ToCome
  <2>7. IsLatest(now.newest, P \cup {x})
    <3>1. IsLatest(was.newest, P)
      BY <2>4 DEF HoldsExtremes
    <3>2. IsLatest(Latest(was.newest, x), P \cup {x})
      BY <1>1, <2>3, <3>1, StillLatest, Zenon
    <3> QED BY <2>5, <3>2, Zenon
  <2>8. IsLatest(now.started, Begun(P \cup {x}, day))
    <3>1. CASE x.active /\ Started(x, day)
      <4>1. Begun(P \cup {x}, day) = Begun(P, day) \cup {x}
        BY <3>1 DEF Begun
      <4>2. now.started = Latest(was.started, x)
        BY <2>5, <3>1
      <4>3. IsLatest(was.started, Begun(P, day))
        BY <2>4 DEF HoldsExtremes
      <4>4. IsLatest(Latest(was.started, x), Begun(P, day) \cup {x})
        BY <1>1, <2>3, <2>6, <4>3, StillLatest, Zenon
      <4> QED BY <4>1, <4>2, <4>4, Zenon
    <3>2. CASE ~(x.active /\ Started(x, day))
      <4>1. Begun(P \cup {x}, day) = Begun(P, day)
        BY <3>2 DEF Begun
      <4>2. now.started = was.started
        BY <2>5, <3>2
      <4> QED BY <2>4, <4>1, <4>2 DEF HoldsExtremes
    <3> QED BY <3>1, <3>2
  <2>9. IsEarliest(now.coming, ToCome(P \cup {x}, day))
    <3>1. CASE x.active /\ ~Started(x, day)
      <4>1. ToCome(P \cup {x}, day) = ToCome(P, day) \cup {x}
        BY <3>1 DEF ToCome
      <4>2. now.coming = Earliest(was.coming, x)
        BY <2>5, <3>1
      <4>3. IsEarliest(was.coming, ToCome(P, day))
        BY <2>4 DEF HoldsExtremes
      <4>4. IsEarliest(Earliest(was.coming, x), ToCome(P, day) \cup {x})
        BY <1>1, <2>3, <2>6, <4>3, StillEarliest, Zenon
      <4> QED BY <4>1, <4>2, <4>4, Zenon
    <3>2. CASE ~(x.active /\ ~Started(x, day))
      <4>1. ToCome(P \cup {x}, day) = ToCome(P, day)
        BY <3>2 DEF ToCome
      <4>2. now.coming = was.coming
        BY <2>5, <3>2
      <4> QED BY <2>4, <4>1, <4>2 DEF HoldsExtremes
    <3> QED BY <3>1, <3>2
  <2>10. HoldsExtremes(now, P \cup {x}, day)
    BY <2>7, <2>8, <2>9 DEF HoldsExtremes
  <2>11. HoldsExtremes(upTo[n + 1], Passed(n + 1), day)
    BY <2>3, <2>10 DEF now
  <2>12. n + 1 \in 0..Len(list)
    BY <1>1, <2>1
  <2> QED BY <2>11, <2>12
<1>5. HoldsExtremes(upTo[Len(list)], S, day)
  <2> HIDE DEF T
  <2>1. 0..Len(list) \subseteq T
    BY <1>1, <1>3, <1>4, UpTo
  <2>2. Len(list) \in T
    BY <1>1, <2>1
  <2> QED BY <1>1, <2>2 DEF T
<1> DEFINE held == upTo[Len(list)]
<1>6. opens = IF held.started # {} THEN held.started
              ELSE IF held.coming # {} THEN held.coming ELSE held.newest
  BY DEF CurrentSeason, upTo
<1> HIDE DEF held
<1>7. HoldsExtremes(held, S, day)
  BY <1>5 DEF held
<1> DEFINE inWork == {s \in S : s.active}
           begun == {s \in inWork : s.day <= day}
<1>8. begun = Begun(S, day) /\ (begun = {} => inWork = ToCome(S, day))
  BY DEF Begun, ToCome, Started
<1>9. ASSUME NEW s
      PROVE  IsCurrent(s, S, day) <=>
               IF begun # {} THEN s \in begun /\ \A o \in begun \ {s} : StartsBefore(o, s)
               ELSE IF inWork # {} THEN s \in inWork /\ \A o \in inWork \ {s} : StartsBefore(s, o)
               ELSE s \in S /\ \A o \in S \ {s} : StartsBefore(o, s)
  BY DEF IsCurrent
<1>10. CASE begun # {}
  <2>1. PICK s \in begun : held.started = {s} /\ \A o \in begun \ {s} : StartsBefore(o, s)
    <3> HIDE DEF begun, inWork
    <3> QED BY <1>7, <1>8, <1>10 DEF HoldsExtremes, IsLatest
  <2>2. opens = {s} /\ S # {}
    BY <1>6, <2>1
  <2>3. IsCurrent(s, S, day)
    <3> HIDE DEF begun, inWork
    <3> QED BY <1>9, <1>10, <2>1
  <2> QED BY <2>2, <2>3 DEF S
<1>11. CASE begun = {} /\ inWork # {}
  <2>1. PICK s \in inWork : held.coming = {s} /\ \A o \in inWork \ {s} : StartsBefore(s, o)
    <3> HIDE DEF begun, inWork
    <3> QED BY <1>7, <1>8, <1>11 DEF HoldsExtremes, IsEarliest
  <2>2. held.started = {}
    <3> HIDE DEF begun, inWork
    <3> QED BY <1>7, <1>8, <1>11 DEF HoldsExtremes, IsLatest
  <2>3. opens = {s} /\ S # {}
    BY <1>6, <2>1, <2>2
  <2>4. IsCurrent(s, S, day)
    <3> HIDE DEF begun, inWork
    <3> QED BY <1>9, <1>11, <2>1
  <2> QED BY <2>3, <2>4 DEF S
<1>12. CASE begun = {} /\ inWork = {}
  <2>1. held.started = {} /\ held.coming = {}
    <3> HIDE DEF begun, inWork
    <3> QED BY <1>7, <1>8, <1>12 DEF HoldsExtremes, IsLatest, IsEarliest
  <2>2. opens = held.newest
    BY <1>6, <2>1
  <2>3. CASE S = {}
    BY <1>7, <2>2, <2>3 DEF HoldsExtremes, IsLatest, S
  <2>4. CASE S # {}
    <3>1. PICK s \in S : held.newest = {s} /\ \A o \in S \ {s} : StartsBefore(o, s)
      BY <1>7, <2>4 DEF HoldsExtremes, IsLatest
    <3>2. IsCurrent(s, S, day)
      <4> HIDE DEF begun, inWork
      <4> QED BY <1>9, <1>12, <3>1
    <3> QED BY <2>2, <2>4, <3>1, <3>2 DEF S
  <2> QED BY <2>3, <2>4
<1> QED BY <1>10, <1>11, <1>12

(* Entries that were made at a time and differ in their identifiers.       *)
AreEntries(S) ==
  \A e, f \in S : e.at \in Int /\ e.id \in Int /\ (e.id = f.id => e = f)

(* Of two entries one is newer than the other, and they run in no circle.  *)
LEMMA EntryOrder ==
  ASSUME NEW S, AreEntries(S)
  PROVE  /\ \A a, b \in S : /\ ~NewestFirst(a, a)
                            /\ a # b => (NewestFirst(a, b) <=> ~NewestFirst(b, a))
         /\ \A a, b, c \in S : NewestFirst(a, b) /\ NewestFirst(b, c) => NewestFirst(a, c)
BY DEF AreEntries, NewestFirst

(* A cut of the entries of a set shows the newest of them, each once.      *)
LEMMA CutShowsNewest ==
  ASSUME NEW S, IsFiniteSet(S), AreEntries(S), NEW most \in Nat,
         NEW shown, shown = Cut(NewestOf(S), most)
  PROVE  /\ ShowsNewest(shown, S, most)
         /\ shown \in Seq(S) /\ Len(shown) \in Nat /\ Len(shown) <= most
         /\ Cardinality(S) \in Nat /\ Cardinality(ToSet(shown)) = Len(shown)
<1>1. PICK order : order = Recency(S)
  OBVIOUS
<1>2. \A a, b \in S : <<a, b>> \in order <=> NewestFirst(a, b)
  BY <1>1 DEF Recency
<1>3. Orders(order, S)
  BY <1>2, EntryOrder DEF Orders
<1>4. PICK list : list = SortedBy(S, order)
  OBVIOUS
<1>5. PICK n : n = Cardinality(S)
  OBVIOUS
<1>6. /\ n \in Nat /\ list \in [1..n -> S]
      /\ \A x \in S : \E i \in 1..n : list[i] = x
      /\ \A i, j \in 1..n : i < j => <<list[i], list[j]>> \in order
  BY <1>3, <1>4, <1>5, ListsInOrder
<1>7. (\A i \in 1..n : list[i] \in S) /\ \A i, j \in 1..n : i < j => NewestFirst(list[i], list[j])
  BY <1>2, <1>6
<1>8. list \in Seq(S) /\ Len(list) = n
  BY <1>6
<1> DEFINE m == IF n < most THEN n ELSE most
<1>9. shown = SubSeq(list, 1, m)
  BY <1>1, <1>4, <1>8 DEF Cut, NewestOf
<1>10. m \in Nat /\ m <= n /\ m <= most /\ (m < n => m = most)
  BY <1>6
<1>11. m = IF most < n THEN most ELSE n
  BY <1>6
<1> HIDE DEF m
<1>12. \A i \in 1..m : i \in 1..n /\ list[i] \in S
  BY <1>6, <1>7, <1>10
<1>13. shown \in Seq(S) /\ Len(shown) = m /\ \A i \in 1..m : shown[i] = list[i]
  <2>1. SubSeq(list, 1, m) \in Seq(S) /\ Len(SubSeq(list, 1, m)) = IF 1 <= m THEN m - 1 + 1 ELSE 0
    BY <1>10, <1>12, SubSeqProperties
  <2>2. \A i \in 1..m - 1 + 1 : SubSeq(list, 1, m)[i] = list[1 + i - 1]
    BY <1>10, <1>12, SubSeqProperties
  <2>3. \A i \in 1..m : i \in 1..m - 1 + 1 /\ 1 + i - 1 = i
    BY <1>10
  <2>4. \A i \in 1..m : SubSeq(list, 1, m)[i] = list[i]
    BY <2>2, <2>3
  <2> QED BY <1>9, <1>10, <2>1, <2>4
<1>14. DOMAIN shown = 1..m /\ ToSet(shown) = {shown[i] : i \in 1..m}
  BY <1>13 DEF ToSet
<1>15. \A i, j \in 1..m : i < j => NewestFirst(shown[i], shown[j])
  BY <1>7, <1>12, <1>13
<1>16. \A i \in 1..m : shown[i] \in S
  BY <1>12, <1>13
<1>17. Cardinality(ToSet(shown)) = m
  <2> DEFINE f == [i \in 1..m |-> shown[i]]
             T == ToSet(shown)
  <2>1. \A i, j \in 1..m : shown[i] = shown[j] => i = j
    BY <1>10, <1>15, <1>16, EntryOrder
  <2>2. f \in Bijection(1..m, T)
    BY <1>14, <2>1 DEF Bijection, Injection, Surjection, IsInjective
  <2> HIDE DEF T, f
  <2>3. ExistsBijection(1..m, T)
    BY <2>2 DEF ExistsBijection
  <2>4. IsFiniteSet(1..m) /\ Cardinality(1..m) = m
    BY <1>10, FS_Interval
  <2>5. Cardinality(T) = Cardinality(1..m)
    BY <2>3, <2>4, FS_Bijection
  <2> QED BY <2>4, <2>5 DEF T
<1>18. ASSUME NEW e \in S \ ToSet(shown), NEW i \in 1..m PROVE NewestFirst(shown[i], e)
  <2>1. PICK j \in 1..n : list[j] = e
    BY <1>6
  <2>2. j \notin 1..m
    BY <1>13, <1>14, <1>18, <2>1
  <2>3. i < j
    BY <1>6, <1>10, <2>2
  <2> QED BY <1>7, <1>12, <1>13, <2>1, <2>3
<1>19. ShowsNewest(shown, S, most)
  BY <1>5, <1>11, <1>13, <1>14, <1>15, <1>16, <1>18 DEF ShowsNewest
<1> QED BY <1>5, <1>6, <1>10, <1>13, <1>17, <1>19

(* A cut that is not longer than its limit stays as it is.                 *)
LEMMA CutTwice ==
  ASSUME NEW S, NEW shown \in Seq(S), NEW most \in Nat, Len(shown) <= most
  PROVE  Cut(shown, most) = shown
<1>1. Len(shown) \in Nat /\ (IF Len(shown) < most THEN Len(shown) ELSE most) = Len(shown)
  OBVIOUS
<1>2. Cut(shown, most) = SubSeq(shown, 1, Len(shown))
  BY <1>1 DEF Cut
<1> QED BY <1>2, SubSeqFull

(* A merge of cuts is cut where a cut of the merge would be.               *)
LEMMA MergeShowsNewest ==
  ASSUME NEW covered, IsFiniteSet(covered), AreEntries(covered), NEW most \in Nat,
         NEW read \in SUBSET covered,
         \A e \in covered \ read :
           \E T \in SUBSET read : /\ Cardinality(T) = most
                                  /\ \A t \in T : NewestFirst(t, e),
         NEW shown, shown = Cut(NewestOf(read), most)
  PROVE  ShowsNewest(shown, covered, most)
<1>1. IsFiniteSet(read) /\ AreEntries(read)
  BY FS_Subset DEF AreEntries
<1>2. /\ ShowsNewest(shown, read, most)
      /\ shown \in Seq(read) /\ Len(shown) \in Nat /\ Len(shown) <= most
      /\ Cardinality(read) \in Nat /\ Cardinality(ToSet(shown)) = Len(shown)
  BY <1>1, CutShowsNewest
<1>3. /\ ToSet(shown) \subseteq read
      /\ Len(shown) = IF most < Cardinality(read) THEN most ELSE Cardinality(read)
      /\ \A i, j \in DOMAIN shown : i < j => NewestFirst(shown[i], shown[j])
      /\ \A e \in read \ ToSet(shown), i \in DOMAIN shown : NewestFirst(shown[i], e)
  BY <1>2 DEF ShowsNewest
<1>4. IsFiniteSet(ToSet(shown))
  BY <1>1, <1>3, FS_Subset
<1>5. /\ \A a, b \in covered : /\ ~NewestFirst(a, a)
                               /\ a # b => (NewestFirst(a, b) <=> ~NewestFirst(b, a))
      /\ \A a, b, c \in covered : NewestFirst(a, b) /\ NewestFirst(b, c) => NewestFirst(a, c)
  BY EntryOrder
<1>6. Len(shown) = IF most < Cardinality(covered) THEN most ELSE Cardinality(covered)
  <2>1. CASE read = covered
    BY <1>3, <2>1
  <2>2. CASE read # covered
    <3>1. PICK e \in covered : e \notin read
      BY <2>2
    <3>2. PICK T \in SUBSET read : Cardinality(T) = most
      BY <3>1
    <3>3. most <= Cardinality(read)
      BY <1>1, <3>2, FS_Subset
    <3>4. IsFiniteSet(covered \ {e}) /\ Cardinality(covered \ {e}) = Cardinality(covered) - 1
      BY <3>1, FS_RemoveElement
    <3>5. read \subseteq covered \ {e}
      BY <3>1
    <3>6. Cardinality(read) <= Cardinality(covered) - 1 /\ Cardinality(covered) \in Nat
      BY <3>4, <3>5, FS_Subset, FS_CardinalityType
    <3> QED BY <1>2, <1>3, <3>3, <3>6
  <2> QED BY <2>1, <2>2
<1>7. \A i \in DOMAIN shown : shown[i] \in ToSet(shown)
  BY <1>2 DEF ToSet
<1>8. ASSUME NEW e \in covered \ ToSet(shown), NEW i \in DOMAIN shown
      PROVE  NewestFirst(shown[i], e)
  <2>1. CASE e \in read
    BY <1>3, <1>8, <2>1
  <2>2. CASE e \notin read
    <3> SUFFICES ASSUME ~NewestFirst(shown[i], e) PROVE FALSE
      OBVIOUS
    <3>1. shown[i] \in read /\ shown[i] \in covered /\ shown[i] \in ToSet(shown)
      BY <1>3, <1>7
    <3>2. NewestFirst(e, shown[i])
      BY <1>5, <2>2, <3>1
    <3>3. PICK T \in SUBSET read : Cardinality(T) = most /\ \A t \in T : NewestFirst(t, e)
      BY <2>2
    <3>4. \A t \in T : NewestFirst(t, shown[i])
      BY <1>5, <3>1, <3>2, <3>3
    <3>5. \A t \in T : t \in ToSet(shown) \ {shown[i]}
      <4> SUFFICES ASSUME NEW t \in T PROVE t \in ToSet(shown) \ {shown[i]}
        OBVIOUS
      <4>1. t # shown[i]
        BY <1>5, <3>1, <3>4
      <4>2. t \in ToSet(shown)
        <5>1. ~NewestFirst(shown[i], t)
          BY <1>5, <3>1, <3>4, <4>1
        <5> QED BY <1>3, <5>1
      <4> QED BY <4>1, <4>2
    <3>6. /\ IsFiniteSet(ToSet(shown) \ {shown[i]})
          /\ Cardinality(ToSet(shown) \ {shown[i]}) = Cardinality(ToSet(shown)) - 1
      <4>1. PICK S, x : S = ToSet(shown) /\ x = shown[i]
        OBVIOUS
      <4>2. IsFiniteSet(S) /\ x \in S
        BY <1>4, <3>1, <4>1
      <4>3. IsFiniteSet(S \ {x}) /\ Cardinality(S \ {x}) = Cardinality(S) - 1
        BY <4>2, FS_RemoveElement
      <4> QED BY <4>1, <4>3
    <3>7. Cardinality(T) <= Cardinality(ToSet(shown)) - 1
      BY <3>5, <3>6, FS_Subset
    <3> QED BY <1>2, <3>3, <3>7
  <2> QED BY <2>1, <2>2
<1> QED BY <1>3, <1>6, <1>8 DEF ShowsNewest

(* So the trail of a card is cut to its newest entries, however many       *)
(* statements read it.                                                     *)
LEMMA CardNewest ==
  ASSUME NEW trail \in Trails, NEW limit \in Limits, NEW scopes \in ScopeLists,
         NEW covered, covered = {e \in trail : e.scope \in ToSet(scopes)}
  PROVE  ShowsNewest(Scopes(trail, limit, scopes), covered, Clamped(limit))
<1>1. PICK most : most = Clamped(limit)
  OBVIOUS
<1>2. most \in Nat
  <2>1. limit \in Int
    BY ChoicesAssumption, Zenon
  <2> QED BY <1>1, <2>1, LimitAssumption DEF Clamped
<1>3. IsFiniteSet(trail) /\ AreEntries(trail)
  <2>1. IsFiniteSet(trail)
    BY ChoicesAssumption, Zenon
  <2>2. \A e, f \in trail : e.at \in Int /\ e.id \in Int /\ (e.id = f.id => e = f)
    BY ChoicesAssumption, Zenon
  <2> QED BY <2>1, <2>2 DEF AreEntries
<1>4. \A S \in SUBSET trail : IsFiniteSet(S) /\ AreEntries(S)
  BY <1>3, FS_Subset DEF AreEntries
<1>5. scopes \in Seq(ToSet(scopes))
  BY ChoicesAssumption, Zenon
<1>6. Len(scopes) \in Nat /\ DOMAIN scopes = 1..Len(scopes)
  BY <1>5
<1>7. ASSUME NEW scope, NEW S, S = InScope(trail, scope),
             NEW cut, cut = ByEntities(trail, scope, most)
      PROVE  /\ ShowsNewest(cut, S, most)
             /\ cut \in Seq(S) /\ Len(cut) \in Nat /\ Len(cut) <= most
             /\ Cardinality(S) \in Nat /\ Cardinality(ToSet(cut)) = Len(cut)
  <2>1. S \in SUBSET trail
    BY <1>7 DEF InScope
  <2>2. cut = Cut(NewestOf(S), most)
    BY <1>7 DEF ByEntities
  <2> HIDE <1>7
  <2> QED BY <1>2, <1>4, <2>1, <2>2, CutShowsNewest
<1>8. CASE Len(scopes) = 1
  <2>1. PICK scope : scope = scopes[1]
    OBVIOUS
  <2>2. ToSet(scopes) = {scope}
    BY <1>6, <1>8, <2>1 DEF ToSet
  <2>3. covered = InScope(trail, scope)
    BY <2>2 DEF InScope
  <2>4. PICK cut : cut = ByEntities(trail, scope, most)
    OBVIOUS
  <2>5. ShowsNewest(cut, covered, most) /\ cut \in Seq(covered) /\ Len(cut) <= most
    BY <1>7, <2>3, <2>4
  <2>6. Cut(cut, most) = cut
    BY <1>2, <2>5, CutTwice
  <2>7. Scopes(trail, limit, scopes) = Cut(cut, most)
    BY <1>1, <1>8, <2>1, <2>4 DEF Scopes
  <2> QED BY <1>1, <2>5, <2>6, <2>7
<1>9. CASE Len(scopes) # 1
  <2>1. PICK read : read = AllRead(trail, scopes, most)
    OBVIOUS
  <2>2. ASSUME NEW i \in DOMAIN scopes,
               NEW cut, cut = ByEntities(trail, scopes[i], most)
        PROVE  /\ ToSet(cut) \subseteq read
               /\ ShowsNewest(cut, InScope(trail, scopes[i]), most)
               /\ Cardinality(InScope(trail, scopes[i])) \in Nat
               /\ Cardinality(ToSet(cut)) = Len(cut)
    <3>1. ToSet(cut) \subseteq read
      BY <2>1, <2>2 DEF AllRead
    <3> QED BY <1>7, <2>2, <3>1
  <2>3. ASSUME NEW i \in DOMAIN scopes
        PROVE  ToSet(ByEntities(trail, scopes[i], most)) \subseteq InScope(trail, scopes[i])
    BY <2>2 DEF ShowsNewest
  <2>4. \A i \in DOMAIN scopes : scopes[i] \in ToSet(scopes)
    BY DEF ToSet
  <2>5. read \in SUBSET covered
    BY <2>1, <2>3, <2>4 DEF AllRead, InScope
  <2>6. ASSUME NEW e \in covered \ read
        PROVE  \E T \in SUBSET read : /\ Cardinality(T) = most
                                      /\ \A t \in T : NewestFirst(t, e)
    <3>1. PICK i \in DOMAIN scopes : scopes[i] = e.scope
      BY <2>6 DEF ToSet
    <3>2. e \in InScope(trail, scopes[i])
      BY <2>6, <3>1 DEF InScope
    <3>3. PICK cut : cut = ByEntities(trail, scopes[i], most)
      OBVIOUS
    <3>4. PICK S : S = InScope(trail, scopes[i])
      OBVIOUS
    <3>5. /\ ToSet(cut) \subseteq read /\ ShowsNewest(cut, S, most)
          /\ Cardinality(S) \in Nat /\ Cardinality(ToSet(cut)) = Len(cut)
      BY <2>2, <3>3, <3>4
    <3>6. e \in S \ ToSet(cut)
      BY <2>6, <3>2, <3>4, <3>5
    <3>7. \A t \in ToSet(cut) : NewestFirst(t, e)
      BY <3>5, <3>6 DEF ShowsNewest, ToSet
    <3>8. Cardinality(ToSet(cut)) = most
      <4>1. IsFiniteSet(S) /\ ToSet(cut) \subseteq S
        <5>1. S \in SUBSET trail
          BY <3>4 DEF InScope
        <5> QED BY <1>4, <3>5, <5>1 DEF ShowsNewest
      <4>2. ToSet(cut) \subseteq S \ {e}
        BY <3>6, <4>1
      <4>3. IsFiniteSet(S \ {e}) /\ Cardinality(S \ {e}) = Cardinality(S) - 1
        BY <3>6, <4>1, FS_RemoveElement
      <4>4. Cardinality(ToSet(cut)) <= Cardinality(S) - 1
        BY <4>2, <4>3, FS_Subset
      <4>5. Len(cut) = IF most < Cardinality(S) THEN most ELSE Cardinality(S)
        BY <3>5 DEF ShowsNewest
      <4> QED BY <1>2, <3>5, <4>4, <4>5
    <3> QED BY <3>5, <3>7, <3>8
  <2>7. covered \in SUBSET trail
    OBVIOUS
  <2>8. IsFiniteSet(covered) /\ AreEntries(covered)
    BY <1>4, <2>7
  <2>9. PICK shown : shown = Cut(NewestOf(read), most)
    OBVIOUS
  <2>10. ShowsNewest(shown, covered, most)
    BY <1>2, <2>5, <2>6, <2>8, <2>9, MergeShowsNewest
  <2>11. Scopes(trail, limit, scopes) = shown
    BY <1>1, <1>9, <2>1, <2>9 DEF Scopes
  <2> QED BY <1>1, <2>10, <2>11
<1> QED BY <1>8, <1>9

(* Whatever seasons there are and in whatever order they are listed, a     *)
(* screen opens on the one the comment of CurrentSeason names; whatever    *)
(* the trail holds and whatever limit is asked for, a card of any number   *)
(* of scopes shows the newest entries of them (internal/catalog/season.go, *)
(* internal/audit/log.go).                                                 *)
THEOREM ChoicesAlwaysHold == Spec => []ChoicesHold
<1>1. OpensOnCurrent
  BY OpensOn DEF OpensOnCurrent
<1>2. CardShowsNewest
  BY CardNewest DEF CardShowsNewest
<1> QED BY <1>1, <1>2, PTL DEF ChoicesHold
=============================================================================
