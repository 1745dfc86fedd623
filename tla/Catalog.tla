------------------------------- MODULE Catalog --------------------------------
(***************************************************************************)
(* Seasons, drops, models and milestone types: the rows, what the trail    *)
(* says of them, and the requests that create, save and list them          *)
(* (internal/catalog and internal/milestones/type.go behind the handlers   *)
(* of internal/http, on internal/postgres/tx.go).                          *)
(*                                                                         *)
(* Here a step is one statement, so that a transaction can be seen open:   *)
(* it holds a connection of the pool, its writes are visible to no other,  *)
(* and a write waits for the row, and for the name, an open transaction    *)
(* has written.  A name is what it is in lower case, which is what the     *)
(* unique indexes compare.  The target date of a drop and the description  *)
(* of a type are written the way the start date of a season is and are     *)
(* left out.                                                               *)
(***************************************************************************)
EXTENDS Integers, FiniteSets

CONSTANTS
  Clients,          \* the requests the server runs at a time
  Seasons, Drops, Models, Types,   \* the identifiers of each table
  Names,            \* names, in the order of the alphabet
  Horizon,          \* bound: the last day a season starts
  MaxConns,         \* the connections of the pool
  MaxRequests,      \* bound: how many requests there are in a behaviour
  Held,             \* the rows there are to begin with
  None              \* no row

Ids == Seasons \cup Drops \cup Models \cup Types

Days == 0..Horizon      \* 0 where a row has no start date

Row == [name : Names, day : Days, active : BOOLEAN, parent : Ids \cup {None}]

(* season_name_key, drop_season_name_key and milestone_type_name_key.  Two *)
(* models may hold one article.                                            *)
SameKey(i, r, j, s) ==
  /\ r.name = s.name /\ r.parent = s.parent
  /\ \E table \in {Seasons, Drops, Types} : i \in table /\ j \in table

UniqueNames(held) ==
  \A i, j \in DOMAIN held : i # j => ~SameKey(i, held[i], j, held[j])

(* The foreign keys season_id of a drop and drop_id of a model.            *)
HasParent(i, row, held) ==
  /\ i \in Drops  => row.parent \in Seasons \cap held
  /\ i \in Models => row.parent \in Drops \cap held

ASSUME CatalogAssumption ==
  /\ IsFiniteSet(Clients)
  /\ Horizon \in Nat /\ MaxConns \in Nat \ {0} /\ MaxRequests \in Nat
  /\ Seasons \cap Drops = {} /\ (Seasons \cup Drops) \cap Models = {}
  /\ (Seasons \cup Drops \cup Models) \cap Types = {}
  /\ None \notin Ids
  /\ DOMAIN Held \subseteq Ids
  /\ \A i \in DOMAIN Held : Held[i] \in Row /\ HasParent(i, Held[i], DOMAIN Held)
  /\ UniqueNames(Held)

VARIABLES
  rows,       \* the tables, as committed
  told,       \* what the last entries of a row say it is, and when it was said
  calendars,  \* the models whose calendar was built
  clock,      \* the time the last entry was stamped with
  req,        \* where each client stands in its request
  asked,      \* how many requests were made (bounded by MaxRequests)
  alone       \* history: no two requests were open at a time so far

vars == <<rows, told, calendars, clock, req, asked, alone>>

-----------------------------------------------------------------------------
(* Types.                                                                  *)

Fields == {"name", "day", "active"}

Told == [name : Names, day : Days, active : BOOLEAN, at : 0..MaxRequests]

Says(row, at) == [name |-> row.name, day |-> row.day, active |-> row.active, at |-> at]

Answers == {"none", "saved", "taken", "missing", "refused", "failed", "shown", "bare", "untold"}

\* Mutant: the trail is recorded first, and the row written after it.
StatementsTrailFirst == <<"record", "lock", "write", "commit">>

(* What runs inside InTx.  An update is one statement that takes the row   *)
(* first and the index entry of its name after it.                         *)
Statements == <<"lock", "write", "record", "commit">>

InTx(c) == \E i \in 1..4 : req[c].step = Statements[i]

(* A row that is being written, and what the trail is to say of it.        *)
Writes ==
  [step : {"begin"} \cup {Statements[i] : i \in 1..4}, id : Ids, row : Row,
   fields : SUBSET Fields, path : BOOLEAN, at : 0..MaxRequests]

RequestOK(r) ==
  r \in [step : {"idle"}, answer : Answers, id : Ids \cup {None}]
       \cup [step : {"offer"}, row : Row]
       \cup [step : {"parent"}, row : Row, path : BOOLEAN]
       \cup [step : {"hold", "calendar", "card"}, id : Ids]
       \cup Writes
       \cup [step : {"seasons"}]
       \cup [step : {"drops"}, seasons : SUBSET Seasons, drops : SUBSET Drops]
       \cup [step : {"trail"}, id : Ids, at : 0..MaxRequests]

(* Every type of the variables.  An entry has the time it was stamped.     *)
TypeOK ==
  /\ DOMAIN rows \subseteq Ids
  /\ \A i \in DOMAIN rows : rows[i] \in Row
  /\ \A i \in DOMAIN told : told[i] \in Told
  /\ \A i \in DOMAIN told \ DOMAIN Held : told[i].at > 0
  /\ calendars \subseteq Models
  /\ clock \in 0..MaxRequests
  /\ DOMAIN req = Clients
  /\ \A c \in Clients : RequestOK(req[c])
  /\ asked \in 0..MaxRequests
  /\ alone \in BOOLEAN

Idle(answer, id) == [step |-> "idle", answer |-> answer, id |-> id]

Init ==
  /\ rows = Held
  /\ told = [i \in DOMAIN Held |-> Says(Held[i], 0)]
  /\ calendars = {}
  /\ clock = 0
  /\ req = [c \in Clients |-> Idle("none", None)]
  /\ asked = 0
  /\ alone = TRUE

-----------------------------------------------------------------------------
(* Requests and the pool.                                                  *)

At(c, step) == req[c].step = step

Goto(c, next) == req' = [req EXCEPT ![c] = next]

Answer(c, answer) == Goto(c, Idle(answer, None))

(* A statement outside a transaction, and the begin of one, take a         *)
(* connection; a transaction keeps it.                                     *)
Connection == Cardinality({c \in Clients : InTx(c)}) < MaxConns

Begin(c, next) ==
  /\ At(c, "idle") /\ asked < MaxRequests
  /\ asked' = asked + 1
  /\ alone' = (alone /\ \A d \in Clients : At(d, "idle"))
  /\ Goto(c, next)
  /\ UNCHANGED <<rows, told, calendars, clock>>

(* A statement or the commit fails, or the server goes away: what the open *)
(* transaction wrote is rolled back.                                       *)
Fail(c) ==
  /\ ~At(c, "idle")
  /\ Answer(c, "failed")
  /\ UNCHANGED <<rows, told, calendars, clock, asked, alone>>

(* ids.New: no row and no request has the identifier.                      *)
New(table) ==
  {i \in table \ DOMAIN rows :
     \A d \in Clients : ~(InTx(d) \/ req[d].step \in {"begin", "idle"}) \/ req[d].id # i}

Write(id, row, fields, path) ==
  [step |-> "begin", id |-> id, row |-> row, fields |-> fields, path |-> path, at |-> 0]

-----------------------------------------------------------------------------
(* The create forms.  An empty field is refused.                           *)

Refuse(c) == Begin(c, Idle("refused", None))

NewRow(name, day, parent) ==
  [name |-> name, day |-> day, active |-> TRUE, parent |-> parent]

NewSeason(name, day) == NewRow(name, day, None)
NewType(name) == NewRow(name, 0, None)
NewDrop(name, season) == NewRow(name, 0, season)
NewModel(article, drop) == NewRow(article, 0, drop)

CreateSeason(c) ==
  \E name \in Names, day \in Days \ {0}, id \in New(Seasons) :
    Begin(c, Write(id, NewSeason(name, day), {}, FALSE))

CreateType(c) ==
  \E name \in Names, id \in New(Types) :
    Begin(c, Write(id, NewType(name), {}, FALSE))

CreateDrop(c) ==
  \E name \in Names, season \in Seasons :
    Begin(c, [step |-> "parent", row |-> NewDrop(name, season), path |-> FALSE])

CreateModel(c) ==
  \E article \in Names, drop \in Drops :
    Begin(c, [step |-> "offer", row |-> NewModel(article, drop)])

(* offerTemplates and offersTemplate: the active templates, edited         *)
(* elsewhere at any time, are read before the model is written, and the    *)
(* one that was posted, if any, is one of them.                            *)
OfferPaths(c) ==
  /\ At(c, "offer") /\ Connection
  /\ \/ Answer(c, "refused")
     \/ \E path \in BOOLEAN :
          Goto(c, [step |-> "parent", row |-> req[c].row, path |-> path])
  /\ UNCHANGED <<rows, told, calendars, clock, asked, alone>>

(* The season of a new drop, and the drop of a new model, is there.  That  *)
(* it is still in work is a matter of what the form offers.                *)
HoldParent(c) ==
  /\ At(c, "parent") /\ Connection
  /\ LET row   == req[c].row
         table == IF row.parent \in Seasons THEN Drops ELSE Models
     IN  IF row.parent \notin DOMAIN rows THEN Answer(c, "refused")
         ELSE IF New(table) = {} THEN Answer(c, "failed")     \* bound: identifiers
         ELSE \E id \in New(table) : Goto(c, Write(id, row, {}, req[c].path))
  /\ UNCHANGED <<rows, told, calendars, clock, asked, alone>>

-----------------------------------------------------------------------------
(* The save forms.  A row is never deleted, so what the handler finds the   *)
(* service finds.                                                          *)

Save(c, id) == Begin(c, [step |-> "hold", id |-> id])

SaveSeason(c) == \E id \in Seasons : Save(c, id)
SaveDrop(c)   == \E id \in Drops   : Save(c, id)
SaveModel(c)  == \E id \in Models  : Save(c, id)
SaveType(c)   == \E id \in Types   : Save(c, id)

(* UpdateSeason, UpdateDrop, UpdateModel and UpdateType: what the form may *)
(* make of the row that was read.                                          *)
Edited(row, name, active) == [row EXCEPT !.name = name, !.active = active]

Renamed(row) == {Edited(row, name, active) : name \in Names, active \in BOOLEAN}

UpdatedSeason(row) == {[r EXCEPT !.day = day] : r \in Renamed(row), day \in Days \ {0}}
UpdatedDrop(row)   == Renamed(row)
UpdatedModel(row)  == Renamed(row)
UpdatedType(row)   == Renamed(row)

Updated(id, row) ==
  IF id \in Seasons THEN UpdatedSeason(row) ELSE
  IF id \in Drops THEN UpdatedDrop(row) ELSE
  IF id \in Models THEN UpdatedModel(row) ELSE UpdatedType(row)

\* Mutant: the edit forgets to name the flag.
MovedButActive(old, new) == {f \in {"name", "day"} : old[f] # new[f]}

(* The fields the trail will name.                                         *)
Moved(old, new) == {f \in Fields : old[f] # new[f]}

(* The row is read with no transaction open, and is written back whole.    *)
HoldRow(c) ==
  /\ At(c, "hold") /\ Connection
  /\ LET id == req[c].id
     IN  IF id \notin DOMAIN rows THEN Answer(c, "missing")
         ELSE \E new \in Updated(id, rows[id]) :
                IF new = rows[id] THEN Goto(c, Idle("saved", id))
                ELSE Goto(c, Write(id, new, Moved(rows[id], new), FALSE))
  /\ UNCHANGED <<rows, told, calendars, clock, asked, alone>>

-----------------------------------------------------------------------------
(* InTx, one statement after the other.                                    *)

(* The transaction of d has run the statement s.                           *)
Ran(d, s) ==
  \E i, j \in 1..4 : i < j /\ Statements[i] = s /\ req[d].step = Statements[j]

Then(c, record) ==
  \E i \in 1..3 : /\ req[c].step = Statements[i]
                  /\ Goto(c, [record EXCEPT !.step = Statements[i + 1]])

BeginTx(c) ==
  /\ At(c, "begin") /\ Connection
  /\ Goto(c, [req[c] EXCEPT !.step = Statements[1]])
  /\ UNCHANGED <<rows, told, calendars, clock, asked, alone>>

(* An open transaction has written the row.                                *)
RowHeld(c, d) == At(c, "lock") /\ Ran(d, "lock") /\ req[d].id = req[c].id

(* An open transaction gives the row a name, or takes a name from it: only *)
(* its end says whether the name is free.                                  *)
NameHeld(c, d) ==
  LET mine == req[c]  theirs == req[d]
  IN  /\ At(c, "write") /\ Ran(d, "lock") /\ theirs.id # mine.id
      /\ \/ Ran(d, "write") /\ SameKey(mine.id, mine.row, theirs.id, theirs.row)
         \/ /\ theirs.id \in DOMAIN rows
            /\ SameKey(mine.id, mine.row, theirs.id, rows[theirs.id])

WaitsFor(c, d) == c # d /\ (RowHeld(c, d) \/ NameHeld(c, d))

LockRow(c) ==
  /\ At(c, "lock")
  /\ \A d \in Clients : ~WaitsFor(c, d)
  /\ Then(c, req[c])
  /\ UNCHANGED <<rows, told, calendars, clock, asked, alone>>

(* catalogError: a name that another row holds is the answer of the form.  *)
WriteName(c) ==
  /\ At(c, "write")
  /\ \A d \in Clients : ~WaitsFor(c, d)
  /\ IF \E j \in DOMAIN rows \ {req[c].id} :
          SameKey(req[c].id, req[c].row, j, rows[j])
     THEN Answer(c, "taken")
     ELSE Then(c, req[c])
  /\ UNCHANGED <<rows, told, calendars, clock, asked, alone>>

(* Two renames that swap their names wait for each other: the database     *)
(* sees the circle and ends one of them.                                   *)
Deadlocked(c) ==
  /\ \E circle \in SUBSET Clients :
       c \in circle /\ \A d \in circle : \E e \in circle : WaitsFor(d, e)
  /\ Answer(c, "failed")
  /\ UNCHANGED <<rows, told, calendars, clock, asked, alone>>

SaysNow(id, row, fields, at) ==
  [i \in DOMAIN told \cup {id} |->
     IF i # id THEN told[i]
     ELSE IF id \notin DOMAIN told THEN Says(row, at)
     ELSE [name   |-> IF "name"   \in fields THEN row.name   ELSE told[id].name,
           day    |-> IF "day"    \in fields THEN row.day    ELSE told[id].day,
           active |-> IF "active" \in fields THEN row.active ELSE told[id].active,
           at     |-> at]]

\* Mutant: the trail is written on a connection of its own.
RecordTrailApart(c) ==
  /\ At(c, "record") /\ Connection
  /\ clock' = clock + 1
  /\ told' = SaysNow(req[c].id, req[c].row, req[c].fields, clock')
  /\ Then(c, [req[c] EXCEPT !.at = clock'])
  /\ UNCHANGED <<rows, calendars, asked, alone>>

(* RecordTrail stamps the entries with the time, and Record joins the      *)
(* transaction that is open.                                               *)
RecordTrail(c) ==
  /\ At(c, "record")
  /\ clock' = clock + 1
  /\ Then(c, [req[c] EXCEPT !.at = clock'])
  /\ UNCHANGED <<rows, told, calendars, asked, alone>>

CommitTx(c) ==
  /\ At(c, "commit")
  /\ LET r == req[c]
     IN  /\ rows' = [i \in DOMAIN rows \cup {r.id} |-> IF i = r.id THEN r.row ELSE rows[i]]
         /\ told' = SaysNow(r.id, r.row, r.fields, r.at)
         /\ Goto(c, IF r.path THEN [step |-> "calendar", id |-> r.id]
                              ELSE Idle("saved", r.id))
  /\ UNCHANGED <<calendars, clock, asked, alone>>

\* Mutant: a template that is gone refuses the form.
StartCalendarStrict(c) ==
  /\ At(c, "calendar") /\ Connection
  /\ LET id == req[c].id
     IN  \/ calendars' = calendars \cup {id} /\ Goto(c, Idle("saved", id))
         \/ UNCHANGED calendars /\ Goto(c, Idle("refused", id))
  /\ UNCHANGED <<rows, told, clock, asked, alone>>

(* startCalendar applies the template in a transaction of its own          *)
(* (Calendar).  One that was retired in the meantime leaves the new model  *)
(* without a calendar.                                                     *)
StartCalendar(c) ==
  /\ At(c, "calendar") /\ Connection
  /\ calendars' \in {calendars, calendars \cup {req[c].id}}
  /\ Goto(c, Idle("saved", req[c].id))
  /\ UNCHANGED <<rows, told, clock, asked, alone>>

-----------------------------------------------------------------------------
(* ShowList of the models: the seasons, the drops of one season after the  *)
(* other, and then the models, with no transaction around them.            *)

ListModels(c) == Begin(c, [step |-> "seasons"])

Groups(seasons, drops) == [step |-> "drops", seasons |-> seasons, drops |-> drops]

ReadSeasons(c) ==
  /\ At(c, "seasons") /\ Connection
  /\ Goto(c, Groups(DOMAIN rows \cap Seasons, {}))
  /\ UNCHANGED <<rows, told, calendars, clock, asked, alone>>

ReadDrops(c) ==
  /\ At(c, "drops") /\ Connection
  /\ \E s \in req[c].seasons :
       Goto(c, Groups(req[c].seasons \ {s},
                      req[c].drops \cup {d \in DOMAIN rows \cap Drops : rows[d].parent = s}))
  /\ UNCHANGED <<rows, told, calendars, clock, asked, alone>>

(* The filter keeps some of the models, and modelRows looks the drop of    *)
(* each up in the groups: a row whose drop is not there has no name.       *)
ReadModels(c) ==
  /\ At(c, "drops") /\ req[c].seasons = {} /\ Connection
  /\ \E kept \in SUBSET (DOMAIN rows \cap Models) :
       Answer(c, IF \A m \in kept : rows[m].parent \in req[c].drops THEN "shown" ELSE "bare")
  /\ UNCHANGED <<rows, told, calendars, clock, asked, alone>>

-----------------------------------------------------------------------------
(* The cards: a row, and the trail of it in a statement of its own, which  *)
(* is what a refused form shows as well.                                   *)

ShowCard(c) == \E id \in Ids : Begin(c, [step |-> "card", id |-> id])

(* loadOne.  at is when the row that was read was last written.            *)
ReadCard(c) ==
  /\ At(c, "card") /\ Connection
  /\ Goto(c, IF req[c].id \notin DOMAIN rows THEN Idle("missing", None)
             ELSE [step |-> "trail", id |-> req[c].id, at |-> told[req[c].id].at])
  /\ UNCHANGED <<rows, told, calendars, clock, asked, alone>>

\* Mutant: the first statement reads the trail, and this one the row.
ReadTrailFirst(c) ==
  /\ At(c, "trail") /\ Connection
  /\ Answer(c, IF told[req[c].id].at > req[c].at THEN "untold" ELSE "shown")
  /\ UNCHANGED <<rows, told, calendars, clock, asked, alone>>

(* LoadTrail.  A trail that ends before the row was written leaves the     *)
(* write untold.                                                           *)
ReadTrail(c) ==
  /\ At(c, "trail") /\ Connection
  /\ Answer(c, IF told[req[c].id].at < req[c].at THEN "untold" ELSE "shown")
  /\ UNCHANGED <<rows, told, calendars, clock, asked, alone>>

-----------------------------------------------------------------------------
(* What a client may ask for, and what the server does about it.           *)
Asks(c) ==
  \/ CreateSeason(c) \/ CreateType(c) \/ CreateDrop(c) \/ CreateModel(c)
  \/ SaveSeason(c) \/ SaveDrop(c) \/ SaveModel(c) \/ SaveType(c)
  \/ ListModels(c) \/ ShowCard(c) \/ Refuse(c)

Serves(c) ==
  \/ OfferPaths(c) \/ HoldParent(c) \/ HoldRow(c)
  \/ BeginTx(c) \/ LockRow(c) \/ WriteName(c) \/ Deadlocked(c)
  \/ RecordTrail(c) \/ CommitTx(c) \/ StartCalendar(c)
  \/ ReadSeasons(c) \/ ReadDrops(c) \/ ReadModels(c)
  \/ ReadCard(c) \/ ReadTrail(c)

Next == \E c \in Clients : Asks(c) \/ Serves(c) \/ Fail(c)

Spec == Init /\ [][Next]_vars

(* The goroutine of a request runs, and the database answers it.           *)
FairSpec == Spec /\ \A c \in Clients : WF_vars(Serves(c))
-----------------------------------------------------------------------------
(* Properties.                                                             *)

(* Two rows of a table never share a name, whoever creates and renames at  *)
(* the same moment, though no request looks for the name before it writes. *)
NamesUnique ==
  \A i, j \in DOMAIN rows :
    /\ rows[i].name = rows[j].name /\ rows[i].parent = rows[j].parent
    /\ \E table \in {Seasons, Drops, Types} : i \in table /\ j \in table
    => i = j

(* The trail is written with the row it tells of: it tells of every row,   *)
(* and of no row that was rolled back.                                     *)
TrailOfRows == DOMAIN told = DOMAIN rows

(* The trail of a row is read by the time of its entries: of two writes of *)
(* one row, the later has the later time, however long it waited.          *)
TrailInOrder ==
  [][\A i \in DOMAIN told : told'[i] # told[i] => told'[i].at > told[i].at]_vars

(* As long as no two requests were open at a time, the last entries of a   *)
(* row say what it holds.                                                  *)
TrailTellsAlone ==
  alone => \A i \in DOMAIN rows : told[i] = Says(rows[i], told[i].at)

(* A form that comes back, to be posted again, wrote nothing: the model    *)
(* and its calendar are two transactions, and articles are not unique.     *)
RefusalLeavesNoRow ==
  \A c \in Clients :
    At(c, "idle") /\ req[c].answer \in {"refused", "taken"} => req[c].id \notin DOMAIN rows

(* As long as no two requests were open at a time, every model of the list *)
(* is shown under its drop and its season, in work or not.                 *)
ListedNamedAlone ==
  alone => \A c \in Clients : At(c, "idle") => req[c].answer # "bare"

(* A card has no transaction around its statements, and still shows no row *)
(* that is newer than the trail beside it, whatever commits in between.    *)
CardNotBehind == \A c \in Clients : At(c, "idle") => req[c].answer # "untold"

(* Every request comes to an end: the connections and the rows that        *)
(* transactions hold are no reason to wait for ever.                       *)
EveryRequestEnds == \A c \in Clients : ~At(c, "idle") ~> At(c, "idle")

(* The tables stand: names are unique, the trail tells of every row and of *)
(* no other, and a form that comes back left nothing behind.               *)
TablesStand == TypeOK /\ NamesUnique /\ TrailOfRows /\ RefusalLeavesNoRow

(* Screens: what is read in more than one statement hides nothing of what  *)
(* it names and shows nothing it cannot account for.                       *)
ScreensAgree == ListedNamedAlone /\ CardNotBehind /\ TrailTellsAlone
=============================================================================
