------------------------------ MODULE ItemsProofs ------------------------------
(***************************************************************************)
(* What holds of the steps of a template for every number of requests,     *)
(* types and rows: a step is named once, has a place of its own, and the   *)
(* trail knows its offset, however the requests interleave; and as long    *)
(* as they come one after the other, the places count from 0 and every     *)
(* change lands.                                                           *)
(***************************************************************************)
EXTENDS TemplateItems, PositionsProofs

(* A type names one row of those held.                                     *)
Once(held) == \A i, j \in DOMAIN held : held[i].type = held[j].type => i = j

(* The entries say leave the offsets of the rows held.                     *)
Tells(say, held) ==
  /\ DOMAIN say = TypesOf(held)
  /\ \A i \in DOMAIN held : say[held[i].type] = held[i].offset

(* What is known of a request between two of its steps: the row it writes  *)
(* or removes has the type it read, since an identifier is handed out      *)
(* once and a row keeps its type.                                          *)
RequestStands(r) ==
  /\ r.step = "write" => /\ r.at \in spent
                         /\ r.at \in DOMAIN items => items[r.at].type = r.row.type
  /\ r.step = "delete" => /\ r.at \in spent
                          /\ r.at \in DOMAIN items => items[r.at].type = r.type

(* What is known of it besides while nobody else is at the template: what  *)
(* it read is still so, and no answer before it named the order key.       *)
Fits(r) ==
  /\ r.step = "idle" => r.answer # "order"
  /\ r.step = "insert" => r.row.position = Cardinality(DOMAIN items)
  /\ r.step = "write" => /\ r.at \in DOMAIN items
                         /\ r.row.position = items[r.at].position
  /\ r.step = "delete" => /\ r.at \in DOMAIN items
                          /\ r.positions = Ranks(Without(PositionOf(items), r.at))
  /\ r.step = "arrange" => Numbers(r.positions, DOMAIN items)

(* As long as no two requests were open at a time, the places count from 0 *)
(* with no gap.                                                            *)
OneAtATime ==
  alone =>
    /\ \A c, d \in Clients : ~At(c, "idle") /\ ~At(d, "idle") => c = d
    /\ Numbers(PositionOf(items), DOMAIN items)
    /\ \A c \in Clients : Fits(req[c])

(* The inductive invariant.                                                *)
IInv ==
  /\ TypeOK /\ TypeOnce /\ PlacesDistinct /\ TrailTells
  /\ \A c \in Clients : RequestStands(req[c])
  /\ OneAtATime

-----------------------------------------------------------------------------
(* The operators on rows.                                                  *)

(* The table holds a finite number of rows.                                *)
LEMMA RowsAreFinite ==
  ASSUME TypeOK
  PROVE  IsFiniteSet(DOMAIN items)
<1>1. DOMAIN items \subseteq Items
  BY DEF TypeOK
<1> QED BY <1>1, ItemsAssumption, FS_Subset

(* An order that is written moves places and nothing else.                 *)
LEMMA OrderMovesPlaces ==
  ASSUME NEW held, NEW positions,
         \A i \in DOMAIN held : held[i] \in Row,
         \A i \in DOMAIN positions : positions[i] \in Nat
  PROVE  /\ DOMAIN SetPositions(held, positions) = DOMAIN held
         /\ \A i \in DOMAIN held : /\ SetPositions(held, positions)[i] \in Row
                                   /\ SetPositions(held, positions)[i].type = held[i].type
                                   /\ SetPositions(held, positions)[i].offset = held[i].offset
         /\ Numbers(positions, DOMAIN held)
              => Numbers(PositionOf(SetPositions(held, positions)), DOMAIN held)
<1>1. DOMAIN SetPositions(held, positions) = DOMAIN held
  BY DEF SetPositions
<1>2. ASSUME NEW i \in DOMAIN held
      PROVE  /\ SetPositions(held, positions)[i] \in Row
             /\ SetPositions(held, positions)[i].type = held[i].type
             /\ SetPositions(held, positions)[i].offset = held[i].offset
             /\ i \in DOMAIN positions => SetPositions(held, positions)[i].position = positions[i]
  <2>1. held[i] \in Row
    OBVIOUS
  <2>2. SetPositions(held, positions)[i] =
          IF i \in DOMAIN positions THEN [held[i] EXCEPT !.position = positions[i]] ELSE held[i]
    BY DEF SetPositions
  <2>3. CASE i \in DOMAIN positions
    <3>1. positions[i] \in Nat
      BY <2>3
    <3> QED BY <2>1, <2>2, <2>3, <3>1 DEF Row
  <2>4. CASE i \notin DOMAIN positions
    BY <2>1, <2>2, <2>4
  <2> QED BY <2>3, <2>4
<1>3. ASSUME Numbers(positions, DOMAIN held)
      PROVE  Numbers(PositionOf(SetPositions(held, positions)), DOMAIN held)
  <2> DEFINE pos == PositionOf(SetPositions(held, positions))
  <2>1. DOMAIN pos = DOMAIN held /\ DOMAIN positions = DOMAIN held
    BY <1>1, <1>3 DEF PositionOf, Numbers
  <2>2. ASSUME NEW i \in DOMAIN held PROVE pos[i] = positions[i]
    BY <1>1, <1>2, <2>1 DEF PositionOf
  <2> HIDE DEF pos
  <2>3. Distinct(pos) /\ Range(pos) = Range(positions)
    BY <1>3, <2>1, <2>2 DEF Numbers, Distinct, IsInjective, Range
  <2> QED BY <1>3, <2>1, <2>3 DEF Numbers, Gapless, pos
<1> QED BY <1>1, <1>2, <1>3

(* Rows that keep their types and offsets are told as they were.           *)
LEMMA SameTold ==
  ASSUME NEW was, NEW held, NEW say, DOMAIN held = DOMAIN was,
         \A i \in DOMAIN was : held[i].type = was[i].type /\ held[i].offset = was[i].offset
  PROVE  /\ Once(was) => Once(held)
         /\ Tells(say, was) => Tells(say, held)
<1>1. Once(was) => Once(held)
  BY DEF Once
<1>2. TypesOf(held) = TypesOf(was)
  BY DEF TypesOf
<1>3. ASSUME Tells(say, was) PROVE Tells(say, held)
  <2>1. DOMAIN say = TypesOf(held)
    BY <1>2, <1>3 DEF Tells
  <2>2. \A i \in DOMAIN held : say[held[i].type] = held[i].offset
    BY <1>3 DEF Tells
  <2> QED BY <2>1, <2>2 DEF Tells
<1> QED BY <1>1, <1>3

-----------------------------------------------------------------------------
(* The requests.                                                           *)

(* What one request goes on with.                                          *)
LEMMA OthersKept ==
  ASSUME IInv, NEW c \in Clients, NEW next, req' = [req EXCEPT ![c] = next]
  PROVE  /\ DOMAIN req' = Clients /\ req'[c] = next
         /\ \A d \in Clients \ {c} : req'[d] = req[d]
BY DEF IInv, TypeOK

(* A step that leaves the rows.                                            *)
LEMMA LeavesRows ==
  ASSUME IInv, NEW c \in Clients, NEW next, req' = [req EXCEPT ![c] = next],
         UNCHANGED <<items, spent, told>>, RequestOK(next), RequestStands(next),
         asked' \in 0..MaxRequests, alone' \in BOOLEAN,
         alone' => /\ alone /\ Fits(next)
                   /\ \A d \in Clients \ {c} : At(d, "idle")
  PROVE  IInv'
<1>1. /\ DOMAIN req' = Clients /\ req'[c] = next
      /\ \A d \in Clients \ {c} : req'[d] = req[d]
  BY OthersKept
<1>2. TypeOK'
  BY <1>1 DEF IInv, TypeOK
<1>3. TypeOnce' /\ PlacesDistinct' /\ TrailTells'
  BY DEF IInv, TypeOnce, PlacesDistinct, TrailTells
<1>4. \A d \in Clients : RequestStands(req[d])'
  BY <1>1 DEF IInv, RequestStands
<1>5. ASSUME alone' PROVE \A d \in Clients \ {c} : At(d, "idle")'
  BY <1>1, <1>5 DEF At
<1>6. ASSUME alone' PROVE OneAtATime'
  <2>1. alone /\ Fits(next)'
    BY <1>6 DEF Fits
  <2>2. \A d \in Clients : Fits(req[d])'
    BY <1>1, <2>1 DEF IInv, OneAtATime, Fits
  <2> QED BY <1>5, <1>6, <2>1, <2>2 DEF IInv, OneAtATime, At
<1>7. OneAtATime'
  BY <1>6 DEF OneAtATime
<1> QED BY <1>2, <1>3, <1>4, <1>7 DEF IInv

(* A request that is open is the only one while requests do not overlap.   *)
LEMMA OnlyOpen ==
  ASSUME IInv, NEW c \in Clients, ~At(c, "idle"), alone
  PROVE  \A d \in Clients \ {c} : At(d, "idle")
BY DEF IInv, OneAtATime

(* A read, or an end, of one request.                                      *)
LEMMA Reads ==
  ASSUME IInv, NEW c \in Clients, ~At(c, "idle"), NEW next, Goto(c, next),
         UNCHANGED <<items, spent, told, asked, alone>>,
         RequestOK(next), RequestStands(next), alone => Fits(next)
  PROVE  IInv'
<1>1. req' = [req EXCEPT ![c] = next]
  BY DEF Goto
<1> QED BY <1>1, OnlyOpen, LeavesRows DEF IInv, TypeOK

(* An answer holds nothing.                                                *)
LEMMA Ends ==
  ASSUME IInv, NEW c \in Clients, ~At(c, "idle"), NEW answer \in Answers \ {"order"},
         Answer(c, answer), UNCHANGED <<items, spent, told, asked, alone>>
  PROVE  IInv'
<1> DEFINE next == [step |-> "idle", answer |-> answer]
<1>1. RequestOK(next) /\ RequestStands(next) /\ Fits(next)
  BY DEF RequestOK, RequestStands, Fits
<1>2. Goto(c, next)
  BY DEF Answer
<1> HIDE DEF next
<1> QED BY <1>1, <1>2, Reads

(* A request begins.                                                       *)
LEMMA Begins ==
  ASSUME IInv, NEW c \in Clients, NEW next, Begin(c, next), RequestOK(next),
         \/ next.step \in {"add", "pick", "remove", "reorder"}
         \/ next.step = "idle" /\ next.answer = "refused"
  PROVE  IInv'
<1>1. /\ req' = [req EXCEPT ![c] = next] /\ UNCHANGED <<items, spent, told>>
      /\ asked < MaxRequests /\ asked' = asked + 1
      /\ alone' = (alone /\ \A d \in Clients : At(d, "idle"))
  BY DEF Begin, Goto
<1>2. asked' \in 0..MaxRequests
  BY <1>1, ItemsAssumption DEF IInv, TypeOK
<1>3. alone' \in BOOLEAN
  BY <1>1 DEF IInv, TypeOK
<1>4. RequestStands(next) /\ Fits(next)
  BY DEF RequestStands, Fits
<1> QED BY <1>1, <1>2, <1>3, <1>4, LeavesRows

(* A commit of rows that are named once and told, whose old rows keep      *)
(* their types, and which are numbered as long as nobody overlaps.         *)
LEMMA Commits ==
  ASSUME IInv, NEW c \in Clients, ~At(c, "idle"), NEW held, NEW say, Commit(c, held, say),
         DOMAIN held \subseteq Items, \A i \in DOMAIN held : held[i] \in Row,
         \A i \in DOMAIN held \cap spent : i \in DOMAIN items /\ held[i].type = items[i].type,
         Once(held), Tells(say, held),
         alone => Numbers(PositionOf(held), DOMAIN held)
  PROVE  IInv'
<1>1. UNCHANGED <<asked, alone>>
  BY DEF Commit
<1>2. CASE Distinct(PositionOf(held))
  <2> DEFINE next == [step |-> "idle", answer |-> "saved"]
  <2>1. /\ items' = held /\ spent' = spent \cup DOMAIN held /\ told' = say
        /\ req' = [req EXCEPT ![c] = next]
    BY <1>2 DEF Commit, Answer, Goto
  <2>2. /\ DOMAIN req' = Clients /\ req'[c] = next
        /\ \A d \in Clients \ {c} : req'[d] = req[d]
    BY <2>1, OthersKept
  <2>3. /\ RequestOK(next) /\ next.step = "idle" /\ next.answer = "saved"
        /\ Fits(next)'
    BY DEF RequestOK, Answers, Fits
  <2>4. DOMAIN say \subseteq Types /\ \A t \in DOMAIN say : say[t] \in Offsets
    BY DEF Tells, TypesOf, Row
  <2> HIDE DEF next
  <2>5. TypeOK'
    BY <1>1, <2>1, <2>2, <2>3, <2>4 DEF IInv, TypeOK
  <2>6. TypeOnce' /\ PlacesDistinct' /\ TrailTells'
    BY <1>2, <2>1 DEF TypeOnce, PlacesDistinct, TrailTells, Once, Tells, TypesOf
  <2>7. ASSUME NEW d \in Clients PROVE RequestStands(req[d])'
    <3>1. CASE d = c
      BY <3>1, <2>2, <2>3 DEF RequestStands
    <3>2. CASE d # c
      BY <3>2, <2>1, <2>2 DEF IInv, RequestStands
    <3> QED BY <3>1, <3>2
  <2>8. OneAtATime'
    <3> SUFFICES ASSUME alone PROVE OneAtATime'
      BY <1>1 DEF OneAtATime
    <3>1. \A d \in Clients \ {c} : At(d, "idle")
      BY OnlyOpen
    <3>2. ASSUME NEW d \in Clients PROVE Fits(req[d])'
      <4>1. CASE d = c
        BY <4>1, <2>2, <2>3
      <4>2. CASE d # c
        BY <4>2, <2>2, <3>1 DEF Fits, At, IInv, OneAtATime
      <4> QED BY <4>1, <4>2
    <3> QED BY <2>1, <2>2, <2>3, <3>1, <3>2 DEF OneAtATime, At
  <2> QED BY <2>5, <2>6, <2>7, <2>8 DEF IInv
<1>3. CASE ~Distinct(PositionOf(held))
  <2> DEFINE next == [step |-> "idle", answer |-> "order"]
  <2>1. UNCHANGED <<items, spent, told>> /\ Goto(c, next) /\ ~alone
    BY <1>3 DEF Commit, Answer, Numbers
  <2>2. RequestOK(next) /\ RequestStands(next)
    BY DEF RequestOK, RequestStands, Answers
  <2> HIDE DEF next
  <2> QED BY <1>1, <2>1, <2>2, Reads
<1> QED BY <1>2, <1>3

-----------------------------------------------------------------------------
(* The steps.                                                              *)

(* A new step takes the place at the end of the list it reads.             *)
LEMMA Holds ==
  ASSUME IInv, NEW c \in Clients, HoldItems(c)
  PROVE  IInv'
<1> DEFINE row == [type |-> req[c].type, offset |-> req[c].offset,
                   position |-> Cardinality(DOMAIN items)]
           next == [step |-> "insert", row |-> row]
<1>1. /\ ~At(c, "idle") /\ req[c].type \in Types /\ req[c].offset \in Offsets
      /\ UNCHANGED <<items, spent, told, asked, alone>>
  BY DEF HoldItems, At, IInv, TypeOK, RequestOK
<1>2. CASE req[c].type \in TypesOf(items)
  <2>1. Answer(c, "taken") /\ "taken" \in Answers \ {"order"}
    BY <1>2 DEF HoldItems, Answers
  <2> QED BY <1>1, <2>1, Ends
<1>3. CASE req[c].type \notin TypesOf(items)
  <2>1. Goto(c, next)
    BY <1>3 DEF HoldItems
  <2>2. Cardinality(DOMAIN items) \in Nat
    BY RowsAreFinite, FS_CardinalityType DEF IInv
  <2>3. RequestOK(next) /\ RequestStands(next) /\ Fits(next)
    BY <1>1, <2>2 DEF RequestOK, RequestStands, Fits, Row
  <2> HIDE DEF next
  <2> QED BY <1>1, <2>1, <2>3, Reads
<1> QED BY <1>2, <1>3

(* One more row, under an identifier nobody had, of a type no row names.   *)
LEMMA Inserts ==
  ASSUME IInv, NEW c \in Clients, InsertItem(c)
  PROVE  IInv'
<1>1. PICK row : row = req[c].row
  OBVIOUS
<1>2. ~At(c, "idle") /\ req[c].step = "insert" /\ row \in Row
  BY <1>1 DEF InsertItem, At, IInv, TypeOK, RequestOK
<1>3. CASE row.type \in TypesOf(items)
  <2>1. /\ Answer(c, "taken") /\ "taken" \in Answers \ {"order"}
        /\ UNCHANGED <<items, spent, told, asked, alone>>
    BY <1>1, <1>3 DEF InsertItem, Answers
  <2> QED BY <1>2, <2>1, Ends
<1>4. CASE row.type \notin TypesOf(items)
  <2> DEFINE say == [t \in DOMAIN told \cup {row.type} |->
                       IF t = row.type THEN row.offset ELSE told[t]]
  <2>1. PICK i \in Items \ spent :
          Commit(c, [j \in DOMAIN items \cup {i} |-> IF j = i THEN row ELSE items[j]], say)
    BY <1>1, <1>4 DEF InsertItem
  <2> DEFINE held == [j \in DOMAIN items \cup {i} |-> IF j = i THEN row ELSE items[j]]
  <2>2. /\ DOMAIN items \subseteq spent /\ spent \subseteq Items /\ i \notin DOMAIN items
        /\ \A j \in DOMAIN items : items[j] \in Row
        /\ \A j, k \in DOMAIN items : items[j].type = items[k].type => j = k
        /\ Tells(told, items)
    BY <2>1 DEF IInv, TypeOK, TypeOnce, TrailTells, Tells
  <2>3. /\ DOMAIN held = DOMAIN items \cup {i} /\ held[i] = row
        /\ \A j \in DOMAIN items : held[j] = items[j]
    BY <2>2
  <2>4. /\ DOMAIN held \subseteq Items /\ \A j \in DOMAIN held : held[j] \in Row
        /\ \A j \in DOMAIN held \cap spent : j \in DOMAIN items /\ held[j].type = items[j].type
    BY <1>2, <2>1, <2>2, <2>3
  <2>5. \A j \in DOMAIN items : items[j].type # row.type
    BY <1>4 DEF TypesOf
  <2>6. Once(held)
    BY <2>2, <2>3, <2>5 DEF Once
  <2>7. Tells(say, held)
    <3>1. TypesOf(held) = TypesOf(items) \cup {row.type}
      BY <2>3 DEF TypesOf
    <3>2. DOMAIN told = TypesOf(items) /\ \A j \in DOMAIN items : told[items[j].type] = items[j].offset
      BY <2>2 DEF Tells
    <3>3. \A j \in DOMAIN items : items[j].type \in TypesOf(items)
      BY DEF TypesOf
    <3>4. \A j \in DOMAIN held : say[held[j].type] = held[j].offset
      BY <2>3, <2>5, <3>2, <3>3
    <3> QED BY <3>1, <3>2, <3>4 DEF Tells
  <2>8. ASSUME alone PROVE Numbers(PositionOf(held), DOMAIN held)
    <3>1. /\ Numbers(PositionOf(items), DOMAIN items) /\ IsFiniteSet(DOMAIN items)
          /\ row.position = Cardinality(DOMAIN items)
      BY <1>1, <1>2, <2>8, RowsAreFinite DEF IInv, OneAtATime, Fits
    <3>2. /\ DOMAIN PositionOf(held) = DOMAIN items \cup {i}
          /\ PositionOf(held)[i] = Cardinality(DOMAIN items)
          /\ \A j \in DOMAIN items : PositionOf(held)[j] = PositionOf(items)[j]
      BY <2>3, <3>1 DEF PositionOf
    <3> HIDE DEF held
    <3> QED BY <2>2, <2>3, <3>1, <3>2, GrowsAtTheEnd
  <2>9. Commit(c, held, say)
    BY <2>1
  <2> HIDE DEF held, say
  <2> QED BY <1>2, <2>4, <2>6, <2>7, <2>8, <2>9, Commits
<1> QED BY <1>3, <1>4

(* The column that was edited: the row, and the days posted for it.        *)
LEMMA Picks ==
  ASSUME IInv, NEW c \in Clients, PickColumn(c)
  PROVE  IInv'
<1>1. /\ ~At(c, "idle") /\ req[c].at \in Items
      /\ UNCHANGED <<items, spent, told, asked, alone>>
  BY DEF PickColumn, At, IInv, TypeOK, RequestOK
<1>2. PICK i \in Items : i = req[c].at
  BY <1>1
<1>3. ASSUME NEW days \in Posted, NEW step \in {"offset", "gap"},
             Goto(c, [step |-> step, at |-> i, days |-> days])
      PROVE  IInv'
  <2> DEFINE next == [step |-> step, at |-> i, days |-> days]
  <2>1. RequestOK(next) /\ RequestStands(next) /\ Fits(next)
    BY DEF RequestOK, RequestStands, Fits
  <2> HIDE DEF next
  <2> QED BY <1>1, <1>3, <2>1, Reads DEF next
<1>4. ASSUME Answer(c, "missing") \/ Answer(c, "saved") PROVE IInv'
  <2>1. {"missing", "saved"} \subseteq Answers \ {"order"}
    BY DEF Answers
  <2> QED BY <1>1, <1>4, <2>1, Ends
<1> QED BY <1>2, <1>3, <1>4 DEF PickColumn

(* The row as it is read, with another offset.                             *)
LEMMA Moves ==
  ASSUME IInv, NEW c \in Clients, HoldOffset(c)
  PROVE  IInv'
<1>1. /\ ~At(c, "idle") /\ req[c].at \in Items
      /\ UNCHANGED <<items, spent, told, asked, alone>>
  BY DEF HoldOffset, At, IInv, TypeOK, RequestOK
<1>2. PICK i \in Items : i = req[c].at
  BY <1>1
<1>3. ASSUME NEW answer \in {"missing", "refused", "saved"}, Answer(c, answer) PROVE IInv'
  <2>1. answer \in Answers \ {"order"}
    BY DEF Answers
  <2> QED BY <1>1, <1>3, <2>1, Ends
<1>4. ASSUME i \in DOMAIN items, NEW offset \in Offsets,
             Goto(c, [step |-> "write", at |-> i, row |-> [items[i] EXCEPT !.offset = offset]])
      PROVE  IInv'
  <2> DEFINE row == [items[i] EXCEPT !.offset = offset]
             next == [step |-> "write", at |-> i, row |-> row]
  <2>1. items[i] \in Row /\ i \in spent
    BY <1>4 DEF IInv, TypeOK
  <2>2. row \in Row /\ row.type = items[i].type /\ row.position = items[i].position
    BY <2>1 DEF Row
  <2> HIDE DEF row
  <2>3. RequestOK(next) /\ RequestStands(next) /\ Fits(next)
    BY <1>4, <2>1, <2>2 DEF RequestOK, RequestStands, Fits
  <2>4. Goto(c, next)
    BY <1>4 DEF row
  <2> HIDE DEF next
  <2> QED BY <1>1, <2>3, <2>4, Reads
<1>5. \/ \E answer \in {"missing", "refused", "saved"} : Answer(c, answer)
      \/ i \in DOMAIN items /\ \E offset \in Offsets :
           Goto(c, [step |-> "write", at |-> i, row |-> [items[i] EXCEPT !.offset = offset]])
  BY <1>2 DEF HoldOffset, Accepted
<1> QED BY <1>3, <1>4, <1>5

(* A row is written back with its type, and its place while nobody else    *)
(* moves it.                                                               *)
LEMMA Writes ==
  ASSUME IInv, NEW c \in Clients, WriteItem(c)
  PROVE  IInv'
<1>1. PICK i, row : i = req[c].at /\ row = req[c].row
  OBVIOUS
<1>2. /\ ~At(c, "idle") /\ req[c].step = "write" /\ i \in Items /\ row \in Row
      /\ i \in DOMAIN items => items[i].type = row.type
  BY <1>1 DEF WriteItem, At, IInv, TypeOK, RequestOK, RequestStands
<1>3. CASE i \notin DOMAIN items
  <2>1. /\ Answer(c, "missing") /\ "missing" \in Answers \ {"order"}
        /\ UNCHANGED <<items, spent, told, asked, alone>>
    BY <1>1, <1>3 DEF WriteItem, Answers
  <2> QED BY <1>2, <2>1, Ends
<1>4. CASE i \in DOMAIN items
  <2> DEFINE held == [items EXCEPT ![i] = row]
             say  == [told EXCEPT ![row.type] = row.offset]
  <2>1. Commit(c, held, say)
    BY <1>1, <1>4 DEF WriteItem
  <2>2. /\ DOMAIN items \subseteq spent /\ spent \subseteq Items
        /\ \A j \in DOMAIN items : items[j] \in Row
        /\ \A j, k \in DOMAIN items : items[j].type = items[k].type => j = k
        /\ Tells(told, items)
    BY DEF IInv, TypeOK, TypeOnce, TrailTells, Tells
  <2>3. /\ DOMAIN held = DOMAIN items
        /\ \A j \in DOMAIN items : held[j] = IF j = i THEN row ELSE items[j]
    OBVIOUS
  <2>4. /\ DOMAIN held \subseteq Items /\ \A j \in DOMAIN held : held[j] \in Row
        /\ \A j \in DOMAIN items : held[j].type = items[j].type
    BY <1>2, <1>4, <2>2, <2>3
  <2>5. Once(held)
    BY <2>2, <2>3, <2>4 DEF Once
  <2>6. Tells(say, held)
    <3>1. TypesOf(held) = TypesOf(items)
      BY <2>3, <2>4 DEF TypesOf
    <3>2. DOMAIN told = TypesOf(items) /\ \A j \in DOMAIN items : told[items[j].type] = items[j].offset
      BY <2>2 DEF Tells
    <3>3. \A j \in DOMAIN items : items[j].type \in DOMAIN told
      BY <3>2 DEF TypesOf
    <3>4. ASSUME NEW j \in DOMAIN items PROVE say[held[j].type] = held[j].offset
      <4>1. CASE j = i
        BY <1>2, <1>4, <2>3, <3>3, <4>1
      <4>2. CASE j # i
        <5>1. items[j].type # row.type
          BY <1>2, <1>4, <2>2, <4>2
        <5> QED BY <2>3, <3>2, <3>3, <4>2, <5>1
      <4> QED BY <4>1, <4>2
    <3> QED BY <2>3, <3>1, <3>2, <3>4 DEF Tells
  <2>7. ASSUME alone PROVE Numbers(PositionOf(held), DOMAIN held)
    <3>1. Numbers(PositionOf(items), DOMAIN items) /\ row.position = items[i].position
      BY <1>1, <1>2, <2>7 DEF IInv, OneAtATime, Fits
    <3>2. PositionOf(held) = PositionOf(items)
      BY <2>3, <3>1 DEF PositionOf
    <3> QED BY <2>3, <3>1, <3>2
  <2> HIDE DEF held, say
  <2> QED BY <1>2, <2>1, <2>2, <2>3, <2>4, <2>5, <2>6, <2>7, Commits
<1> QED BY <1>3, <1>4

(* The row that is to go, and the order of those that stay.                *)
LEMMA FindsRemoved ==
  ASSUME IInv, NEW c \in Clients, HoldRemoved(c)
  PROVE  IInv'
<1> DEFINE i == req[c].at
           left == [j \in DOMAIN items \ {i} |-> items[j].position]
           next == [step |-> "delete", at |-> i, type |-> items[i].type,
                    positions |-> Ranks(left)]
<1>1. i \in Items /\ ~At(c, "idle") /\ UNCHANGED <<items, spent, told, asked, alone>>
  BY DEF HoldRemoved, At, IInv, TypeOK, RequestOK
<1>2. CASE i \notin DOMAIN items
  <2>1. Answer(c, "missing") /\ "missing" \in Answers \ {"order"}
    BY <1>2 DEF HoldRemoved, Answers
  <2> QED BY <1>1, <2>1, Ends
<1>3. CASE i \in DOMAIN items
  <2>1. Goto(c, next)
    BY <1>3 DEF HoldRemoved
  <2>2. IsFiniteSet(DOMAIN items \ {i}) /\ DOMAIN left = DOMAIN items \ {i}
    BY RowsAreFinite, FS_Subset DEF IInv
  <2>3. /\ \A j \in DOMAIN left : left[j] \in Nat
        /\ Distinct(left)
    BY <2>2 DEF IInv, TypeOK, Row, PlacesDistinct, PositionOf, Distinct, IsInjective
  <2>5. DOMAIN Ranks(left) = DOMAIN items \ {i} /\ \A j \in DOMAIN Ranks(left) : Ranks(left)[j] \in Nat
    <3>1. PICK rest : rest = DOMAIN items \ {i}
      OBVIOUS
    <3>2. PICK pos : pos = left
      OBVIOUS
    <3>3. IsFiniteSet(rest) /\ DOMAIN pos = rest /\ \A j \in rest : pos[j] \in Nat
      BY <2>2, <2>3, <3>1, <3>2
    <3>4. /\ DOMAIN Ranks(pos) = rest
          /\ \A j \in rest : Ranks(pos)[j] \in 0..Cardinality(rest) - 1
      BY <3>3, RanksAreNumbers
    <3>5. Cardinality(rest) \in Nat
      BY <3>3, FS_CardinalityType
    <3>6. \A j \in rest : Ranks(pos)[j] \in Nat
      BY <3>4, <3>5
    <3> HIDE DEF left
    <3> QED BY <3>1, <3>2, <3>4, <3>6
  <2>6. DOMAIN items \subseteq Items /\ i \in spent /\ items[i].type \in Types
    BY <1>3 DEF IInv, TypeOK, Row
  <2>7. RequestOK(next)
    BY <1>1, <2>5, <2>6 DEF RequestOK
  <2>8. Without(PositionOf(items), i) = left
    BY DEF Without, PositionOf
  <2>9. RequestStands(next) /\ Fits(next)
    BY <1>3, <2>6, <2>8 DEF RequestStands, Fits
  <2> HIDE DEF next
  <2> QED BY <1>1, <2>1, <2>7, <2>9, Reads
<1> QED BY <1>2, <1>3

(* One row less, if nobody was faster.                                     *)
LEMMA Deletes ==
  ASSUME IInv, NEW c \in Clients, DeleteItem(c)
  PROVE  IInv'
<1>1. PICK r : r = req[c]
  OBVIOUS
<1>2. /\ ~At(c, "idle") /\ r.step = "delete" /\ r.at \in Items
      /\ \A j \in DOMAIN r.positions : r.positions[j] \in Nat
      /\ r.at \in DOMAIN items => items[r.at].type = r.type
  BY <1>1 DEF DeleteItem, At, IInv, TypeOK, RequestOK, RequestStands
<1> DEFINE left == [j \in DOMAIN items \ {r.at} |-> items[j]]
           held == SetPositions(left, r.positions)
           say  == [t \in DOMAIN told \ {r.type} |-> told[t]]
<1>3. ASSUME Answer(c, "missing"), UNCHANGED <<items, spent, told, asked, alone>> PROVE IInv'
  <2>1. "missing" \in Answers \ {"order"}
    BY DEF Answers
  <2> QED BY <1>2, <1>3, <2>1, Ends
<1>4. ASSUME r.at \in DOMAIN items, Commit(c, held, say) PROVE IInv'
  <2>1. /\ DOMAIN items \subseteq spent /\ spent \subseteq Items
        /\ \A j \in DOMAIN items : items[j] \in Row
        /\ \A j, k \in DOMAIN items : items[j].type = items[k].type => j = k
        /\ Tells(told, items)
    BY DEF IInv, TypeOK, TypeOnce, TrailTells, Tells
  <2>2. /\ DOMAIN left = DOMAIN items \ {r.at}
        /\ \A j \in DOMAIN left : left[j] = items[j] /\ left[j] \in Row
    BY <2>1
  <2>3. /\ DOMAIN held = DOMAIN left
        /\ \A j \in DOMAIN left : /\ held[j] \in Row
                                  /\ held[j].type = left[j].type
                                  /\ held[j].offset = left[j].offset
        /\ Numbers(r.positions, DOMAIN left) => Numbers(PositionOf(held), DOMAIN left)
    BY <1>2, <2>2, OrderMovesPlaces
  <2>4. /\ DOMAIN held \subseteq Items /\ \A j \in DOMAIN held : held[j] \in Row
        /\ \A j \in DOMAIN held \cap spent : j \in DOMAIN items /\ held[j].type = items[j].type
    BY <2>1, <2>2, <2>3
  <2>5. Once(left) /\ Tells(say, left)
    <3>1. Once(left)
      BY <2>1, <2>2 DEF Once
    <3>2. \A j \in DOMAIN left : items[j].type # r.type
      BY <1>2, <1>4, <2>1, <2>2
    <3>3. DOMAIN told = TypesOf(items) /\ \A j \in DOMAIN items : told[items[j].type] = items[j].offset
      BY <2>1 DEF Tells
    <3>4. TypesOf(left) = TypesOf(items) \ {r.type}
      BY <1>2, <1>4, <2>2, <3>2 DEF TypesOf
    <3>5. \A j \in DOMAIN left : left[j].type \in DOMAIN say
      BY <3>3, <3>4 DEF TypesOf
    <3>6. \A j \in DOMAIN left : say[left[j].type] = left[j].offset
      BY <2>2, <3>3, <3>5
    <3> QED BY <3>1, <3>3, <3>4, <3>6 DEF Tells
  <2> HIDE DEF left, held, say
  <2>6. Once(held) /\ Tells(say, held)
    BY <2>3, <2>5, SameTold
  <2>7. ASSUME alone PROVE Numbers(PositionOf(held), DOMAIN held)
    <3>1. /\ Numbers(PositionOf(items), DOMAIN items) /\ IsFiniteSet(DOMAIN items)
          /\ r.positions = Ranks(Without(PositionOf(items), r.at))
      BY <1>1, <1>2, <2>7, RowsAreFinite DEF IInv, OneAtATime, Fits
    <3>2. Numbers(r.positions, DOMAIN items \ {r.at})
      BY <1>4, <3>1, RanksWithout
    <3> QED BY <2>2, <2>3, <3>2
  <2> QED BY <1>2, <1>4, <2>4, <2>6, <2>7, Commits
<1> QED BY <1>1, <1>3, <1>4 DEF DeleteItem

(* An order that names the steps of the template.                          *)
LEMMA FindsOrder ==
  ASSUME IInv, NEW c \in Clients, HoldOrder(c)
  PROVE  IInv'
<1>1. Cardinality(Items) \in Nat
  BY ItemsAssumption, FS_CardinalityType
<1>2. ~At(c, "idle") /\ UNCHANGED <<items, spent, told, asked, alone>>
  BY DEF HoldOrder, At
<1>3. PICK n \in 0..Cardinality(Items) : \E ordered \in [1..n -> Items] :
        IF ~Rearranges(DOMAIN items, ordered) THEN Answer(c, "refused")
        ELSE IF Positioned(ordered) = Ranks(PositionOf(items)) THEN Answer(c, "saved")
        ELSE Goto(c, [step |-> "arrange", positions |-> Positioned(ordered)])
  BY DEF HoldOrder
<1>4. PICK ordered \in [1..n -> Items] :
        IF ~Rearranges(DOMAIN items, ordered) THEN Answer(c, "refused")
        ELSE IF Positioned(ordered) = Ranks(PositionOf(items)) THEN Answer(c, "saved")
        ELSE Goto(c, [step |-> "arrange", positions |-> Positioned(ordered)])
  BY <1>3
<1>5. n \in Nat
  BY <1>1
<1> DEFINE next == [step |-> "arrange", positions |-> Positioned(ordered)]
<1>6. ASSUME Goto(c, next), Rearranges(DOMAIN items, ordered) PROVE IInv'
  <2>1. Numbers(Positioned(ordered), DOMAIN items)
    BY <1>5, <1>6, RowsAreFinite, OrderNumbers DEF IInv
  <2>2. \A i \in DOMAIN Positioned(ordered) : Positioned(ordered)[i] \in Nat
    <3>1. \A i \in DOMAIN Positioned(ordered) : Positioned(ordered)[i] \in 0..n - 1
      BY <1>5, PlacesAreNumbers
    <3> QED BY <1>5, <3>1
  <2>3. DOMAIN Positioned(ordered) \subseteq Items
    BY <2>1 DEF Numbers, IInv, TypeOK
  <2>4. RequestOK(next) /\ RequestStands(next) /\ Fits(next)
    BY <2>1, <2>2, <2>3 DEF RequestOK, RequestStands, Fits
  <2> HIDE DEF next
  <2> QED BY <1>2, <1>6, <2>4, Reads
<1>7. ASSUME NEW answer \in {"refused", "saved"}, Answer(c, answer) PROVE IInv'
  <2>1. answer \in Answers \ {"order"}
    BY DEF Answers
  <2> QED BY <1>2, <1>7, <2>1, Ends
<1> QED BY <1>4, <1>6, <1>7

(* The places of an order are written, if every step of it is there.       *)
LEMMA Arranges ==
  ASSUME IInv, NEW c \in Clients, ArrangeItems(c)
  PROVE  IInv'
<1> DEFINE held == SetPositions(items, req[c].positions)
<1>1. /\ ~At(c, "idle") /\ req[c].step = "arrange"
      /\ \A i \in DOMAIN req[c].positions : req[c].positions[i] \in Nat
  BY DEF ArrangeItems, At, IInv, TypeOK, RequestOK
<1>2. ASSUME Answer(c, "failed"), UNCHANGED <<items, spent, told, asked, alone>> PROVE IInv'
  <2>1. "failed" \in Answers \ {"order"}
    BY DEF Answers
  <2> QED BY <1>1, <1>2, <2>1, Ends
<1>3. ASSUME Commit(c, held, told) PROVE IInv'
  <2>1. /\ DOMAIN items \subseteq spent /\ spent \subseteq Items
        /\ \A j \in DOMAIN items : items[j] \in Row
        /\ Once(items) /\ Tells(told, items)
    BY DEF IInv, TypeOK, TypeOnce, TrailTells, Tells, Once
  <2>2. /\ DOMAIN held = DOMAIN items
        /\ \A j \in DOMAIN items : /\ held[j] \in Row
                                   /\ held[j].type = items[j].type
                                   /\ held[j].offset = items[j].offset
        /\ Numbers(req[c].positions, DOMAIN items) => Numbers(PositionOf(held), DOMAIN items)
    BY <1>1, <2>1, OrderMovesPlaces
  <2> HIDE DEF held
  <2>3. Once(held) /\ Tells(told, held)
    <3>1. PICK was, say : was = items /\ say = told
      OBVIOUS
    <3> QED BY <2>1, <2>2, <3>1, SameTold
  <2>4. alone => Numbers(PositionOf(held), DOMAIN held)
    BY <1>1, <2>2 DEF IInv, OneAtATime, Fits
  <2> QED BY <1>1, <1>3, <2>1, <2>2, <2>3, <2>4, Commits
<1> QED BY <1>2, <1>3 DEF ArrangeItems

(* The requests that begin, one lemma for all.                             *)
LEMMA Asks ==
  ASSUME IInv, NEW c \in Clients,
         AddItem(c) \/ SaveItem(c) \/ RemoveItem(c) \/ ReorderItems(c)
  PROVE  IInv'
<1>1. ASSUME NEW t \in Types, NEW days \in Posted, Accepted(days),
             Begin(c, [step |-> "add", type |-> t, offset |-> days])
      PROVE  IInv'
  <2>1. RequestOK([step |-> "add", type |-> t, offset |-> days])
    BY <1>1 DEF RequestOK, Accepted
  <2> QED BY <1>1, <2>1, Begins
<1>2. ASSUME Begin(c, [step |-> "idle", answer |-> "refused"]) PROVE IInv'
  <2>1. RequestOK([step |-> "idle", answer |-> "refused"])
    BY DEF RequestOK, Answers
  <2> QED BY <1>2, <2>1, Begins
<1>3. ASSUME NEW i \in Items, NEW step \in {"pick", "remove"},
             Begin(c, [step |-> step, at |-> i])
      PROVE  IInv'
  <2>1. RequestOK([step |-> step, at |-> i])
    BY DEF RequestOK
  <2> QED BY <1>3, <2>1, Begins
<1>4. ASSUME Begin(c, [step |-> "reorder"]) PROVE IInv'
  <2>1. RequestOK([step |-> "reorder"])
    BY DEF RequestOK
  <2> QED BY <1>4, <2>1, Begins
<1> QED BY <1>1, <1>2, <1>3, <1>4 DEF AddItem, SaveItem, RemoveItem, ReorderItems

(* The invariant is inductive.                                             *)
LEMMA Inductive ==
  ASSUME IInv, [Next]_vars
  PROVE  IInv'
<1>1. CASE UNCHANGED vars
  BY <1>1 DEF vars, IInv, TypeOK, TypeOnce, PlacesDistinct, TrailTells,
              RequestStands, OneAtATime, Fits, At
<1>2. ASSUME NEW c \in Clients, Fail(c) PROVE IInv'
  <2>1. "failed" \in Answers \ {"order"}
    BY DEF Answers
  <2> QED BY <1>2, <2>1, Ends DEF Fail
<1> QED BY <1>1, <1>2, Asks, Holds, Inserts, Picks, Moves, Writes, FindsRemoved, Deletes,
           FindsOrder, Arranges DEF Next, Step

(* The template has no steps, and nobody asks for anything.                *)
LEMMA Initial == Init => IInv
<1> SUFFICES ASSUME Init PROVE IInv
  OBVIOUS
<1>1. DOMAIN items = {} /\ TypesOf(items) = {} /\ DOMAIN told = {}
  BY DEF Init, TypesOf
<1>2. TypeOK
  BY <1>1, ItemsAssumption DEF Init, TypeOK, RequestOK, Answers
<1>3. TypeOnce /\ PlacesDistinct /\ TrailTells
  BY <1>1 DEF TypeOnce, PlacesDistinct, TrailTells, PositionOf, Distinct, IsInjective
<1>4. \A c \in Clients : RequestStands(req[c])
  BY DEF Init, RequestStands
<1>5. Numbers(PositionOf(items), DOMAIN items)
  <2>1. DOMAIN PositionOf(items) = {} /\ Range(PositionOf(items)) = {}
    BY <1>1 DEF PositionOf, Range
  <2>2. Cardinality(DOMAIN PositionOf(items)) = 0
    BY <2>1, FS_EmptySet
  <2>3. 0..0 - 1 = {}
    OBVIOUS
  <2> QED BY <1>1, <2>1, <2>2, <2>3 DEF Numbers, Gapless, Distinct, IsInjective
<1>6. OneAtATime
  BY <1>5 DEF Init, OneAtATime, Fits, At
<1> QED BY <1>2, <1>3, <1>4, <1>6 DEF IInv

(* The invariant holds of every behaviour.                                 *)
THEOREM Invariance == Spec => []IInv
BY Initial, Inductive, PTL DEF Spec

(* A step is named once and has a place of its own, and while requests     *)
(* come one after the other the places have no gap and every change lands  *)
(* (AddTemplateItem, RemoveTemplateItem and ReorderTemplateItems,          *)
(* internal/milestones/templates.go).                                      *)
THEOREM ListStandsAlways == Spec => []ListStands
<1>1. IInv => ListStands
  <2> SUFFICES ASSUME IInv PROVE ListStands
    OBVIOUS
  <2>1. NoGapAlone
    BY DEF IInv, OneAtATime, NoGapAlone, NoGap, Numbers
  <2>2. StepsLandAlone
    BY DEF IInv, OneAtATime, StepsLandAlone, Fits, At
  <2> QED BY <2>1, <2>2 DEF IInv, ListStands
<1> QED BY <1>1, Invariance, PTL

(* The trail and the template agree on the steps and their offsets, in     *)
(* every interleaving (moveItem, internal/milestones/templates.go).        *)
THEOREM TrailAgrees == Spec => []TrailTells
<1>1. IInv => TrailTells
  BY DEF IInv
<1> QED BY <1>1, Invariance, PTL

-----------------------------------------------------------------------------
(* The rows are the list of OrderedList.                                   *)

(* The places of the rows, and the list they read as.                      *)
LEMMA ListReads ==
  ASSUME IInv, alone
  PROVE  /\ Numbers(PositionOf(items), DOMAIN items) /\ IsFiniteSet(DOMAIN items)
         /\ DOMAIN items \subseteq Items
         /\ List!ToSet(Listed) = DOMAIN items
<1>1. PICK pos, S : pos = PositionOf(items) /\ S = DOMAIN items
  OBVIOUS
<1>2. Numbers(pos, S) /\ IsFiniteSet(S) /\ S \subseteq Items
  BY <1>1, RowsAreFinite DEF IInv, OneAtATime, TypeOK
<1>3. {InOrder(pos)[m] : m \in DOMAIN InOrder(pos)} = S
  BY <1>2, ReadIsASequence
<1>4. List!ToSet(InOrder(pos)) = {InOrder(pos)[m] : m \in DOMAIN InOrder(pos)}
  BY DEF List!ToSet
<1> QED BY <1>1, <1>2, <1>3, <1>4 DEF Listed

(* A commit lands, or leaves the rows.                                     *)
LEMMA Lands ==
  ASSUME NEW c, NEW held, NEW say, Commit(c, held, say)
  PROVE  items' = held \/ items' = items
BY DEF Commit

(* Rows that keep their places are listed as they were.                    *)
LEMMA SamePlaces ==
  ASSUME PositionOf(items)' = PositionOf(items)
  PROVE  Listed' = Listed
BY DEF Listed

(* A new row is the last of the list.                                      *)
LEMMA InsertAppends ==
  ASSUME IInv, IInv', alone, alone', NEW c \in Clients, InsertItem(c)
  PROVE  List!Append1 \/ Listed' = Listed
<1>1. PICK row : row = req[c].row
  OBVIOUS
<1>2. /\ req[c].step = "insert" /\ row.position = Cardinality(DOMAIN items)
      /\ Numbers(PositionOf(items), DOMAIN items) /\ IsFiniteSet(DOMAIN items)
      /\ List!ToSet(Listed) = DOMAIN items
      /\ Numbers(PositionOf(items), DOMAIN items)'
  BY <1>1, ListReads DEF InsertItem, At, IInv, OneAtATime, Fits
<1>3. ASSUME NEW i \in Items \ DOMAIN items,
             items' = [j \in DOMAIN items \cup {i} |-> IF j = i THEN row ELSE items[j]]
      PROVE  List!Append1
  <2>1. PICK pos, S : pos = PositionOf(items) /\ S = DOMAIN items
    OBVIOUS
  <2>2. DOMAIN items' = S \cup {i} /\ DOMAIN pos = S
    BY <1>3, <2>1 DEF PositionOf
  <2>3. PositionOf(items') = Grown(pos, i)
    BY <1>2, <1>3, <2>1, <2>2 DEF PositionOf, Grown
  <2>4. IsFiniteSet(S) /\ Numbers(pos, S) /\ i \notin S
    BY <1>2, <1>3, <2>1
  <2>5. InOrder(Grown(pos, i)) = Append(InOrder(pos), i)
    BY <2>4, ReadsTheNewLast
  <2>6. Listed' = Append(Listed, i)
    BY <2>1, <2>3, <2>5 DEF Listed
  <2> QED BY <1>2, <1>3, <2>6 DEF List!Append1
<1>4. CASE row.type \notin TypesOf(items)
  <2> DEFINE say == [t \in DOMAIN told \cup {row.type} |->
                       IF t = row.type THEN row.offset ELSE told[t]]
             held(i) == [j \in DOMAIN items \cup {i} |-> IF j = i THEN row ELSE items[j]]
  <2>1. PICK i \in Items \ spent : Commit(c, held(i), say)
    BY <1>1, <1>4 DEF InsertItem
  <2>2. i \in Items \ DOMAIN items
    BY <2>1 DEF IInv, TypeOK
  <2>3. items' = held(i) \/ items' = items
    BY <2>1, Lands
  <2>4. CASE items' = items
    BY <2>4 DEF Listed
  <2> QED BY <1>3, <2>2, <2>3, <2>4
<1>5. CASE row.type \in TypesOf(items)
  <2>1. items' = items
    BY <1>1, <1>5 DEF InsertItem
  <2> QED BY <2>1 DEF Listed
<1> QED BY <1>4, <1>5

(* An edited row keeps its place.                                          *)
LEMMA WriteKeepsTheList ==
  ASSUME IInv, alone, NEW c \in Clients, WriteItem(c)
  PROVE  Listed' = Listed
<1>1. PICK i, row : i = req[c].at /\ row = req[c].row
  OBVIOUS
<1>2. req[c].step = "write" /\ i \in DOMAIN items /\ row.position = items[i].position
  BY <1>1 DEF WriteItem, At, IInv, OneAtATime, Fits
<1>3. items' = [items EXCEPT ![i] = row] \/ items' = items
  BY <1>1, <1>2, Lands DEF WriteItem
<1>4. PositionOf(items)' = PositionOf(items)
  <2>1. DOMAIN items' = DOMAIN items /\ \A j \in DOMAIN items : items'[j].position = items[j].position
    BY <1>2, <1>3
  <2> QED BY <2>1 DEF PositionOf
<1> QED BY <1>4, SamePlaces

(* A row that is removed is taken out of the list.                         *)
LEMMA DeleteTakesOut ==
  ASSUME IInv, alone, NEW c \in Clients, DeleteItem(c)
  PROVE  List!TakeOut \/ Listed' = Listed
<1>1. PICK r : r = req[c]
  OBVIOUS
<1> DEFINE left == [j \in DOMAIN items \ {r.at} |-> items[j]]
           held == SetPositions(left, r.positions)
           say  == [t \in DOMAIN told \ {r.type} |-> told[t]]
<1>2. PICK pos, i : pos = PositionOf(items) /\ i = r.at
  OBVIOUS
<1>3. /\ r.step = "delete" /\ i \in DOMAIN items
      /\ r.positions = Ranks(Without(pos, i))
      /\ Numbers(pos, DOMAIN items) /\ IsFiniteSet(DOMAIN items)
  BY <1>1, <1>2, ListReads DEF DeleteItem, At, IInv, OneAtATime, Fits
<1>4. items' = held \/ items' = items
  BY <1>1, Lands DEF DeleteItem
<1>5. CASE items' = held
  <2>1. Numbers(r.positions, DOMAIN items \ {i})
    BY <1>3, RanksWithout
  <2>2. DOMAIN held = DOMAIN items \ {i} /\ DOMAIN r.positions = DOMAIN items \ {i}
    BY <1>2, <2>1 DEF SetPositions, Numbers
  <2>3. ASSUME NEW j \in DOMAIN items \ {i} PROVE held[j].position = r.positions[j]
    <3>1. left[j] = items[j] /\ items[j] \in Row
      BY <1>2 DEF IInv, TypeOK
    <3>2. held[j] = [items[j] EXCEPT !.position = r.positions[j]]
      BY <1>2, <2>2, <3>1 DEF SetPositions
    <3> QED BY <3>1, <3>2 DEF Row
  <2>4. r.positions = [j \in DOMAIN items \ {i} |-> r.positions[j]]
    BY <1>3, <2>2 DEF Ranks
  <2>5. PositionOf(items') = r.positions
    <3> HIDE DEF held
    <3>1. PositionOf(held) = [j \in DOMAIN items \ {i} |-> r.positions[j]]
      BY <2>2, <2>3 DEF PositionOf
    <3> QED BY <1>5, <2>4, <3>1
  <2>6. PICK n : n = pos[i] + 1
    OBVIOUS
  <2>7. /\ n \in DOMAIN InOrder(pos)
        /\ InOrder(r.positions) = SubSeq(InOrder(pos), 1, n - 1)
                                    \o SubSeq(InOrder(pos), n + 1, Len(InOrder(pos)))
    BY <1>3, <2>6, CutsOut
  <2>8. Listed' = List!RemoveAt(Listed, n) /\ n \in DOMAIN Listed
    BY <1>2, <2>5, <2>7 DEF Listed, List!RemoveAt
  <2> QED BY <2>8 DEF List!TakeOut
<1>6. CASE items' = items
  BY <1>6 DEF Listed
<1> QED BY <1>4, <1>5, <1>6

(* A written order is an order of the same entries.                        *)
LEMMA ArrangeReorders ==
  ASSUME IInv, IInv', alone, alone', NEW c \in Clients, ArrangeItems(c)
  PROVE  List!Arrange
<1>1. items' = SetPositions(items, req[c].positions) \/ items' = items
  BY Lands DEF ArrangeItems
<1>2. DOMAIN items' = DOMAIN items
  BY <1>1 DEF SetPositions
<1>3. PICK S, n : S = DOMAIN items /\ n = Cardinality(S)
  OBVIOUS
<1>4. PICK new : new = PositionOf(items')
  OBVIOUS
<1>5. IsFiniteSet(S) /\ Numbers(new, S) /\ List!ToSet(Listed) = S
  BY <1>2, <1>3, <1>4, ListReads DEF IInv, OneAtATime
<1>6. /\ InOrder(new) \in [1..n -> S]
      /\ \A a, b \in 1..n : a # b => InOrder(new)[a] # InOrder(new)[b]
  BY <1>3, <1>5, ReadsAnother
<1>7. InOrder(new) \in List!SetToSeqs(S)
  <2>1. PICK order : order = InOrder(new)
    OBVIOUS
  <2>2. order \in [1..n -> S] /\ \A a, b \in 1..n : a # b => order[a] # order[b]
    BY <1>6, <2>1
  <2>3. List!Cardinality(S) = Cardinality(S)
    BY DEF List!Cardinality, Cardinality
  <2>4. order \in List!SetToSeqs(S)
    BY <1>3, <2>2, <2>3, Zenon DEF List!SetToSeqs
  <2> QED BY <2>1, <2>4
<1>8. Listed' = InOrder(new)
  BY <1>4 DEF Listed
<1> QED BY <1>5, <1>7, <1>8 DEF List!Arrange

(* A step that leaves the rows leaves the list.                            *)
LEMMA OthersKeepTheList ==
  ASSUME NEW c \in Clients,
         \/ AddItem(c) \/ HoldItems(c) \/ SaveItem(c) \/ PickColumn(c) \/ HoldOffset(c)
         \/ RemoveItem(c) \/ HoldRemoved(c) \/ ReorderItems(c) \/ HoldOrder(c) \/ Fail(c)
  PROVE  Listed' = Listed
<1>1. items' = items
  BY DEF AddItem, HoldItems, SaveItem, PickColumn, HoldOffset, RemoveItem, HoldRemoved,
         ReorderItems, HoldOrder, Fail, Begin
<1> QED BY <1>1 DEF Listed

(* The list of a template without steps is empty.                          *)
LEMMA StartsEmpty ==
  ASSUME Init
  PROVE  List!Init
<1>1. PICK pos : pos = PositionOf(items)
  OBVIOUS
<1>2. DOMAIN pos = {}
  BY <1>1 DEF Init, PositionOf
<1>3. Cardinality(DOMAIN pos) = 0
  BY <1>2, FS_EmptySet
<1>4. 1..Cardinality(DOMAIN pos) = {}
  BY <1>3
<1>5. InOrder(pos) = <<>>
  BY <1>4 DEF InOrder
<1> QED BY <1>1, <1>5 DEF List!Init, Listed

(* As long as requests come one after the other, the steps of a template   *)
(* are a list: a new one goes to its end, a removal takes one out and the  *)
(* others close up, an order names the same steps, and an edited offset    *)
(* changes no place (AddTemplateItem, RemoveTemplateItem,                  *)
(* ReorderTemplateItems and moveItem, internal/milestones/templates.go).   *)
THEOREM KeepsTheList == Spec => KeepsTheListAlone
<1>1. Init => List!Init
  BY StartsEmpty
<1>2. IInv /\ IInv' /\ [Next]_vars => [alone' => List!Next]_Listed
  <2> SUFFICES ASSUME IInv, IInv', [Next]_vars, alone'
               PROVE  List!Next \/ Listed' = Listed
    OBVIOUS
  <2>1. CASE UNCHANGED vars
    BY <2>1 DEF vars, Listed
  <2>2. ASSUME NEW c \in Clients, Step(c) PROVE List!Next \/ Listed' = Listed
    <3>1. CASE InsertItem(c) \/ WriteItem(c) \/ DeleteItem(c) \/ ArrangeItems(c)
      <4>1. alone
        BY <3>1 DEF InsertItem, WriteItem, DeleteItem, ArrangeItems, Commit
      <4> QED BY <3>1, <4>1, InsertAppends, WriteKeepsTheList, DeleteTakesOut,
                 ArrangeReorders DEF List!Next
    <3> QED BY <2>2, <3>1, OthersKeepTheList DEF Step
  <2> QED BY <2>1, <2>2 DEF Next
<1> QED BY <1>1, <1>2, Invariance, PTL DEF Spec, KeepsTheListAlone
=============================================================================
