---------------------------- MODULE TemplateItems ----------------------------
(***************************************************************************)
(* The steps of one milestone template (internal/milestones/templates.go   *)
(* behind internal/http/milestones/templates.go): the rows of              *)
(* milestone_template_item, what the trail says of them, and the requests  *)
(* that add, move, remove and reorder them.                                *)
(*                                                                         *)
(* As in Calendar, a step is one read with the decision that follows it,   *)
(* or one commit with every write and trail entry of its transaction; the  *)
(* database runs at READ COMMITTED and keeps no read as it was.            *)
(***************************************************************************)
EXTENDS Positions

CONSTANTS
  Clients,      \* the requests the server runs at a time
  Types,        \* the milestone types
  Items,        \* the identifiers of rows
  Earliest,     \* MinOffset: the days before the target date a step may lie
  MaxRequests   \* bound: how many requests there are in a behaviour

Offsets == -Earliest..0           \* the offsets a template holds

Posted == -(Earliest + 1)..1      \* bound: what a form states as an offset or a gap

ASSUME ItemsAssumption ==
  IsFiniteSet(Items) /\ Earliest \in Nat /\ MaxRequests \in Nat

VARIABLES
  items,    \* the rows, by identifier
  spent,    \* the identifiers handed out: ids.New never repeats one
  told,     \* the offset of every type, as the entries of the trail leave it
  req,      \* where each client stands in its request
  asked,    \* how many requests were made (bounded by MaxRequests)
  alone     \* history: no two requests were open at a time so far

vars == <<items, spent, told, req, asked, alone>>

-----------------------------------------------------------------------------
Row == [type : Types, offset : Offsets, position : Nat]

Answers == {"none", "saved", "refused", "missing", "taken", "order", "failed"}

PositionOf(held) == [i \in DOMAIN held |-> held[i].position]

TypesOf(held) == {held[i].type : i \in DOMAIN held}

(* What a client holds between two of its steps.                           *)
RequestOK(r) ==
  /\ r.step \in {"idle", "add", "insert", "pick", "offset", "gap", "write",
                 "remove", "delete", "reorder", "arrange"}
  /\ r.step = "idle" => r.answer \in Answers
  /\ r.step = "add" => r.type \in Types /\ r.offset \in Offsets
  /\ r.step = "insert" => r.row \in Row
  /\ r.step \in {"pick", "offset", "gap", "write", "remove", "delete"} => r.at \in Items
  /\ r.step \in {"offset", "gap"} => r.days \in Posted
  /\ r.step = "write" => r.row \in Row
  /\ r.step = "delete" => r.type \in Types
  /\ r.step \in {"delete", "arrange"} =>
       /\ DOMAIN r.positions \subseteq Items
       /\ \A i \in DOMAIN r.positions : r.positions[i] \in Nat

(* Every type of the variables.                                            *)
TypeOK ==
  /\ DOMAIN items \subseteq spent /\ spent \subseteq Items
  /\ \A i \in DOMAIN items : items[i] \in Row
  /\ DOMAIN told \subseteq Types
  /\ \A t \in DOMAIN told : told[t] \in Offsets
  /\ DOMAIN req = Clients
  /\ \A c \in Clients : RequestOK(req[c])
  /\ asked \in 0..MaxRequests
  /\ alone \in BOOLEAN

Init ==
  /\ items = [i \in {} |-> 0] /\ spent = {}
  /\ told = [t \in {} |-> 0]
  /\ req = [c \in Clients |-> [step |-> "idle", answer |-> "none"]]
  /\ asked = 0
  /\ alone = TRUE

-----------------------------------------------------------------------------
(* Requests: how they begin and end.                                       *)

At(c, step) == req[c].step = step

Goto(c, next) == req' = [req EXCEPT ![c] = next]

Answer(c, answer) == Goto(c, [step |-> "idle", answer |-> answer])

Begin(c, next) ==
  /\ At(c, "idle") /\ asked < MaxRequests
  /\ asked' = asked + 1
  /\ alone' = (alone /\ \A d \in Clients : At(d, "idle"))
  /\ Goto(c, next)
  /\ UNCHANGED <<items, spent, told>>

(* A statement or the commit fails, or the server goes away.               *)
Fail(c) ==
  /\ ~At(c, "idle")
  /\ Answer(c, "failed")
  /\ UNCHANGED <<items, spent, told, asked, alone>>

(* The end of a transaction that wrote the rows held and the entries that  *)
(* say so.  The order key is checked here and nowhere earlier, and a       *)
(* collision leaves nothing of the transaction.                            *)
Commit(c, held, say) ==
  /\ \/ /\ Distinct(PositionOf(held))
        /\ items' = held /\ spent' = spent \cup DOMAIN held /\ told' = say
        /\ Answer(c, "saved")
     \/ /\ ~Distinct(PositionOf(held))
        /\ UNCHANGED <<items, spent, told>>
        /\ Answer(c, "order")
  /\ UNCHANGED <<asked, alone>>

-----------------------------------------------------------------------------

(* checkOffset.                                                            *)
Accepted(offset) == offset \in Offsets

(* AddTemplateItem.  The offset, the template and the type are checked     *)
(* before the transaction starts.                                          *)

AddItem(c) ==
  \/ \E t \in Types, days \in {d \in Posted : Accepted(d)} :
       Begin(c, [step |-> "add", type |-> t, offset |-> days])
  \/ Begin(c, [step |-> "idle", answer |-> "refused"])

HoldItems(c) ==
  /\ At(c, "add")
  /\ IF req[c].type \in TypesOf(items) THEN Answer(c, "taken")
     ELSE Goto(c, [step |-> "insert",
                   row  |-> [type |-> req[c].type, offset |-> req[c].offset,
                             position |-> Cardinality(DOMAIN items)]])
  /\ UNCHANGED <<items, spent, told, asked, alone>>

\* Mutant: the type key of the table is gone.
InsertAny(c) ==
  /\ At(c, "insert")
  /\ \E i \in Items \ spent :
       LET row == req[c].row
       IN  Commit(c, [j \in DOMAIN items \cup {i} |-> IF j = i THEN row ELSE items[j]],
                     [t \in DOMAIN told \cup {row.type} |->
                        IF t = row.type THEN row.offset ELSE told[t]])

(* The type key is checked by the statement, and names itself: the form    *)
(* reads it as a type that is taken.                                       *)
InsertItem(c) ==
  /\ At(c, "insert")
  /\ LET row == req[c].row
     IN  \/ /\ row.type \notin TypesOf(items)
            /\ \E i \in Items \ spent :
                 Commit(c, [j \in DOMAIN items \cup {i} |-> IF j = i THEN row ELSE items[j]],
                           [t \in DOMAIN told \cup {row.type} |->
                              IF t = row.type THEN row.offset ELSE told[t]])
         \/ /\ row.type \in TypesOf(items)
            /\ Answer(c, "taken")
            /\ UNCHANGED <<items, spent, told, asked, alone>>

-----------------------------------------------------------------------------
(* SaveItem: the handler reads the template to see which column the user   *)
(* edited, and the offset wins.                                            *)

SaveItem(c) == \E i \in Items : Begin(c, [step |-> "pick", at |-> i])

(* The item above, and nothing for the first.                              *)
Above(held, i) == {j \in DOMAIN held : held[j].position < held[i].position}

OffsetAbove(held, i) ==
  LET above == CHOOSE j \in Above(held, i) :
                 \A k \in Above(held, i) : held[k].position <= held[j].position
  IN  held[above].offset

Gap(held, i) == held[i].offset - OffsetAbove(held, i)

PickColumn(c) ==
  /\ At(c, "pick")
  /\ LET i == req[c].at
     IN  IF i \notin DOMAIN items THEN Answer(c, "missing")
         ELSE \/ \E days \in Posted \ {items[i].offset} :
                   Goto(c, [step |-> "offset", at |-> i, days |-> days])
              \/ /\ Above(items, i) # {}
                 /\ \E days \in Posted \ {Gap(items, i)} :
                      Goto(c, [step |-> "gap", at |-> i, days |-> days])
              \/ Answer(c, "saved")
  /\ UNCHANGED <<items, spent, told, asked, alone>>

(* moveItem reads the items again, in the transaction that writes.         *)
HoldOffset(c) ==
  /\ At(c, "offset") \/ At(c, "gap")
  /\ LET i      == req[c].at
         gapped == At(c, "gap")
         offset == IF gapped THEN OffsetAbove(items, i) + req[c].days ELSE req[c].days
     IN  IF i \notin DOMAIN items THEN Answer(c, "missing")
         ELSE IF gapped /\ Above(items, i) = {} THEN Answer(c, "refused")
         ELSE IF ~Accepted(offset) THEN Answer(c, "refused")
         ELSE IF offset = items[i].offset THEN Answer(c, "saved")
         ELSE Goto(c, [step |-> "write", at |-> i,
                       row  |-> [items[i] EXCEPT !.offset = offset]])
  /\ UNCHANGED <<items, spent, told, asked, alone>>

\* Mutant: the trail is written for the row as it was read.
WriteItemUntold(c) ==
  /\ At(c, "write")
  /\ req[c].at \in DOMAIN items
  /\ Commit(c, [items EXCEPT ![req[c].at] = req[c].row], told)

(* UpdateItem writes every field back, the position it read included.      *)
WriteItem(c) ==
  /\ At(c, "write")
  /\ LET i == req[c].at
     IN  \/ /\ i \in DOMAIN items
            /\ Commit(c, [items EXCEPT ![i] = req[c].row],
                         [told EXCEPT ![req[c].row.type] = req[c].row.offset])
         \/ /\ i \notin DOMAIN items
            /\ Answer(c, "missing")
            /\ UNCHANGED <<items, spent, told, asked, alone>>

-----------------------------------------------------------------------------
(* RemoveTemplateItem and ReorderTemplateItems write an order they read.   *)

SetPositions(held, positions) ==
  [i \in DOMAIN held |->
     IF i \in DOMAIN positions THEN [held[i] EXCEPT !.position = positions[i]] ELSE held[i]]

RemoveItem(c) == \E i \in Items : Begin(c, [step |-> "remove", at |-> i])

HoldRemoved(c) ==
  /\ At(c, "remove")
  /\ LET i    == req[c].at
         left == [j \in DOMAIN items \ {i} |-> items[j].position]
     IN  IF i \notin DOMAIN items THEN Answer(c, "missing")
         ELSE Goto(c, [step |-> "delete", at |-> i, type |-> items[i].type,
                       positions |-> Ranks(left)])
  /\ UNCHANGED <<items, spent, told, asked, alone>>

(* A row of the order that is gone ends the transaction.                   *)
DeleteItem(c) ==
  /\ At(c, "delete")
  /\ LET i    == req[c].at
         left == [j \in DOMAIN items \ {i} |-> items[j]]
     IN  \/ /\ {i} \cup DOMAIN req[c].positions \subseteq DOMAIN items
            /\ Commit(c, SetPositions(left, req[c].positions),
                         [t \in DOMAIN told \ {req[c].type} |-> told[t]])
         \/ /\ ~({i} \cup DOMAIN req[c].positions \subseteq DOMAIN items)
            /\ Answer(c, "missing")
            /\ UNCHANGED <<items, spent, told, asked, alone>>

ReorderItems(c) == Begin(c, [step |-> "reorder"])

(* The posted order is the screen's, and the screen may be old.            *)
HoldOrder(c) ==
  /\ At(c, "reorder")
  /\ \E n \in 0..Cardinality(Items) : \E ordered \in [1..n -> Items] :
       IF ~Rearranges(DOMAIN items, ordered) THEN Answer(c, "refused")
       ELSE IF Positioned(ordered) = Ranks(PositionOf(items)) THEN Answer(c, "saved")
       ELSE Goto(c, [step |-> "arrange", positions |-> Positioned(ordered)])
  /\ UNCHANGED <<items, spent, told, asked, alone>>

ArrangeItems(c) ==
  /\ At(c, "arrange")
  /\ \/ /\ DOMAIN req[c].positions \subseteq DOMAIN items
        /\ Commit(c, SetPositions(items, req[c].positions), told)
     \/ /\ ~(DOMAIN req[c].positions \subseteq DOMAIN items)
        /\ Answer(c, "failed")
        /\ UNCHANGED <<items, spent, told, asked, alone>>

-----------------------------------------------------------------------------
Step(c) ==
  \/ AddItem(c) \/ HoldItems(c) \/ InsertItem(c)
  \/ SaveItem(c) \/ PickColumn(c) \/ HoldOffset(c) \/ WriteItem(c)
  \/ RemoveItem(c) \/ HoldRemoved(c) \/ DeleteItem(c)
  \/ ReorderItems(c) \/ HoldOrder(c) \/ ArrangeItems(c)
  \/ Fail(c)

Next == \E c \in Clients : Step(c)

Spec == Init /\ [][Next]_vars
-----------------------------------------------------------------------------
(* Properties.                                                             *)

(* A template names a step once, whoever adds it at the same moment.       *)
TypeOnce == \A i, j \in DOMAIN items : items[i].type = items[j].type => i = j

(* No two steps share a place, so every reader lists them the same way.    *)
PlacesDistinct == Distinct(PositionOf(items))

(* The trail and the template agree on the steps and their offsets,        *)
(* although each edit writes back a row it read earlier.                   *)
TrailTells ==
  /\ DOMAIN told = TypesOf(items)
  /\ \A i \in DOMAIN items : told[items[i].type] = items[i].offset

(* The places count from 0 with no gap: a removal closes the one it makes. *)
NoGap == Gapless(PositionOf(items))

(* The same, as long as no two requests were open at a time.               *)
NoGapAlone == alone => NoGap

(* As long as no two requests were open at a time, a new step lands, and   *)
(* nothing else a user asks of a template ends on its order key.           *)
StepsLandAlone == alone => \A c \in Clients : At(c, "idle") => req[c].answer # "order"

(* The rows as ItemsByTemplate lists them.                                 *)
Listed == InOrder(PositionOf(items))

List == INSTANCE OrderedList WITH Entries <- Items, list <- Listed

(* As long as no two requests were open at a time, the rows are a list     *)
(* that grows at its end, loses an entry or takes another order, and an    *)
(* edited offset leaves it alone.                                          *)
KeepsTheListAlone == List!Init /\ [][alone' => List!Next]_Listed

(* The list stands: a step is named once and has a place of its own in     *)
(* every interleaving, and as long as no two requests were open at a time  *)
(* the places have no gap, so that the next step lands.                    *)
ListStands == TypeOK /\ TypeOnce /\ PlacesDistinct /\ NoGapAlone /\ StepsLandAlone
=============================================================================
