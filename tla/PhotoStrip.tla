----------------------------- MODULE PhotoStrip ------------------------------
(***************************************************************************)
(* The photo strip of one model (internal/catalog/photo.go behind the      *)
(* handlers of internal/http/models): the rows of model_photo, the blobs   *)
(* of the media store they name, what the trail says of them, and the      *)
(* requests that upload, remove and reorder photos.                        *)
(*                                                                         *)
(* An upload stores a file and then writes its row, file after file; the   *)
(* store and the database share no transaction.  Steps are those of        *)
(* Calendar: one read with its decision, or one commit.                    *)
(***************************************************************************)
EXTENDS Positions

CONSTANTS
  Clients,      \* the requests the server runs at a time
  Keys,         \* what files hold: a key is the content
  Photos,       \* the identifiers of rows
  MaxFiles,     \* bound: the files of one upload
  MaxRequests   \* bound: how many requests there are in a behaviour

ASSUME PhotosAssumption ==
  IsFiniteSet(Photos) /\ MaxFiles \in Nat /\ MaxRequests \in Nat

VARIABLES
  photos,   \* the rows, by identifier
  spent,    \* the identifiers handed out: ids.New never repeats one
  blobs,    \* the keys the media store holds
  told,     \* per key, the photos the trail saw added less those it saw removed
  req,      \* where each client stands in its request
  asked,    \* how many requests were made (bounded by MaxRequests)
  alone     \* history: no two requests were open at a time so far

vars == <<photos, spent, blobs, told, req, asked, alone>>

-----------------------------------------------------------------------------
Row == [key : Keys, position : Nat]

Answers == {"none", "saved", "refused", "missing", "failed", "order"}

PositionOf(held) == [p \in DOMAIN held |-> held[p].position]

(* What a client holds between two of its steps.                           *)
RequestOK(r) ==
  /\ r.step \in {"idle", "put", "hold", "add", "remove", "delete", "reorder", "arrange"}
  /\ r.step = "idle" => r.answer \in Answers
  /\ r.step \in {"put", "hold", "add"} => r.left \in 0..MaxFiles
  /\ r.step = "hold" => r.key \in Keys
  /\ r.step = "add" => r.row \in Row
  /\ r.step \in {"remove", "delete"} => r.at \in Photos
  /\ r.step = "delete" => r.key \in Keys
  /\ r.step \in {"delete", "arrange"} =>
       /\ DOMAIN r.positions \subseteq Photos
       /\ \A p \in DOMAIN r.positions : r.positions[p] \in Nat

(* Every type of the variables.                                            *)
TypeOK ==
  /\ DOMAIN photos \subseteq spent /\ spent \subseteq Photos
  /\ \A p \in DOMAIN photos : photos[p] \in Row
  /\ blobs \subseteq Keys
  /\ told \in [Keys -> Int]
  /\ DOMAIN req = Clients
  /\ \A c \in Clients : RequestOK(req[c])
  /\ asked \in 0..MaxRequests
  /\ alone \in BOOLEAN

Init ==
  /\ photos = [p \in {} |-> 0] /\ spent = {}
  /\ blobs = {}
  /\ told = [k \in Keys |-> 0]
  /\ req = [c \in Clients |-> [step |-> "idle", answer |-> "none"]]
  /\ asked = 0
  /\ alone = TRUE

-----------------------------------------------------------------------------
At(c, step) == req[c].step = step

Goto(c, next) == req' = [req EXCEPT ![c] = next]

Answer(c, answer) == Goto(c, [step |-> "idle", answer |-> answer])

Begin(c, next) ==
  /\ At(c, "idle") /\ asked < MaxRequests
  /\ asked' = asked + 1
  /\ alone' = (alone /\ \A d \in Clients : At(d, "idle"))
  /\ Goto(c, next)
  /\ UNCHANGED <<photos, spent, blobs, told>>

(* A statement, the commit or the file system fails, or the server goes    *)
(* away.  What an upload stored and wrote before stays.                    *)
Fail(c) ==
  /\ ~At(c, "idle")
  /\ Answer(c, "failed")
  /\ UNCHANGED <<photos, spent, blobs, told, asked, alone>>

(* The end of a transaction that wrote the rows held and the entries that  *)
(* say so; the order key is checked here.                                  *)
Commit(c, held, say, next) ==
  /\ \/ /\ Distinct(PositionOf(held))
        /\ photos' = held /\ spent' = spent \cup DOMAIN held /\ told' = say
        /\ Goto(c, next)
     \/ /\ ~Distinct(PositionOf(held))
        /\ UNCHANGED <<photos, spent, told>>
        /\ Answer(c, "order")
  /\ UNCHANGED <<blobs, asked, alone>>

Read(c, next) ==
  /\ Goto(c, next)
  /\ UNCHANGED <<photos, spent, blobs, told, asked, alone>>

Done(answer) == [step |-> "idle", answer |-> answer]

-----------------------------------------------------------------------------
(* AddPhotos: the files of the form, one after the other.                  *)

UploadFiles(c) ==
  \/ \E n \in 1..MaxFiles : Begin(c, [step |-> "put", left |-> n - 1])
  \/ Begin(c, Done("refused"))

\* Mutant: the row goes in before the file is published.
PutLater(c) ==
  /\ At(c, "put")
  /\ \E k \in Keys : Read(c, [step |-> "hold", key |-> k, left |-> req[c].left])

(* Put publishes the file under its key, and finds it there the next time. *)
(* A file the store refuses ends the upload.                               *)
PutFile(c) ==
  /\ At(c, "put")
  /\ \/ /\ \E k \in Keys :
             /\ blobs' = blobs \cup {k}
             /\ Goto(c, [step |-> "hold", key |-> k, left |-> req[c].left])
        /\ UNCHANGED <<photos, spent, told, asked, alone>>
     \/ Read(c, Done("refused"))

(* AddPhoto goes to the end of the strip it reads.                         *)
HoldStrip(c) ==
  /\ At(c, "hold")
  /\ Read(c, [step |-> "add", left |-> req[c].left,
              row  |-> [key |-> req[c].key, position |-> Cardinality(DOMAIN photos)]])

AddPhoto(c) ==
  /\ At(c, "add")
  /\ \E p \in Photos \ spent :
       LET r == req[c]
       IN  Commit(c, [q \in DOMAIN photos \cup {p} |-> IF q = p THEN r.row ELSE photos[q]],
                     [told EXCEPT ![r.row.key] = @ + 1],
                     IF r.left = 0 THEN Done("saved")
                     ELSE [step |-> "put", left |-> r.left - 1])

-----------------------------------------------------------------------------
(* RemovePhoto and ReorderPhotos write an order they read.                 *)

\* Mutant: the order of what is left is not written.
SetPositionsNone(held, positions) == held

SetPositions(held, positions) ==
  [p \in DOMAIN held |->
     IF p \in DOMAIN positions THEN [held[p] EXCEPT !.position = positions[p]] ELSE held[p]]

RemovePhoto(c) == \E p \in Photos : Begin(c, [step |-> "remove", at |-> p])

HoldRemoved(c) ==
  /\ At(c, "remove")
  /\ LET p    == req[c].at
         left == [q \in DOMAIN photos \ {p} |-> photos[q].position]
     IN  Read(c, IF p \notin DOMAIN photos THEN Done("missing")
                 ELSE [step |-> "delete", at |-> p, key |-> photos[p].key,
                       positions |-> Ranks(left)])

(* A row of the order that is gone ends the transaction.                   *)
DeletePhoto(c) ==
  /\ At(c, "delete")
  /\ LET r    == req[c]
         left == [q \in DOMAIN photos \ {r.at} |-> photos[q]]
         all  == {r.at} \cup DOMAIN r.positions \subseteq DOMAIN photos
     IN  \/ /\ all
            /\ Commit(c, SetPositions(left, r.positions),
                         [told EXCEPT ![r.key] = @ - 1], Done("saved"))
         \/ /\ ~all
            /\ Read(c, Done("missing"))

ReorderPhotos(c) == Begin(c, [step |-> "reorder"])

(* The posted order is the screen's, and the screen may be old.            *)
HoldOrder(c) ==
  /\ At(c, "reorder")
  /\ \E n \in 0..Cardinality(Photos) : \E ordered \in [1..n -> Photos] :
       Read(c, IF ~Rearranges(DOMAIN photos, ordered) THEN Done("refused")
               ELSE IF Positioned(ordered) = Ranks(PositionOf(photos)) THEN Done("saved")
               ELSE [step |-> "arrange", positions |-> Positioned(ordered)])

ArrangePhotos(c) ==
  /\ At(c, "arrange")
  /\ LET all == DOMAIN req[c].positions \subseteq DOMAIN photos
     IN  \/ /\ all
            /\ Commit(c, SetPositions(photos, req[c].positions), told, Done("saved"))
         \/ /\ ~all
            /\ Read(c, Done("failed"))

-----------------------------------------------------------------------------
Step(c) ==
  \/ UploadFiles(c) \/ PutFile(c) \/ HoldStrip(c) \/ AddPhoto(c)
  \/ RemovePhoto(c) \/ HoldRemoved(c) \/ DeletePhoto(c)
  \/ ReorderPhotos(c) \/ HoldOrder(c) \/ ArrangePhotos(c)
  \/ Fail(c)

Next == \E c \in Clients : Step(c)

Spec == Init /\ [][Next]_vars
-----------------------------------------------------------------------------
(* Properties.                                                             *)

(* No photo shows a broken image: its blob is in the store before its row  *)
(* is in the table, wherever an upload stops.                              *)
BlobsStand == \A p \in DOMAIN photos : photos[p].key \in blobs

(* No two photos of a model share a place on the strip.                    *)
PlacesDistinct == Distinct(PositionOf(photos))

(* The trail accounts for the strip: per file, as many photos were added   *)
(* and not removed as the strip holds, although two requests may remove    *)
(* one photo.                                                              *)
TrailTells ==
  \A k \in Keys : told[k] = Cardinality({p \in DOMAIN photos : photos[p].key = k})

(* As long as no two requests were open at a time, a model with photos has *)
(* a cover, which the list of models reads at position 0; an upload that   *)
(* stops halfway leaves one too.                                           *)
CoverStandsAlone ==
  alone /\ DOMAIN photos # {} => \E p \in DOMAIN photos : photos[p].position = 0

(* The rows as ByModel lists them.                                         *)
Listed == InOrder(PositionOf(photos))

List == INSTANCE OrderedList WITH Entries <- Photos, list <- Listed

(* As long as no two requests were open at a time, the strip is a list     *)
(* that grows at its end, loses a photo or takes another order.            *)
KeepsTheListAlone == List!Init /\ [][alone' => List!Next]_Listed

(* The strip stands: every photo has a file, a place of its own and an     *)
(* entry in the trail.                                                     *)
StripStands == TypeOK /\ BlobsStand /\ PlacesDistinct /\ TrailTells
=============================================================================
