----------------------------- MODULE PhotoProofs ------------------------------
(***************************************************************************)
(* What holds of the photo strip for every number of requests, files and   *)
(* photos: every photo has its file, a place of its own and an entry in    *)
(* the trail, however uploads, removals and reorders interleave; and as    *)
(* long as requests come one after the other, a cover.                     *)
(***************************************************************************)
EXTENDS PhotoStrip, PositionsProofs

(* The photos of a file among the rows held.                               *)
Of(held, k) == {p \in DOMAIN held : held[p].key = k}

(* What is known of a request between two of its steps: the file it adds   *)
(* is stored, and the row it removes is the one whose file it read, since  *)
(* an identifier is handed out once and a row keeps its file.              *)
RequestStands(r) ==
  /\ r.step = "hold" => r.key \in blobs
  /\ r.step = "add" => r.row.key \in blobs
  /\ r.step = "delete" => /\ r.at \in spent
                          /\ r.at \in DOMAIN photos => photos[r.at].key = r.key

(* What is known of it besides while nobody else is at the strip: what it  *)
(* read is still so.                                                       *)
Fits(r) ==
  /\ r.step = "add" => r.row.position = Cardinality(DOMAIN photos)
  /\ r.step = "delete" => /\ r.at \in DOMAIN photos
                          /\ r.positions = Ranks(Without(PositionOf(photos), r.at))
  /\ r.step = "arrange" => Numbers(r.positions, DOMAIN photos)

(* As long as no two requests were open at a time, the places count from 0 *)
(* with no gap.                                                            *)
OneAtATime ==
  alone =>
    /\ \A c, d \in Clients : ~At(c, "idle") /\ ~At(d, "idle") => c = d
    /\ Numbers(PositionOf(photos), DOMAIN photos)
    /\ \A c \in Clients : Fits(req[c])

(* The inductive invariant.                                                *)
IInv ==
  /\ StripStands
  /\ \A c \in Clients : RequestStands(req[c])
  /\ OneAtATime

-----------------------------------------------------------------------------
(* The operators on rows and places.                                       *)

(* The table holds a finite number of rows.                                *)
LEMMA RowsAreFinite ==
  ASSUME TypeOK, NEW k
  PROVE  IsFiniteSet(DOMAIN photos) /\ IsFiniteSet(Of(photos, k))
<1>1. DOMAIN photos \subseteq Photos /\ Of(photos, k) \subseteq Photos
  BY DEF TypeOK, Of
<1> QED BY <1>1, PhotosAssumption, FS_Subset

(* An order that is written moves places and nothing else.                 *)
LEMMA OrderMovesPlaces ==
  ASSUME NEW held, NEW positions,
         \A p \in DOMAIN held : held[p] \in Row,
         \A p \in DOMAIN positions : positions[p] \in Nat
  PROVE  /\ DOMAIN SetPositions(held, positions) = DOMAIN held
         /\ \A p \in DOMAIN held : /\ SetPositions(held, positions)[p] \in Row
                                   /\ SetPositions(held, positions)[p].key = held[p].key
         /\ Numbers(positions, DOMAIN held)
              => Numbers(PositionOf(SetPositions(held, positions)), DOMAIN held)
         /\ \A k : Of(SetPositions(held, positions), k) = Of(held, k)
<1>1. DOMAIN SetPositions(held, positions) = DOMAIN held
  BY DEF SetPositions
<1>2. ASSUME NEW p \in DOMAIN held
      PROVE  /\ SetPositions(held, positions)[p] \in Row
             /\ SetPositions(held, positions)[p].key = held[p].key
  <2>1. held[p] \in Row
    OBVIOUS
  <2>2. SetPositions(held, positions)[p] =
          IF p \in DOMAIN positions THEN [held[p] EXCEPT !.position = positions[p]] ELSE held[p]
    BY DEF SetPositions
  <2>3. CASE p \in DOMAIN positions
    <3>1. positions[p] \in Nat
      BY <2>3
    <3> QED BY <2>1, <2>2, <2>3, <3>1 DEF Row
  <2>4. CASE p \notin DOMAIN positions
    BY <2>1, <2>2, <2>4
  <2> QED BY <2>3, <2>4
<1>3. ASSUME Numbers(positions, DOMAIN held)
      PROVE  Numbers(PositionOf(SetPositions(held, positions)), DOMAIN held)
  <2> DEFINE pos == PositionOf(SetPositions(held, positions))
  <2>1. DOMAIN pos = DOMAIN held /\ DOMAIN positions = DOMAIN held
    BY <1>1, <1>3 DEF PositionOf, Numbers
  <2>2. ASSUME NEW p \in DOMAIN held PROVE pos[p] = positions[p]
    <3>1. held[p] \in Row /\ SetPositions(held, positions)[p] = [held[p] EXCEPT !.position = positions[p]]
      BY <2>1 DEF SetPositions
    <3> QED BY <1>1, <3>1 DEF PositionOf, Row
  <2> HIDE DEF pos
  <2>3. Distinct(pos) /\ Range(pos) = Range(positions)
    BY <1>3, <2>1, <2>2 DEF Numbers, Distinct, IsInjective, Range
  <2> QED BY <1>3, <2>1, <2>3 DEF Numbers, Gapless, pos
<1> QED BY <1>1, <1>2, <1>3 DEF Of

-----------------------------------------------------------------------------
(* The requests.                                                           *)

(* What one request goes on with.                                          *)
LEMMA OthersKept ==
  ASSUME IInv, NEW c \in Clients, NEW next, req' = [req EXCEPT ![c] = next]
  PROVE  /\ DOMAIN req' = Clients /\ req'[c] = next
         /\ \A d \in Clients \ {c} : req'[d] = req[d]
BY DEF IInv, StripStands, TypeOK

(* A step that leaves the rows, whatever files it adds.                    *)
LEMMA LeavesRows ==
  ASSUME IInv, NEW c \in Clients, NEW next, req' = [req EXCEPT ![c] = next],
         UNCHANGED <<photos, spent, told>>, blobs \subseteq blobs', blobs' \subseteq Keys,
         RequestOK(next), RequestStands(next)',
         asked' \in 0..MaxRequests, alone' \in BOOLEAN,
         alone' => /\ alone /\ Fits(next)
                   /\ \A d \in Clients \ {c} : At(d, "idle")
  PROVE  IInv'
<1>1. /\ DOMAIN req' = Clients /\ req'[c] = next
      /\ \A d \in Clients \ {c} : req'[d] = req[d]
  BY OthersKept
<1>2. TypeOK'
  BY <1>1 DEF IInv, StripStands, TypeOK
<1>3. BlobsStand'
  BY DEF IInv, StripStands, BlobsStand
<1>4. PlacesDistinct' /\ TrailTells'
  BY DEF IInv, StripStands, PlacesDistinct, TrailTells
<1>5. \A d \in Clients : RequestStands(req[d])'
  BY <1>1 DEF IInv, RequestStands
<1>6. ASSUME alone' PROVE \A d \in Clients \ {c} : At(d, "idle")'
  BY <1>1, <1>6 DEF At
<1>7. ASSUME alone' PROVE OneAtATime'
  <2>1. alone /\ Fits(next) /\ Fits(next)'
    BY <1>7 DEF Fits
  <2>2. \A d \in Clients : Fits(req[d])'
    BY <1>1, <2>1 DEF IInv, OneAtATime, Fits
  <2> QED BY <1>6, <1>7, <2>1, <2>2 DEF IInv, OneAtATime, At
<1>8. OneAtATime'
  BY <1>7 DEF OneAtATime
<1> QED BY <1>2, <1>3, <1>4, <1>5, <1>8 DEF IInv, StripStands

(* A request that is open is the only one while requests do not overlap.   *)
LEMMA OnlyOpen ==
  ASSUME IInv, NEW c \in Clients, ~At(c, "idle"), alone
  PROVE  \A d \in Clients \ {c} : At(d, "idle")
BY DEF IInv, OneAtATime

(* A commit of rows whose files are stored, whose old rows keep their      *)
(* files, and whose entries count what it adds and removes.                *)
LEMMA Commits ==
  ASSUME IInv, NEW c \in Clients, ~At(c, "idle"),
         NEW held, NEW say, NEW next, Commit(c, held, say, next),
         alone => Numbers(PositionOf(held), DOMAIN held),
         DOMAIN held \subseteq Photos,
         \A p \in DOMAIN held : held[p] \in Row /\ held[p].key \in blobs,
         \A p \in DOMAIN held \cap spent : p \in DOMAIN photos /\ held[p].key = photos[p].key,
         say \in [Keys -> Int],
         \A k \in Keys : say[k] = Cardinality(Of(held, k)),
         RequestOK(next), next.step \in {"idle", "put"}
  PROVE  IInv'
<1>1. UNCHANGED <<blobs, asked, alone>>
  BY DEF Commit
<1>2. CASE Distinct(PositionOf(held))
  <2>1. /\ photos' = held /\ spent' = spent \cup DOMAIN held /\ told' = say
        /\ req' = [req EXCEPT ![c] = next]
    BY <1>2 DEF Commit, Goto
  <2>2. /\ DOMAIN req' = Clients /\ req'[c] = next
        /\ \A d \in Clients \ {c} : req'[d] = req[d]
    BY <2>1, OthersKept
  <2>3. TypeOK'
    BY <1>1, <2>1, <2>2 DEF IInv, StripStands, TypeOK
  <2>4. BlobsStand' /\ PlacesDistinct'
    BY <1>1, <1>2, <2>1 DEF BlobsStand, PlacesDistinct
  <2>5. TrailTells'
    BY <2>1 DEF TrailTells, Of
  <2>6. ASSUME NEW d \in Clients PROVE RequestStands(req[d])'
    <3>1. CASE d = c
      BY <3>1, <2>2 DEF RequestStands
    <3>2. CASE d # c
      BY <3>2, <1>1, <2>1, <2>2 DEF IInv, RequestStands
    <3> QED BY <3>1, <3>2
  <2>7. OneAtATime'
    <3> SUFFICES ASSUME alone PROVE OneAtATime'
      BY <1>1 DEF OneAtATime
    <3>1. \A d \in Clients \ {c} : At(d, "idle")
      BY OnlyOpen
    <3>2. \A d \in Clients : Fits(req[d])'
      BY <2>2, <3>1 DEF Fits, At
    <3> QED BY <2>1, <2>2, <3>1, <3>2 DEF OneAtATime, At
  <2> QED BY <2>3, <2>4, <2>5, <2>6, <2>7 DEF IInv, StripStands
<1>3. CASE ~Distinct(PositionOf(held))
  <2>1. /\ UNCHANGED <<photos, spent, told>>
        /\ req' = [req EXCEPT ![c] = [step |-> "idle", answer |-> "order"]]
    BY <1>3 DEF Commit, Answer, Goto
  <2>2. RequestOK([step |-> "idle", answer |-> "order"])
    BY DEF RequestOK, Answers
  <2>3. RequestStands([step |-> "idle", answer |-> "order"])'
    BY DEF RequestStands
  <2>4. Fits([step |-> "idle", answer |-> "order"])
    BY DEF Fits
  <2> QED BY <1>1, <2>1, <2>2, <2>3, <2>4, OnlyOpen, LeavesRows DEF IInv, StripStands, TypeOK
<1> QED BY <1>2, <1>3

(* A read, or an end, of one request.                                      *)
LEMMA Reads ==
  ASSUME IInv, NEW c \in Clients, ~At(c, "idle"), NEW next, Read(c, next),
         RequestOK(next), RequestStands(next), alone => Fits(next)
  PROVE  IInv'
<1>1. req' = [req EXCEPT ![c] = next] /\ UNCHANGED <<photos, spent, blobs, told, asked, alone>>
  BY DEF Read, Goto
<1>2. RequestStands(next)'
  BY <1>1 DEF RequestStands
<1> QED BY <1>1, <1>2, OnlyOpen, LeavesRows DEF IInv, StripStands, TypeOK

(* An answer holds nothing.                                                *)
LEMMA Ends ==
  \A answer \in Answers :
    RequestOK(Done(answer)) /\ RequestStands(Done(answer)) /\ Fits(Done(answer))
BY DEF Done, RequestOK, RequestStands, Fits

(* A request begins.                                                       *)
LEMMA Begins ==
  ASSUME IInv, NEW c \in Clients, NEW next, Begin(c, next), RequestOK(next),
         next.step \in {"idle", "put", "remove", "reorder"}
  PROVE  IInv'
<1>1. /\ req' = [req EXCEPT ![c] = next] /\ UNCHANGED <<photos, spent, blobs, told>>
      /\ asked < MaxRequests /\ asked' = asked + 1
      /\ alone' = (alone /\ \A d \in Clients : At(d, "idle"))
  BY DEF Begin, Goto
<1>2. asked' \in 0..MaxRequests
  BY <1>1, PhotosAssumption DEF IInv, StripStands, TypeOK
<1>3. alone' \in BOOLEAN
  BY <1>1 DEF IInv, StripStands, TypeOK
<1>4. RequestStands(next)' /\ Fits(next)
  BY DEF RequestStands, Fits
<1> QED BY <1>1, <1>2, <1>3, <1>4, LeavesRows DEF IInv, StripStands, TypeOK

-----------------------------------------------------------------------------
(* The steps.                                                              *)

(* A file is published before its row is written, and stays.               *)
LEMMA Puts ==
  ASSUME IInv, NEW c \in Clients, PutFile(c)
  PROVE  IInv'
<1>1. At(c, "put") /\ ~At(c, "idle") /\ req[c].left \in 0..MaxFiles
  BY DEF PutFile, At, IInv, StripStands, TypeOK, RequestOK
<1>2. ASSUME Read(c, Done("refused")) PROVE IInv'
  BY <1>1, <1>2, Reads, Ends DEF Answers
<1>3. ASSUME NEW k \in Keys, blobs' = blobs \cup {k},
             Goto(c, [step |-> "hold", key |-> k, left |-> req[c].left]),
             UNCHANGED <<photos, spent, told, asked, alone>>
      PROVE  IInv'
  <2>1. PICK left \in 0..MaxFiles : left = req[c].left
    BY <1>1
  <2> DEFINE next == [step |-> "hold", key |-> k, left |-> left]
  <2>2. RequestOK(next)
    BY DEF RequestOK
  <2>3. RequestStands(next)' /\ Fits(next)
    BY <1>3 DEF RequestStands, Fits
  <2>4. req' = [req EXCEPT ![c] = next]
    BY <1>3, <2>1 DEF Goto
  <2>5. blobs \subseteq Keys /\ asked \in 0..MaxRequests /\ alone \in BOOLEAN
    BY DEF IInv, StripStands, TypeOK
  <2> HIDE DEF next
  <2> QED BY <1>1, <1>3, <2>2, <2>3, <2>4, <2>5, OnlyOpen, LeavesRows
<1> QED BY <1>2, <1>3 DEF PutFile

(* The place a photo takes is a number, and its file is stored.            *)
LEMMA Holds ==
  ASSUME IInv, NEW c \in Clients, HoldStrip(c)
  PROVE  IInv'
<1> DEFINE next == [step |-> "add", left |-> req[c].left,
                    row  |-> [key |-> req[c].key, position |-> Cardinality(DOMAIN photos)]]
<1>1. ~At(c, "idle") /\ req[c].left \in 0..MaxFiles /\ req[c].key \in Keys /\ req[c].key \in blobs
  BY DEF HoldStrip, At, IInv, StripStands, TypeOK, RequestOK, RequestStands
<1>2. Cardinality(DOMAIN photos) \in Nat
  BY RowsAreFinite, FS_CardinalityType DEF IInv, StripStands
<1>3. RequestOK(next)
  BY <1>1, <1>2 DEF RequestOK, Row
<1>4. RequestStands(next) /\ Fits(next)
  BY <1>1 DEF RequestStands, Fits
<1>5. Read(c, next)
  BY DEF HoldStrip
<1> QED BY <1>1, <1>3, <1>4, <1>5, Reads

(* One more row, under an identifier nobody had.                           *)
LEMMA Adds ==
  ASSUME IInv, NEW c \in Clients, AddPhoto(c)
  PROVE  IInv'
<1> DEFINE r == req[c]
           next == IF r.left = 0 THEN Done("saved") ELSE [step |-> "put", left |-> r.left - 1]
           say == [told EXCEPT ![r.row.key] = @ + 1]
<1>1. /\ r.row \in Row /\ r.row.key \in blobs /\ r.row.key \in Keys /\ r.left \in 0..MaxFiles
      /\ ~At(c, "idle") /\ r.step = "add"
  BY DEF AddPhoto, At, IInv, StripStands, TypeOK, RequestOK, RequestStands, Row
<1>2. PICK p \in Photos \ spent :
        Commit(c, [q \in DOMAIN photos \cup {p} |-> IF q = p THEN r.row ELSE photos[q]], say, next)
  BY DEF AddPhoto
<1> DEFINE held == [q \in DOMAIN photos \cup {p} |-> IF q = p THEN r.row ELSE photos[q]]
<1>3. /\ DOMAIN photos \subseteq spent /\ spent \subseteq Photos /\ told \in [Keys -> Int]
      /\ \A q \in DOMAIN photos : photos[q] \in Row /\ photos[q].key \in blobs
      /\ \A k \in Keys : told[k] = Cardinality(Of(photos, k))
  BY DEF IInv, StripStands, TypeOK, BlobsStand, TrailTells, Of
<1>4. /\ DOMAIN held \subseteq Photos
      /\ \A q \in DOMAIN held : held[q] \in Row /\ held[q].key \in blobs
      /\ \A q \in DOMAIN held \cap spent : q \in DOMAIN photos /\ held[q].key = photos[q].key
  BY <1>1, <1>3
<1>5. say \in [Keys -> Int]
  BY <1>1, <1>3
<1>6. ASSUME NEW k \in Keys PROVE say[k] = Cardinality(Of(held, k))
  <2>1. IsFiniteSet(Of(photos, k)) /\ p \notin Of(photos, k)
    BY <1>3, RowsAreFinite DEF Of, IInv, StripStands
  <2>2. CASE k = r.row.key
    <3>1. Of(held, k) = Of(photos, k) \cup {p}
      BY <1>3, <2>2 DEF Of
    <3>2. Cardinality(Of(held, k)) = Cardinality(Of(photos, k)) + 1
      BY <2>1, <3>1, FS_AddElement
    <3> QED BY <1>1, <1>3, <2>2, <3>2
  <2>3. CASE k # r.row.key
    <3>1. Of(held, k) = Of(photos, k)
      BY <1>3, <2>3 DEF Of
    <3> QED BY <1>1, <1>3, <2>3, <3>1
  <2> QED BY <2>2, <2>3
<1>7. RequestOK(next) /\ next.step \in {"idle", "put"}
  <2>1. CASE r.left = 0
    BY <2>1, Ends DEF Answers, Done
  <2>2. CASE r.left # 0
    BY <1>1, <2>2, PhotosAssumption DEF RequestOK
  <2> QED BY <2>1, <2>2
<1>8. ASSUME alone PROVE Numbers(PositionOf(held), DOMAIN held)
  <2>1. /\ Numbers(PositionOf(photos), DOMAIN photos) /\ IsFiniteSet(DOMAIN photos)
        /\ r.row.position = Cardinality(DOMAIN photos)
    BY <1>1, <1>8, RowsAreFinite DEF IInv, StripStands, OneAtATime, Fits
  <2>2. /\ DOMAIN PositionOf(held) = DOMAIN photos \cup {p} /\ DOMAIN held = DOMAIN photos \cup {p}
        /\ p \notin DOMAIN photos
        /\ PositionOf(held)[p] = Cardinality(DOMAIN photos)
        /\ \A q \in DOMAIN photos : PositionOf(held)[q] = PositionOf(photos)[q]
    BY <1>3, <2>1 DEF PositionOf
  <2> HIDE DEF held
  <2> QED BY <2>1, <2>2, GrowsAtTheEnd
<1> HIDE DEF next, say, held
<1> QED BY ZenonT(60), <1>1, <1>2, <1>4, <1>5, <1>6, <1>7, <1>8, Commits DEF held

(* The row that is to go, and the order of those that stay.                *)
LEMMA FindsRemoved ==
  ASSUME IInv, NEW c \in Clients, HoldRemoved(c)
  PROVE  IInv'
<1> DEFINE p == req[c].at
           left == [q \in DOMAIN photos \ {p} |-> photos[q].position]
           next == [step |-> "delete", at |-> p, key |-> photos[p].key, positions |-> Ranks(left)]
<1>1. p \in Photos /\ ~At(c, "idle")
  BY DEF HoldRemoved, At, IInv, StripStands, TypeOK, RequestOK
<1>2. CASE p \notin DOMAIN photos
  <2>1. Read(c, Done("missing"))
    BY <1>2 DEF HoldRemoved
  <2> QED BY <1>1, <2>1, Reads, Ends DEF Answers
<1>3. CASE p \in DOMAIN photos
  <2>1. Read(c, next)
    BY <1>3 DEF HoldRemoved
  <2>2. IsFiniteSet(DOMAIN photos \ {p}) /\ DOMAIN left = DOMAIN photos \ {p}
    BY RowsAreFinite, FS_Subset DEF IInv, StripStands
  <2>3. /\ \A q \in DOMAIN left : left[q] \in Nat
        /\ Distinct(left)
    BY <2>2 DEF IInv, StripStands, TypeOK, Row, PlacesDistinct, PositionOf, Distinct, IsInjective
  <2>4. Without(PositionOf(photos), p) = left
    BY DEF Without, PositionOf
  <2>5. DOMAIN Ranks(left) = DOMAIN photos \ {p} /\ \A q \in DOMAIN Ranks(left) : Ranks(left)[q] \in Nat
    <3>1. PICK rest : rest = DOMAIN photos \ {p}
      OBVIOUS
    <3>2. PICK pos : pos = left
      OBVIOUS
    <3>3. IsFiniteSet(rest) /\ DOMAIN pos = rest /\ \A q \in rest : pos[q] \in Nat
      BY <2>2, <2>3, <3>1, <3>2
    <3>4. /\ DOMAIN Ranks(pos) = rest
          /\ \A q \in rest : Ranks(pos)[q] \in 0..Cardinality(rest) - 1
      BY <3>3, RanksAreNumbers
    <3>5. Cardinality(rest) \in Nat
      BY <3>3, FS_CardinalityType
    <3>6. \A q \in rest : Ranks(pos)[q] \in Nat
      BY <3>4, <3>5
    <3> HIDE DEF left
    <3> QED BY <3>1, <3>2, <3>4, <3>6
  <2>6. DOMAIN photos \subseteq Photos /\ p \in spent /\ photos[p].key \in Keys
    BY <1>3 DEF IInv, StripStands, TypeOK, Row
  <2>7. RequestOK(next)
    BY <1>1, <2>5, <2>6 DEF RequestOK
  <2>8. RequestStands(next) /\ Fits(next)
    BY <1>3, <2>4, <2>6 DEF RequestStands, Fits
  <2> HIDE DEF next
  <2> QED BY <1>1, <2>1, <2>7, <2>8, Reads
<1> QED BY <1>2, <1>3

(* One row less, if nobody was faster.                                     *)
LEMMA Deletes ==
  ASSUME IInv, NEW c \in Clients, DeletePhoto(c)
  PROVE  IInv'
<1> DEFINE r    == req[c]
           left == [q \in DOMAIN photos \ {r.at} |-> photos[q]]
           held == SetPositions(left, r.positions)
           say  == [told EXCEPT ![r.key] = @ - 1]
<1>1. /\ r.at \in Photos /\ r.key \in Keys
      /\ \A q \in DOMAIN r.positions : r.positions[q] \in Nat
      /\ r.at \in DOMAIN photos => photos[r.at].key = r.key
      /\ ~At(c, "idle") /\ r.step = "delete"
  BY DEF DeletePhoto, At, IInv, StripStands, TypeOK, RequestOK, RequestStands
<1>2. ASSUME Read(c, Done("missing")) PROVE IInv'
  BY <1>1, <1>2, Reads, Ends DEF Answers
<1>3. ASSUME r.at \in DOMAIN photos, Commit(c, held, say, Done("saved")) PROVE IInv'
  <2>1. /\ DOMAIN photos \subseteq spent /\ spent \subseteq Photos /\ told \in [Keys -> Int]
        /\ \A q \in DOMAIN photos : photos[q] \in Row /\ photos[q].key \in blobs
        /\ \A k \in Keys : told[k] = Cardinality(Of(photos, k))
    BY DEF IInv, StripStands, TypeOK, BlobsStand, TrailTells, Of
  <2>2. /\ DOMAIN left = DOMAIN photos \ {r.at}
        /\ \A q \in DOMAIN left : left[q] = photos[q] /\ left[q] \in Row
    BY <2>1
  <2>3. /\ DOMAIN held = DOMAIN left
        /\ \A q \in DOMAIN left : held[q] \in Row /\ held[q].key = left[q].key
        /\ \A k : Of(held, k) = Of(left, k)
        /\ Numbers(r.positions, DOMAIN left) => Numbers(PositionOf(held), DOMAIN left)
    BY ZenonT(60), <1>1, <2>2, OrderMovesPlaces
  <2>4. /\ DOMAIN held \subseteq Photos
        /\ \A q \in DOMAIN held : held[q] \in Row /\ held[q].key \in blobs
        /\ \A q \in DOMAIN held \cap spent : q \in DOMAIN photos /\ held[q].key = photos[q].key
    BY <2>1, <2>2, <2>3
  <2>5. say \in [Keys -> Int]
    BY <1>1, <2>1
  <2>6. ASSUME NEW k \in Keys PROVE say[k] = Cardinality(Of(held, k))
    <3>1. IsFiniteSet(Of(photos, k)) /\ Cardinality(Of(photos, k)) \in Nat
      BY RowsAreFinite, FS_CardinalityType DEF IInv, StripStands
    <3>2. Of(held, k) = Of(photos, k) \ {r.at}
      BY <2>2, <2>3 DEF Of
    <3>3. r.at \in Of(photos, k) <=> k = r.key
      BY <1>1, <1>3 DEF Of
    <3>4. CASE k = r.key
      <4>1. Cardinality(Of(photos, k) \ {r.at}) = Cardinality(Of(photos, k)) - 1
        BY <3>1, <3>3, <3>4, FS_RemoveElement
      <4> QED BY <1>1, <2>1, <3>2, <3>4, <4>1
    <3>5. CASE k # r.key
      <4>1. Of(held, k) = Of(photos, k)
        BY <3>2, <3>3, <3>5
      <4> QED BY <1>1, <2>1, <3>5, <4>1
    <3> QED BY <3>4, <3>5
  <2>7. RequestOK(Done("saved")) /\ Done("saved").step \in {"idle", "put"}
    BY Ends DEF Answers, Done
  <2>8. ASSUME alone PROVE Numbers(PositionOf(held), DOMAIN held)
    <3>1. /\ Numbers(PositionOf(photos), DOMAIN photos) /\ IsFiniteSet(DOMAIN photos)
          /\ r.positions = Ranks(Without(PositionOf(photos), r.at))
      BY <1>1, <2>8, RowsAreFinite DEF IInv, StripStands, OneAtATime, Fits
    <3>2. Numbers(r.positions, DOMAIN photos \ {r.at})
      BY <1>3, <3>1, RanksWithout
    <3> QED BY <2>2, <2>3, <3>2
  <2> HIDE DEF held, say
  <2> QED BY <1>1, <1>3, <2>4, <2>5, <2>6, <2>7, <2>8, Commits
<1> QED BY <1>2, <1>3 DEF DeletePhoto

(* An order that names the photos of the strip.                            *)
LEMMA FindsOrder ==
  ASSUME IInv, NEW c \in Clients, HoldOrder(c)
  PROVE  IInv'
<1>1. Cardinality(Photos) \in Nat
  BY PhotosAssumption, FS_CardinalityType
<1>2. PICK n \in 0..Cardinality(Photos) : \E ordered \in [1..n -> Photos] :
        Read(c, IF ~Rearranges(DOMAIN photos, ordered) THEN Done("refused")
                ELSE IF Positioned(ordered) = Ranks(PositionOf(photos)) THEN Done("saved")
                ELSE [step |-> "arrange", positions |-> Positioned(ordered)])
  BY DEF HoldOrder
<1>3. PICK ordered \in [1..n -> Photos] :
        Read(c, IF ~Rearranges(DOMAIN photos, ordered) THEN Done("refused")
                ELSE IF Positioned(ordered) = Ranks(PositionOf(photos)) THEN Done("saved")
                ELSE [step |-> "arrange", positions |-> Positioned(ordered)])
  BY <1>2
<1> DEFINE next == [step |-> "arrange", positions |-> Positioned(ordered)]
<1>4. ~At(c, "idle") /\ n \in Nat
  BY <1>1 DEF HoldOrder, At
<1>5. ASSUME Read(c, next), Rearranges(DOMAIN photos, ordered) PROVE IInv'
  <2>1. Numbers(Positioned(ordered), DOMAIN photos)
    BY <1>4, <1>5, RowsAreFinite, OrderNumbers DEF IInv, StripStands
  <2>2. \A i \in DOMAIN Positioned(ordered) : Positioned(ordered)[i] \in Nat
    <3>1. \A i \in DOMAIN Positioned(ordered) : Positioned(ordered)[i] \in 0..n - 1
      BY <1>4, PlacesAreNumbers
    <3> QED BY <1>4, <3>1
  <2>3. DOMAIN Positioned(ordered) \subseteq Photos
    BY <2>1 DEF Numbers, IInv, StripStands, TypeOK
  <2>4. RequestOK(next) /\ RequestStands(next) /\ Fits(next)
    BY <2>1, <2>2, <2>3 DEF RequestOK, RequestStands, Fits
  <2> HIDE DEF next
  <2> QED BY <1>4, <1>5, <2>4, Reads
<1>6. ASSUME Read(c, Done("refused")) \/ Read(c, Done("saved")) PROVE IInv'
  BY <1>4, <1>6, Reads, Ends DEF Answers
<1> QED BY <1>3, <1>5, <1>6

(* The places of an order are written, if every photo of it is there.      *)
LEMMA Arranges ==
  ASSUME IInv, NEW c \in Clients, ArrangePhotos(c)
  PROVE  IInv'
<1> DEFINE held == SetPositions(photos, req[c].positions)
<1>1. /\ \A q \in DOMAIN req[c].positions : req[c].positions[q] \in Nat
      /\ ~At(c, "idle") /\ req[c].step = "arrange"
  BY DEF ArrangePhotos, At, IInv, StripStands, TypeOK, RequestOK
<1>2. ASSUME Read(c, Done("failed")) PROVE IInv'
  BY <1>1, <1>2, Reads, Ends DEF Answers
<1>3. ASSUME Commit(c, held, told, Done("saved")) PROVE IInv'
  <2>1. /\ DOMAIN photos \subseteq spent /\ spent \subseteq Photos /\ told \in [Keys -> Int]
        /\ \A q \in DOMAIN photos : photos[q] \in Row /\ photos[q].key \in blobs
        /\ \A k \in Keys : told[k] = Cardinality(Of(photos, k))
    BY DEF IInv, StripStands, TypeOK, BlobsStand, TrailTells, Of
  <2>2. /\ DOMAIN held = DOMAIN photos
        /\ \A q \in DOMAIN photos : held[q] \in Row /\ held[q].key = photos[q].key
        /\ \A k : Of(held, k) = Of(photos, k)
        /\ Numbers(req[c].positions, DOMAIN photos) => Numbers(PositionOf(held), DOMAIN photos)
    BY <1>1, <2>1, OrderMovesPlaces
  <2>3. RequestOK(Done("saved")) /\ Done("saved").step \in {"idle", "put"}
    BY Ends DEF Answers, Done
  <2>4. alone => Numbers(PositionOf(held), DOMAIN held)
    BY <1>1, <2>2 DEF IInv, OneAtATime, Fits
  <2> HIDE DEF held
  <2> QED BY <1>1, <1>3, <2>1, <2>2, <2>3, <2>4, Commits
<1> QED BY <1>2, <1>3 DEF ArrangePhotos

(* The invariant is inductive.                                             *)
LEMMA Inductive ==
  ASSUME IInv, [Next]_vars
  PROVE  IInv'
<1>1. CASE UNCHANGED vars
  BY <1>1 DEF vars, IInv, StripStands, TypeOK, BlobsStand, PlacesDistinct, TrailTells,
              RequestStands, OneAtATime, Fits, At
<1>2. ASSUME NEW c \in Clients, Fail(c) PROVE IInv'
  BY <1>2, Reads, Ends DEF Fail, Answer, Goto, Read, Done, Answers
<1>3. ASSUME NEW c \in Clients, UploadFiles(c) PROVE IInv'
  <2>1. ASSUME NEW n \in 1..MaxFiles, Begin(c, [step |-> "put", left |-> n - 1]) PROVE IInv'
    <3>1. RequestOK([step |-> "put", left |-> n - 1])
      BY PhotosAssumption DEF RequestOK
    <3> QED BY <2>1, <3>1, Begins
  <2>2. ASSUME Begin(c, Done("refused")) PROVE IInv'
    <3>1. RequestOK(Done("refused")) /\ Done("refused").step = "idle"
      BY Ends DEF Answers, Done
    <3> QED BY <2>2, <3>1, Begins
  <2> QED BY <1>3, <2>1, <2>2 DEF UploadFiles
<1>4. ASSUME NEW c \in Clients, RemovePhoto(c) PROVE IInv'
  <2>1. PICK p \in Photos : Begin(c, [step |-> "remove", at |-> p])
    BY <1>4 DEF RemovePhoto
  <2>2. RequestOK([step |-> "remove", at |-> p])
    BY DEF RequestOK
  <2> QED BY <2>1, <2>2, Begins
<1>5. ASSUME NEW c \in Clients, ReorderPhotos(c) PROVE IInv'
  <2>1. RequestOK([step |-> "reorder"])
    BY DEF RequestOK
  <2> QED BY <1>5, <2>1, Begins DEF ReorderPhotos
<1> QED BY <1>1, <1>2, <1>3, <1>4, <1>5, Puts, Holds, Adds, FindsRemoved, Deletes,
           FindsOrder, Arranges DEF Next, Step

(* The strip is empty, and nobody asks for anything.                       *)
LEMMA Initial == Init => IInv
<1> SUFFICES ASSUME Init PROVE IInv
  OBVIOUS
<1>1. DOMAIN photos = {} /\ \A k : {p \in DOMAIN photos : photos[p].key = k} = {}
  BY DEF Init
<1>2. TypeOK
  BY <1>1, PhotosAssumption DEF Init, TypeOK, RequestOK, Answers
<1>3. BlobsStand /\ PlacesDistinct
  BY <1>1 DEF BlobsStand, PlacesDistinct, PositionOf, Distinct, IsInjective
<1>4. TrailTells
  BY <1>1, FS_EmptySet DEF Init, TrailTells
<1>5. \A c \in Clients : RequestStands(req[c])
  BY DEF Init, RequestStands
<1>6. Numbers(PositionOf(photos), DOMAIN photos)
  <2>1. DOMAIN PositionOf(photos) = {} /\ DOMAIN Ranks(PositionOf(photos)) = {}
    BY <1>1 DEF PositionOf, Ranks
  <2>2. Numbers(Ranks(PositionOf(photos)), {})
    BY <1>3, <2>1, FS_EmptySet, RanksNumber DEF PlacesDistinct
  <2>3. Range(PositionOf(photos)) = {} /\ Range(Ranks(PositionOf(photos))) = {}
    BY <2>1 DEF Range
  <2> QED BY <1>1, <1>3, <2>1, <2>2, <2>3 DEF Numbers, Gapless, PlacesDistinct
<1>7. OneAtATime
  BY <1>6 DEF Init, OneAtATime, At, Fits
<1> QED BY <1>2, <1>3, <1>4, <1>5, <1>7 DEF IInv, StripStands

-----------------------------------------------------------------------------
(* The theorems.                                                           *)

(* The invariant holds of every behaviour.                                 *)
THEOREM Invariance == Spec => []IInv
<1>1. IInv /\ [Next]_vars => IInv'
  BY Inductive
<1> QED BY <1>1, Initial, PTL DEF Spec

(* No photo shows a broken image, no two share a place, and the trail      *)
(* accounts for every one of them (AddPhoto, RemovePhoto and ReorderPhotos *)
(* of internal/catalog/photo.go).                                          *)
THEOREM EveryPhotoStands == Spec => []StripStands
<1>1. IInv => StripStands
  BY DEF IInv
<1> QED BY <1>1, Invariance, PTL

(* Requests one after the other, uploads that stop halfway included, leave *)
(* a model with photos a cover at position 0 (ByModel and Thumbnails read  *)
(* it there, internal/postgres/catalog_photo.go).                          *)
THEOREM CoverStands == Spec => []CoverStandsAlone
<1>1. IInv => CoverStandsAlone
  <2> SUFFICES ASSUME IInv, alone, DOMAIN photos # {}
               PROVE  \E p \in DOMAIN photos : photos[p].position = 0
    BY DEF CoverStandsAlone
  <2>1. IsFiniteSet(DOMAIN photos) /\ Numbers(PositionOf(photos), DOMAIN photos)
    BY RowsAreFinite DEF IInv, StripStands, OneAtATime
  <2>2. \E p \in DOMAIN photos : PositionOf(photos)[p] = 0
    BY <2>1, FirstPlace
  <2> QED BY <2>2 DEF PositionOf
<1> QED BY <1>1, Invariance, PTL

-----------------------------------------------------------------------------
(* The strip is the list of OrderedList.                                   *)

(* The places of the photos, and the list they read as.                    *)
LEMMA ListReads ==
  ASSUME IInv, alone
  PROVE  /\ Numbers(PositionOf(photos), DOMAIN photos) /\ IsFiniteSet(DOMAIN photos)
         /\ List!ToSet(Listed) = DOMAIN photos
<1>1. PICK pos, S : pos = PositionOf(photos) /\ S = DOMAIN photos
  OBVIOUS
<1>2. Numbers(pos, S) /\ IsFiniteSet(S)
  BY <1>1, RowsAreFinite DEF IInv, StripStands, OneAtATime
<1>3. {InOrder(pos)[m] : m \in DOMAIN InOrder(pos)} = S
  BY <1>2, ReadIsASequence
<1>4. List!ToSet(InOrder(pos)) = {InOrder(pos)[m] : m \in DOMAIN InOrder(pos)}
  BY DEF List!ToSet
<1> QED BY <1>1, <1>2, <1>3, <1>4 DEF Listed

(* A commit lands, or leaves the rows.                                     *)
LEMMA Lands ==
  ASSUME NEW c, NEW held, NEW say, NEW next, Commit(c, held, say, next)
  PROVE  photos' = held \/ photos' = photos
BY DEF Commit

(* A new photo is the last of the strip.                                   *)
LEMMA AddAppends ==
  ASSUME IInv, alone, NEW c \in Clients, AddPhoto(c)
  PROVE  List!Append1 \/ Listed' = Listed
<1>1. PICK row : row = req[c].row
  OBVIOUS
<1>2. /\ row.position = Cardinality(DOMAIN photos)
      /\ Numbers(PositionOf(photos), DOMAIN photos) /\ IsFiniteSet(DOMAIN photos)
      /\ List!ToSet(Listed) = DOMAIN photos
  BY <1>1, ListReads DEF AddPhoto, At, IInv, OneAtATime, Fits
<1> DEFINE held(p) == [q \in DOMAIN photos \cup {p} |-> IF q = p THEN row ELSE photos[q]]
<1>3. PICK p \in Photos \ spent : photos' = held(p) \/ photos' = photos
  BY <1>1, Lands DEF AddPhoto
<1>4. p \in Photos \ DOMAIN photos
  BY <1>3 DEF IInv, StripStands, TypeOK
<1>5. CASE photos' = held(p)
  <2>1. PICK pos, S : pos = PositionOf(photos) /\ S = DOMAIN photos
    OBVIOUS
  <2>2. DOMAIN photos' = S \cup {p} /\ DOMAIN pos = S
    BY <1>5, <2>1 DEF PositionOf
  <2>3. PositionOf(photos') = Grown(pos, p)
    BY <1>2, <1>4, <1>5, <2>1, <2>2 DEF PositionOf, Grown
  <2>4. IsFiniteSet(S) /\ Numbers(pos, S) /\ p \notin S
    BY <1>2, <1>4, <2>1
  <2>5. InOrder(Grown(pos, p)) = Append(InOrder(pos), p)
    BY <2>4, ReadsTheNewLast
  <2>6. Listed' = Append(Listed, p)
    BY <2>1, <2>3, <2>5 DEF Listed
  <2> QED BY <1>2, <1>4, <2>6 DEF List!Append1
<1>6. CASE photos' = photos
  BY <1>6 DEF Listed
<1> QED BY <1>3, <1>5, <1>6

(* A photo that is removed is taken out of the strip.                      *)
LEMMA DeleteTakesOut ==
  ASSUME IInv, alone, NEW c \in Clients, DeletePhoto(c)
  PROVE  List!TakeOut \/ Listed' = Listed
<1>1. PICK r : r = req[c]
  OBVIOUS
<1> DEFINE left == [q \in DOMAIN photos \ {r.at} |-> photos[q]]
           held == SetPositions(left, r.positions)
           say  == [told EXCEPT ![r.key] = @ - 1]
<1>2. PICK pos, p : pos = PositionOf(photos) /\ p = r.at
  OBVIOUS
<1>3. /\ p \in DOMAIN photos
      /\ r.positions = Ranks(Without(pos, p))
      /\ Numbers(pos, DOMAIN photos) /\ IsFiniteSet(DOMAIN photos)
  BY <1>1, <1>2, ListReads DEF DeletePhoto, At, IInv, OneAtATime, Fits
<1>4. photos' = held \/ photos' = photos
  BY <1>1, Lands DEF DeletePhoto, Read
<1>5. CASE photos' = held
  <2>1. Numbers(r.positions, DOMAIN photos \ {p})
    BY <1>3, RanksWithout
  <2>2. DOMAIN held = DOMAIN photos \ {p} /\ DOMAIN r.positions = DOMAIN photos \ {p}
    BY <1>2, <2>1 DEF SetPositions, Numbers
  <2>3. ASSUME NEW q \in DOMAIN photos \ {p} PROVE held[q].position = r.positions[q]
    <3>1. left[q] = photos[q] /\ photos[q] \in Row
      BY <1>2 DEF IInv, StripStands, TypeOK
    <3>2. held[q] = [photos[q] EXCEPT !.position = r.positions[q]]
      BY <1>2, <2>2, <3>1 DEF SetPositions
    <3> QED BY <3>1, <3>2 DEF Row
  <2>4. r.positions = [q \in DOMAIN photos \ {p} |-> r.positions[q]]
    BY <1>3, <2>2 DEF Ranks
  <2>5. PositionOf(photos') = r.positions
    <3> HIDE DEF held
    <3>1. PositionOf(held) = [q \in DOMAIN photos \ {p} |-> r.positions[q]]
      BY <2>2, <2>3 DEF PositionOf
    <3> QED BY <1>5, <2>4, <3>1
  <2>6. PICK n : n = pos[p] + 1
    OBVIOUS
  <2>7. /\ n \in DOMAIN InOrder(pos)
        /\ InOrder(r.positions) = SubSeq(InOrder(pos), 1, n - 1)
                                    \o SubSeq(InOrder(pos), n + 1, Len(InOrder(pos)))
    BY <1>3, <2>6, CutsOut
  <2>8. Listed' = List!RemoveAt(Listed, n) /\ n \in DOMAIN Listed
    BY <1>2, <2>5, <2>7 DEF Listed, List!RemoveAt
  <2> QED BY <2>8 DEF List!TakeOut
<1>6. CASE photos' = photos
  BY <1>6 DEF Listed
<1> QED BY <1>4, <1>5, <1>6

(* A written order is an order of the same photos.                         *)
LEMMA ArrangeReorders ==
  ASSUME IInv, IInv', alone, alone', NEW c \in Clients, ArrangePhotos(c)
  PROVE  List!Arrange
<1>1. photos' = SetPositions(photos, req[c].positions) \/ photos' = photos
  BY Lands DEF ArrangePhotos, Read
<1>2. DOMAIN photos' = DOMAIN photos
  BY <1>1 DEF SetPositions
<1>3. PICK S, n : S = DOMAIN photos /\ n = Cardinality(S)
  OBVIOUS
<1>4. PICK new : new = PositionOf(photos')
  OBVIOUS
<1>5. IsFiniteSet(S) /\ Numbers(new, S) /\ List!ToSet(Listed) = S
  BY <1>2, <1>3, <1>4, ListReads DEF IInv, OneAtATime
<1>6. /\ InOrder(new) \in [1..n -> S]
      /\ \A a, b \in 1..n : a # b => InOrder(new)[a] # InOrder(new)[b]
  BY <1>3, <1>5, ReadsAnother
<1>7. InOrder(new) \in List!SetToSeqs(S)
  <2>1. PICK order : order = InOrder(new)
    OBVIOUS
  <2>2. order \in [1..n -> S] /\ \A a, b \in 1..n : a # b => order[a] # order[b]
    BY <1>6, <2>1
  <2>3. List!Cardinality(S) = Cardinality(S)
    BY DEF List!Cardinality, Cardinality
  <2>4. order \in List!SetToSeqs(S)
    BY <1>3, <2>2, <2>3, Zenon DEF List!SetToSeqs
  <2> QED BY <2>1, <2>4
<1>8. Listed' = InOrder(new)
  BY <1>4 DEF Listed
<1> QED BY <1>5, <1>7, <1>8 DEF List!Arrange

(* A step that leaves the rows leaves the strip.                           *)
LEMMA OthersKeepTheList ==
  ASSUME NEW c \in Clients,
         \/ UploadFiles(c) \/ PutFile(c) \/ HoldStrip(c) \/ RemovePhoto(c)
         \/ HoldRemoved(c) \/ ReorderPhotos(c) \/ HoldOrder(c) \/ Fail(c)
  PROVE  Listed' = Listed
<1>1. photos' = photos
  BY DEF UploadFiles, PutFile, HoldStrip, RemovePhoto, HoldRemoved, ReorderPhotos, HoldOrder,
         Fail, Begin, Read
<1> QED BY <1>1 DEF Listed

(* The strip of a model without photos is empty.                           *)
LEMMA StartsEmpty ==
  ASSUME Init
  PROVE  List!Init
<1>1. PICK pos : pos = PositionOf(photos)
  OBVIOUS
<1>2. DOMAIN pos = {}
  BY <1>1 DEF Init, PositionOf
<1>3. Cardinality(DOMAIN pos) = 0
  BY <1>2, FS_EmptySet
<1>4. 1..Cardinality(DOMAIN pos) = {}
  BY <1>3
<1>5. InOrder(pos) = <<>>
  BY <1>4 DEF InOrder
<1> QED BY <1>1, <1>5 DEF List!Init, Listed

(* As long as requests come one after the other, the strip is a list: an   *)
(* uploaded photo goes to its end, a removal takes one out and the others  *)
(* close up, and an order names the same photos (AddPhoto, RemovePhoto and *)
(* ReorderPhotos of internal/catalog/photo.go).                            *)
THEOREM KeepsTheList == Spec => KeepsTheListAlone
<1>1. Init => List!Init
  BY StartsEmpty
<1>2. IInv /\ IInv' /\ [Next]_vars => [alone' => List!Next]_Listed
  <2> SUFFICES ASSUME IInv, IInv', [Next]_vars, alone'
               PROVE  List!Next \/ Listed' = Listed
    OBVIOUS
  <2>1. CASE UNCHANGED vars
    BY <2>1 DEF vars, Listed
  <2>2. ASSUME NEW c \in Clients, Step(c) PROVE List!Next \/ Listed' = Listed
    <3>1. CASE AddPhoto(c) \/ DeletePhoto(c) \/ ArrangePhotos(c)
      <4>1. alone
        BY <3>1 DEF AddPhoto, DeletePhoto, ArrangePhotos, Commit, Read
      <4> QED BY <3>1, <4>1, AddAppends, DeleteTakesOut, ArrangeReorders DEF List!Next
    <3> QED BY <2>2, <3>1, OthersKeepTheList DEF Step
  <2> QED BY <2>1, <2>2 DEF Next
<1> QED BY <1>1, <1>2, Invariance, PTL DEF Spec, KeepsTheListAlone
=============================================================================
