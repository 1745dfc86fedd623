----------------------------- MODULE ServerProofs -----------------------------
(***************************************************************************)
(* What holds of the two commands of the binary.  Of pilam serve, its      *)
(* store of files and its backups: for every number of clients, contents,  *)
(* requests, starts, power losses and backups, and that the calls on the   *)
(* file system are a store of blobs; and of every environment it may be    *)
(* started in, what it is given or told.  Of pilam seed, in the last part: *)
(* for every plan of rows, every choice of flags, and any number of runs   *)
(* cut off anywhere.                                                       *)
(***************************************************************************)
EXTENDS Startup, SeedFacts, FiniteSetTheorems, TLAPS

(* What is known of a file under its key: it was renamed there whole and   *)
(* flushed, so that a power loss takes its name or nothing of it.          *)
Settled(k) ==
  /\ k \in Accepted /\ Size[k] <= MaxSize
  /\ named[k] = [bytes |-> Size[k], synced |-> Size[k]]

(* What is known of a call of Put between two of its steps.                *)
CallStands(c) ==
  LET k == put[c].key
  IN  /\ put[c].step # "none" => k \in Keys
      /\ put[c].step \notin Running => temps[c] = NoFile
      /\ put[c].step \in Running => k \in Accepted /\ temps[c] \in File
      /\ In(c, "copy") => temps[c].bytes <= Copied(k)
      /\ put[c].step \in {"flush", "publish"} =>
           Size[k] <= MaxSize /\ temps[c].bytes = Size[k]
      /\ In(c, "publish") => temps[c].synced = Size[k]
      /\ In(c, "stored") => k \in Names

(* The inductive invariant of the store.                                   *)
MediaInv ==
  /\ MediaTypeOK
  /\ entries \subseteq Names
  /\ \A k \in Names : Settled(k)
  /\ \A c \in Clients : CallStands(c)

(* What is known of a request: which call of Put is its own, and that the  *)
(* file it goes on with is there.                                          *)
RequestStands(c) ==
  /\ At(c, "put") <=> ~In(c, "none")
  /\ At(c, "put") => req[c].key = put[c].key
  /\ At(c, "form") => req[c].key \in Keys
  /\ req[c].step \in {"begin", "commit", "serve"} => req[c].key \in Names

Storable == {k \in Keys : k \in Accepted /\ Size[k] <= MaxSize}

Lefts == {<<>>, <<"files">>, <<"list", "files">>, <<"dump", "list", "files">>}

(* What is left of a backup, and what the parts it has hold of each other. *)
BackupStands ==
  /\ backup \in [left : Lefts, dump : SUBSET Keys,
                 listed : SUBSET Keys, archive : SUBSET Storable]
  /\ backup.left = <<"list", "files">> => backup.dump \subseteq Names \cup lost
  /\ backup.left = <<"files">> => backup.dump \subseteq backup.listed \cup lost
  /\ BackupFits

(* Nobody is served before the stores are open or after a clean stop.      *)
QuietWhenDown ==
  phase \in {"down", "opening"} \/ exit = "clean" =>
    /\ \A c \in Clients : At(c, "idle")
    /\ exit = "clean" => phase \in {"down", "closing"}

(* The inductive invariant.                                                *)
IInv ==
  /\ TypeOK
  /\ MediaInv
  /\ \A c \in Clients : RequestStands(c)
  /\ RowsHaveBlobs
  /\ BackupStands
  /\ QuietWhenDown

-----------------------------------------------------------------------------
(* The store.                                                              *)

(* No file is a file.                                                      *)
LEMMA NoFileIsNone == NoFile \notin File
BY DEF NoFile, File

(* The call of another client is where it was as long as its names are.    *)
LEMMA OthersStand ==
  ASSUME MediaInv, NEW d \in Clients, put'[d] = put[d], temps'[d] = temps[d], Names \subseteq Names'
  PROVE  CallStands(d)'
BY DEF MediaInv, CallStands, In, Names, Running, Copied

(* Opening a call checks the type before there is a file.                  *)
LEMMA OpenKeeps ==
  ASSUME MediaInv, NEW c \in Clients, NEW k \in Keys, OpenPut(c, k)
  PROVE  /\ MediaInv'
         /\ Names' = Names
         /\ put'[c].key = k /\ put'[c].step # "none"
         /\ \A d \in Clients \ {c} : put'[d] = put[d]
<1>1. Names' = Names /\ named' = named /\ entries' = entries
  BY DEF OpenPut, Names
<1>2. /\ put \in [Clients -> [step : {"none"} \cup Running \cup Results, key : Keys \cup {NoKey}]]
      /\ temps \in [Clients -> File \cup {NoFile}]
  BY DEF MediaInv, MediaTypeOK
<1>3. /\ put'[c].key = k /\ put'[c].step # "none"
      /\ \A d \in Clients \ {c} : put'[d] = put[d] /\ temps'[d] = temps[d]
  BY <1>2 DEF OpenPut
<1>4. CallStands(c)'
  <2>1. CASE k \in Accepted
    <3>1. /\ put'[c] = [step |-> "copy", key |-> k]
          /\ temps'[c] = [bytes |-> 0, synced |-> 0]
      BY <1>2, <2>1 DEF OpenPut
    <3>2. 0 <= Copied(k) /\ temps'[c] \in File
      BY <3>1, MediaAssumption DEF Copied, File
    <3> QED BY <2>1, <3>1, <3>2 DEF CallStands, In, Running, Copied
  <2>2. CASE k \notin Accepted
    <3>1. put'[c] = [step |-> "refused", key |-> k] /\ temps' = temps
      BY <1>2, <2>2 DEF OpenPut
    <3>2. In(c, "none") /\ temps[c] = NoFile
      BY DEF OpenPut, MediaInv, CallStands, In, Running
    <3> QED BY <3>1, <3>2 DEF CallStands, In, Running
  <2> QED BY <2>1, <2>2
<1>5. \A d \in Clients : CallStands(d)'
  BY <1>1, <1>3, <1>4, OthersStand
<1>6. MediaTypeOK'
  <2>1. [bytes |-> 0, synced |-> 0] \in File
    BY DEF File
  <2>2. temps' \in [Clients -> File \cup {NoFile}]
    BY <1>2, <2>1 DEF OpenPut
  <2>3. put' \in [Clients -> [step : {"none"} \cup Running \cup Results, key : Keys \cup {NoKey}]]
    BY <1>2 DEF OpenPut, Running, Results
  <2> QED BY <2>2, <2>3, <1>1 DEF MediaInv, MediaTypeOK
<1> QED BY <1>1, <1>3, <1>5, <1>6 DEF MediaInv, Settled
(* The types a step keeps when it writes one call, one file and no name.   *)
LEMMA TypesKept ==
  ASSUME MediaInv, NEW c \in Clients,
         NEW file \in File \cup {NoFile}, NEW step \in Running \cup Results,
         temps' \in {temps, [temps EXCEPT ![c] = file]},
         put' \in {put, [put EXCEPT ![c].step = step]},
         named' \in [Keys -> File \cup {NoFile}], entries' = entries
  PROVE  MediaTypeOK'
<1>1. /\ put \in [Clients -> [step : {"none"} \cup Running \cup Results, key : Keys \cup {NoKey}]]
      /\ temps \in [Clients -> File \cup {NoFile}]
      /\ entries \subseteq Keys
  BY DEF MediaInv, MediaTypeOK
<1>2. temps' \in [Clients -> File \cup {NoFile}]
  BY <1>1
<1>3. put' \in [Clients -> [step : {"none"} \cup Running \cup Results, key : Keys \cup {NoKey}]]
  BY <1>1
<1> QED BY <1>1, <1>2, <1>3 DEF MediaTypeOK

(* Every step of a call leaves what is known of the store and its calls,   *)
(* and no name is lost by it.                                              *)
LEMMA PutKeeps ==
  ASSUME MediaInv, NEW c \in Clients, PutStep(c)
  PROVE  /\ MediaInv'
         /\ Names \subseteq Names'
         /\ ~In(c, "none") /\ put'[c].key = put[c].key /\ put'[c].step # "none"
         /\ \A d \in Clients \ {c} : put'[d] = put[d]
<1> DEFINE k == put[c].key
<1>1. /\ put \in [Clients -> [step : {"none"} \cup Running \cup Results, key : Keys \cup {NoKey}]]
      /\ temps \in [Clients -> File \cup {NoFile}]
      /\ named \in [Keys -> File \cup {NoFile}]
      /\ NoFile \in File \cup {NoFile}
  BY DEF MediaInv, MediaTypeOK
<1>2. CallStands(c)
  BY DEF MediaInv
<1>3. put[c].step \in Running
  BY DEF PutStep, Copy, EndCopy, Flush, Publish, FailPut, In, Running
<1>4. k \in Keys /\ k \in Accepted /\ temps[c] \in File /\ Size[k] \in Nat /\ MaxSize \in Nat
  BY <1>2, <1>3, MediaAssumption DEF CallStands, Running
<1>5. temps[c].bytes \in Nat /\ temps[c].synced \in Nat
  BY <1>4 DEF File
<1>6. CASE Copy(c)
  <2>1. UNCHANGED <<named, entries, put>> /\ In(c, "copy")
    BY <1>6 DEF Copy
  <2>2. temps' = [temps EXCEPT ![c] = [temps[c] EXCEPT !.bytes = temps[c].bytes + 1]]
    BY <1>6, <1>1 DEF Copy
  <2>3. [temps[c] EXCEPT !.bytes = temps[c].bytes + 1] \in File
    BY <1>4, <1>5 DEF File
  <2>4. temps'[c] \in File /\ temps'[c].bytes = temps[c].bytes + 1
    BY <1>1, <1>4, <2>2, <2>3 DEF File
  <2>5. temps'[c].bytes <= Copied(k)
    BY <1>6, <1>4, <1>5, <2>4 DEF Copy, Copied
  <2>6. CallStands(c)'
    BY <1>2, <1>3, <1>4, <2>1, <2>4, <2>5 DEF CallStands, In, Running, Copied
  <2>7. MediaTypeOK'
    BY <2>1, <2>2, <2>3, TypesKept, <1>1, <1>3
  <2>8. \A d \in Clients \ {c} : CallStands(d)'
    BY <2>1, <2>2, <1>1, OthersStand DEF Names
  <2> QED BY <2>1, <2>6, <2>7, <2>8, <1>3 DEF MediaInv, Names, Settled, In, Running
<1>7. CASE EndCopy(c)
  <2>1. UNCHANGED <<named, entries>> /\ In(c, "copy") /\ temps[c].bytes = Copied(k)
    BY <1>7 DEF EndCopy
  <2>2. PICK step \in {"refused", "stored", "flush"} :
          /\ put' = [put EXCEPT ![c].step = step]
          /\ step = "flush" => temps' = temps /\ temps[c].bytes <= MaxSize
          /\ step # "flush" => DropTemp(c)
          /\ step = "stored" => k \in Names
    BY <1>7 DEF EndCopy, Move
  <2>3. put'[c].step = step /\ put'[c].key = k
    BY <1>1, <2>2
  <2>4. step # "flush" => temps'[c] = NoFile
    BY <1>1, <2>2 DEF DropTemp
  <2>5. step = "flush" => Size[k] <= MaxSize /\ temps[c].bytes = Size[k]
    BY <1>4, <1>5, <2>1, <2>2 DEF Copied
  <2>6. CallStands(c)'
    BY <1>4, <2>1, <2>2, <2>3, <2>4, <2>5 DEF CallStands, In, Running, Names
  <2>7. MediaTypeOK'
    <3>1. temps' \in {temps, [temps EXCEPT ![c] = NoFile]}
      BY <2>2 DEF DropTemp
    <3>2. step \in Running \cup Results
      BY DEF Running, Results
    <3> QED BY <3>1, <3>2, <2>1, <2>2, <1>1, TypesKept
  <2>8. \A d \in Clients \ {c} : put'[d] = put[d] /\ temps'[d] = temps[d]
    BY <1>1, <2>2 DEF DropTemp
  <2>9. \A d \in Clients \ {c} : CallStands(d)'
    BY <2>1, <2>8, OthersStand DEF Names
  <2> QED BY <2>1, <2>3, <2>6, <2>7, <2>8, <2>9, <1>3 DEF MediaInv, Names, Settled, In, Running
<1>8. CASE Flush(c)
  <2>1. UNCHANGED <<named, entries>> /\ In(c, "flush")
    BY <1>8 DEF Flush
  <2>2. temps' = [temps EXCEPT ![c] = [temps[c] EXCEPT !.synced = temps[c].bytes]]
    BY <1>8, <1>1 DEF Flush
  <2>3. put'[c].step = "publish" /\ put'[c].key = k /\ put' = [put EXCEPT ![c].step = "publish"]
    BY <1>1, <1>8 DEF Flush, Move
  <2>4. [temps[c] EXCEPT !.synced = temps[c].bytes] \in File
    BY <1>4, <1>5 DEF File
  <2>5. /\ temps'[c] \in File
        /\ temps'[c].bytes = temps[c].bytes /\ temps'[c].synced = temps[c].bytes
    BY <1>1, <1>4, <2>2, <2>4 DEF File
  <2>6. CallStands(c)'
    BY <1>2, <1>4, <2>1, <2>3, <2>5 DEF CallStands, In, Running
  <2>7. MediaTypeOK'
    BY <2>1, <2>2, <2>3, <2>4, TypesKept, <1>1 DEF Running
  <2>8. \A d \in Clients \ {c} : put'[d] = put[d] /\ temps'[d] = temps[d]
    BY <1>1, <2>2, <2>3
  <2>9. \A d \in Clients \ {c} : CallStands(d)'
    BY <2>1, <2>8, OthersStand DEF Names
  <2> QED BY <2>1, <2>3, <2>6, <2>7, <2>8, <2>9, <1>3 DEF MediaInv, Names, Settled, In, Running
<1>9. CASE Publish(c)
  <2>1. UNCHANGED entries /\ In(c, "publish") /\ named' = [named EXCEPT ![k] = temps[c]]
    BY <1>9 DEF Publish
  <2>2. put'[c].step = "stored" /\ put'[c].key = k /\ put' = [put EXCEPT ![c].step = "stored"]
    BY <1>1, <1>9 DEF Publish, Move
  <2>3. temps' = [temps EXCEPT ![c] = NoFile] /\ temps'[c] = NoFile
    BY <1>1, <1>9 DEF Publish, DropTemp
  <2>4. temps[c] = [bytes |-> Size[k], synced |-> Size[k]] /\ Size[k] <= MaxSize
    BY <1>2, <1>4, <2>1 DEF CallStands, In, File
  <2>5. named' \in [Keys -> File \cup {NoFile}] /\ named'[k] = temps[c]
    BY <1>1, <1>4, <2>1
  <2>6. Names' = Names \cup {k}
    BY <1>1, <1>4, <2>1, <2>5, NoFileIsNone DEF Names
  <2>7. \A j \in Names' : Settled(j)'
    <3> TAKE j \in Names'
    <3>1. CASE j = k
      BY <3>1, <1>4, <2>4, <2>5 DEF Settled
    <3>2. CASE j # k
      BY <3>2, <1>1, <2>1, <2>6 DEF Settled, MediaInv
    <3> QED BY <3>1, <3>2
  <2>8. CallStands(c)'
    BY <1>4, <2>2, <2>3, <2>6 DEF CallStands, In, Running
  <2>9. MediaTypeOK'
    BY <2>1, <2>2, <2>3, <2>5, TypesKept, <1>1 DEF Results
  <2>10. \A d \in Clients \ {c} : put'[d] = put[d] /\ temps'[d] = temps[d]
    BY <1>1, <2>2, <2>3
  <2>11. \A d \in Clients \ {c} : CallStands(d)'
    BY <2>6, <2>10, OthersStand
  <2> QED BY <2>1, <2>2, <2>6, <2>7, <2>8, <2>9, <2>10, <2>11, <1>3 DEF MediaInv, In, Running
<1>10. CASE FailPut(c)
  <2>1. UNCHANGED <<named, entries>>
    BY <1>10 DEF FailPut
  <2>2. put'[c].step = "failed" /\ put'[c].key = k /\ put' = [put EXCEPT ![c].step = "failed"]
    BY <1>1, <1>10 DEF FailPut, Move
  <2>3. temps' = [temps EXCEPT ![c] = NoFile] /\ temps'[c] = NoFile
    BY <1>1, <1>10 DEF FailPut, DropTemp
  <2>4. CallStands(c)'
    BY <1>4, <2>2, <2>3 DEF CallStands, In, Running
  <2>5. MediaTypeOK'
    BY <2>1, <2>2, <2>3, TypesKept, <1>1 DEF Results
  <2>6. \A d \in Clients \ {c} : put'[d] = put[d] /\ temps'[d] = temps[d]
    BY <1>1, <2>2, <2>3
  <2>7. \A d \in Clients \ {c} : CallStands(d)'
    BY <2>1, <2>6, OthersStand DEF Names
  <2> QED BY <2>1, <2>2, <2>4, <2>5, <2>6, <2>7, <1>3 DEF MediaInv, Names, Settled, In, Running
<1> QED BY <1>6, <1>7, <1>8, <1>9, <1>10 DEF PutStep

(* An answer that is taken leaves the call where it began.                 *)
LEMMA TakeKeeps ==
  ASSUME MediaInv, NEW c \in Clients, Take(c)
  PROVE  /\ MediaInv'
         /\ Names' = Names
         /\ ~In(c, "none") /\ put'[c].step = "none"
         /\ \A d \in Clients \ {c} : put'[d] = put[d]
<1>1. put \in [Clients -> [step : {"none"} \cup Running \cup Results, key : Keys \cup {NoKey}]]
  BY DEF MediaInv, MediaTypeOK
<1>2. UNCHANGED <<named, entries, temps>> /\ put' = [put EXCEPT ![c] = Idle]
  BY DEF Take
<1>3. put'[c] = Idle /\ \A d \in Clients \ {c} : put'[d] = put[d]
  BY <1>1, <1>2
<1>4. put[c].step \in Results /\ put[c].step \notin Running
  BY DEF Take, Results, Running
<1>5. CallStands(c)'
  BY <1>2, <1>3, <1>4 DEF MediaInv, CallStands, Idle, In, Running
<1>6. \A d \in Clients \ {c} : CallStands(d)'
  BY <1>2, <1>3, OthersStand DEF Names
<1>7. Idle \in [step : {"none"} \cup Running \cup Results, key : Keys \cup {NoKey}]
  BY DEF Idle
<1>8. put' \in [Clients -> [step : {"none"} \cup Running \cup Results, key : Keys \cup {NoKey}]]
  BY <1>1, <1>2, <1>7
<1>9. MediaTypeOK'
  BY <1>2, <1>8 DEF MediaInv, MediaTypeOK
<1> QED BY <1>2, <1>3, <1>4, <1>5, <1>6, <1>9 DEF MediaInv, Names, Settled, In, Idle, Results

(* Calls that are cut off leave no file of their own.                      *)
LEMMA CutKeeps ==
  ASSUME temps' = [c \in Clients |-> NoFile], put' = [c \in Clients |-> Idle],
         named' \in [Keys -> File \cup {NoFile}], entries' \subseteq Names',
         \A k \in Names' : Settled(k)'
  PROVE  MediaInv' /\ \A c \in Clients : put'[c].step = "none"
<1>1. \A c \in Clients : CallStands(c)'
  BY DEF CallStands, Idle, In, Running
<1>2. Idle \in [step : {"none"} \cup Running \cup Results, key : Keys \cup {NoKey}]
  BY DEF Idle
<1>3. put' \in [Clients -> [step : {"none"} \cup Running \cup Results, key : Keys \cup {NoKey}]]
  BY <1>2
<1>4. MediaTypeOK'
  BY <1>3 DEF MediaTypeOK, Names
<1> QED BY <1>1, <1>4 DEF MediaInv, Idle

(* The process ends, and the files stay.                                   *)
LEMMA DieKeeps ==
  ASSUME MediaInv, Die
  PROVE  MediaInv' /\ Names' = Names /\ \A c \in Clients : put'[c].step = "none"
<1>1. named' \in [Keys -> File \cup {NoFile}] /\ entries' \subseteq Names' /\ Names' = Names
  BY DEF Die, MediaInv, MediaTypeOK, Names
<1>2. \A k \in Names' : Settled(k)'
  BY <1>1 DEF Die, MediaInv, Settled
<1> QED BY <1>1, <1>2, CutKeeps DEF Die

(* The power goes: every name that is left is whole, because its bytes     *)
(* were flushed before the file was named.                                 *)
LEMMA LossKeeps ==
  ASSUME MediaInv, LosePower
  PROVE  /\ MediaInv'
         /\ Names' = entries' /\ entries \subseteq Names' /\ Names' \subseteq Names
         /\ \A c \in Clients : put'[c].step = "none"
<1>0. PICK kept \in SUBSET Names : \E bytes \in [kept -> 0..MaxSize] :
        /\ entries \subseteq kept
        /\ \A k \in kept : named[k].synced <= bytes[k] /\ bytes[k] <= named[k].bytes
        /\ named' = [k \in Keys |-> IF k \in kept
                                    THEN [bytes |-> bytes[k], synced |-> bytes[k]]
                                    ELSE NoFile]
        /\ entries' = kept
        /\ temps' = [c \in Clients |-> NoFile]
        /\ put' = [c \in Clients |-> Idle]
  BY DEF LosePower
<1>1. PICK bytes \in [kept -> 0..MaxSize] :
        /\ entries \subseteq kept
        /\ \A k \in kept : named[k].synced <= bytes[k] /\ bytes[k] <= named[k].bytes
        /\ named' = [k \in Keys |-> IF k \in kept
                                    THEN [bytes |-> bytes[k], synced |-> bytes[k]]
                                    ELSE NoFile]
        /\ entries' = kept
        /\ temps' = [c \in Clients |-> NoFile]
        /\ put' = [c \in Clients |-> Idle]
  BY <1>0
<1>2. kept \subseteq Keys
  BY DEF Names
<1>3. \A k \in kept : bytes[k] \in Nat /\ bytes[k] = Size[k]
  <2> TAKE k \in kept
  <2>1. Settled(k) /\ Size[k] \in Nat /\ bytes[k] \in Nat
    BY <1>2, MediaAssumption DEF MediaInv
  <2>2. Size[k] <= bytes[k] /\ bytes[k] <= Size[k]
    BY <1>1, <2>1 DEF Settled
  <2> QED BY <2>1, <2>2
<1>4. \A k \in kept : named'[k] = [bytes |-> Size[k], synced |-> Size[k]] /\ named'[k] \in File
  BY <1>1, <1>2, <1>3 DEF File
<1>5. \A k \in Keys \ kept : named'[k] = NoFile
  BY <1>1
<1>6. Names' = kept
  BY <1>2, <1>4, <1>5, NoFileIsNone DEF Names
<1>7. named' \in [Keys -> File \cup {NoFile}]
  <2>1. DOMAIN named' = Keys /\ named' = [k \in Keys |-> named'[k]]
    BY <1>1
  <2> QED BY <2>1, <1>4, <1>5
<1>8. \A k \in Names' : Settled(k)'
  BY <1>4, <1>6 DEF Settled, MediaInv
<1> QED BY <1>1, <1>6, <1>7, <1>8, CutKeeps

(* An archive of whole files is unpacked while nobody is served.           *)
LEMMA UnpackKeeps ==
  ASSUME MediaInv, NEW archive \in SUBSET Keys, Unpack(archive),
         \A k \in archive : k \in Accepted /\ Size[k] <= MaxSize,
         \A c \in Clients : In(c, "none")
  PROVE  MediaInv' /\ Names' = archive /\ put' = put
<1>1. \A k \in archive : /\ named'[k] = [bytes |-> Size[k], synced |-> Size[k]]
                         /\ named'[k] \in File
  BY MediaAssumption DEF Unpack, File
<1>2. \A k \in Keys \ archive : named'[k] = NoFile
  BY DEF Unpack
<1>3. Names' = archive
  BY <1>1, <1>2, NoFileIsNone DEF Names
<1>4. named' \in [Keys -> File \cup {NoFile}]
  <2>1. named' = [k \in Keys |-> named'[k]]
    BY DEF Unpack
  <2> QED BY <2>1, <1>1, <1>2
<1>5. UNCHANGED <<temps, put>> /\ entries' = archive
  BY DEF Unpack
<1>6. \A c \in Clients : CallStands(c)'
  BY <1>5 DEF MediaInv, CallStands, In, Running
<1>7. MediaTypeOK'
  BY <1>4, <1>5 DEF MediaInv, MediaTypeOK
<1>8. \A k \in Names' : Settled(k)'
  BY <1>1, <1>3 DEF Settled
<1> QED BY <1>3, <1>5, <1>6, <1>7, <1>8 DEF MediaInv

(* A name reaches the disk.                                                *)
LEMMA PersistKeeps ==
  ASSUME MediaInv, Persist
  PROVE  MediaInv' /\ Names' = Names /\ put' = put
<1>1. UNCHANGED <<named, temps, put>> /\ Names' = Names /\ entries' \subseteq Names
  BY DEF Persist, MediaInv, Names
<1>2. \A c \in Clients : CallStands(c)'
  BY <1>1, OthersStand
<1>3. MediaTypeOK' /\ \A k \in Names' : Settled(k)'
  BY <1>1 DEF MediaInv, MediaTypeOK, Settled, Names
<1> QED BY <1>1, <1>2, <1>3 DEF MediaInv

-----------------------------------------------------------------------------
(* The server.                                                             *)

(* What is left of a backup is never more than its three parts.            *)
LEMMA LeftIsShort == \A left \in Lefts : Len(left) <= 3
<1>1. Len(<<>>) = 0 /\ Len(<<"files">>) = 1
  OBVIOUS
<1>2. Len(<<"list", "files">>) = 2
  OBVIOUS
<1>3. Len(<<"dump", "list", "files">>) = 3
  OBVIOUS
<1>4. ASSUME NEW left \in Lefts PROVE Len(left) \in {0, 1, 2, 3}
  BY <1>1, <1>2, <1>3, Zenon DEF Lefts
<1>5. \A n \in {0, 1, 2, 3} : n <= 3
  OBVIOUS
<1> QED BY <1>4, <1>5, Zenon

(* The types of the server follow from those of its parts.                 *)
LEMMA TypesFollow ==
  ASSUME MediaInv', BackupStands', phase' \in Phases, signal' \in BOOLEAN,
         req' \in [Clients -> [step : Steps, key : Keys \cup {NoKey}]],
         rows' \subseteq Keys, lost' \subseteq Keys, exit' \in {"none", "clean", "error"},
         count' \in [Counted -> Nat]
  PROVE  TypeOK'
<1>1. backup'.left \in Lefts /\ backup'.dump \subseteq Keys
      /\ backup'.listed \subseteq Keys /\ backup'.archive \subseteq Keys
  BY DEF BackupStands, Storable
<1> QED BY <1>1, LeftIsShort DEF TypeOK, MediaInv

(* A counter below its bound stays a number.                               *)
LEMMA TickCounts ==
  ASSUME TypeOK, NEW n \in Counted, NEW bound, Tick(n, bound)
  PROVE  count' \in [Counted -> Nat]
BY DEF TypeOK, Tick

(* A backup fits as long as no name is lost.                               *)
LEMMA BackupKept ==
  ASSUME BackupStands, backup' = backup, Names \subseteq Names', lost \subseteq lost'
  PROVE  BackupStands'
BY DEF BackupStands, BackupFits

(* A request that is not touched stands as long as no name is lost.        *)
LEMMA RequestKept ==
  ASSUME NEW d \in Clients, RequestStands(d),
         req'[d] = req[d], put'[d] = put[d], Names \subseteq Names'
  PROVE  RequestStands(d)'
BY DEF RequestStands, At, In

(* A step of one request leaves the invariant when its own request stands, *)
(* the store keeps its invariant and its names, and a row it writes names  *)
(* a file.                                                                 *)
LEMMA RequestStep ==
  ASSUME IInv, NEW c \in Clients, MediaInv', Names \subseteq Names',
         \A d \in Clients \ {c} : put'[d] = put[d],
         NEW next \in [step : Steps, key : Keys \cup {NoKey}],
         req' = [req EXCEPT ![c] = next],
         RequestStands(c)',
         phase = "serving" \/ ~At(c, "idle"),
         UNCHANGED <<phase, signal, exit, lost, backup>>,
         rows' \subseteq rows \cup Names',
         count' \in [Counted -> Nat]
  PROVE  IInv'
<1>1. req \in [Clients -> [step : Steps, key : Keys \cup {NoKey}]] /\ rows \subseteq Keys
      /\ phase \in Phases /\ signal \in BOOLEAN /\ lost \subseteq Keys
      /\ exit \in {"none", "clean", "error"}
  BY DEF IInv, TypeOK
<1>2. req' \in [Clients -> [step : Steps, key : Keys \cup {NoKey}]]
      /\ \A d \in Clients \ {c} : req'[d] = req[d]
  BY <1>1
<1>3. BackupStands'
  BY BackupKept DEF IInv
<1>4. rows' \subseteq Keys
  BY <1>1 DEF Names
<1>5. TypeOK'
  BY <1>1, <1>2, <1>3, <1>4, TypesFollow
<1>6. \A d \in Clients \ {c} : RequestStands(d)'
  BY <1>2, RequestKept DEF IInv
<1>7. RowsHaveBlobs'
  BY DEF IInv, RowsHaveBlobs
<1>8. QuietWhenDown'
  BY DEF IInv, QuietWhenDown
<1> QED BY <1>3, <1>5, <1>6, <1>7, <1>8 DEF IInv

(* A step that ends every request and every call, and keeps what the rows  *)
(* and the backup name.                                                    *)
LEMMA CutStep ==
  ASSUME IInv, MediaInv', Cut, \A c \in Clients : put'[c].step = "none",
         exit' \in {"none", "clean", "error"}, lost' \subseteq Keys,
         BackupStands', RowsHaveBlobs', UNCHANGED <<signal, rows>>,
         count' \in [Counted -> Nat]
  PROVE  IInv'
<1>1. req' = [c \in Clients |-> [step |-> "idle", key |-> NoKey]] /\ phase' = "down"
  BY DEF Cut
<1>2. req' \in [Clients -> [step : Steps, key : Keys \cup {NoKey}]]
  BY <1>1 DEF Steps
<1>3. TypeOK'
  BY <1>1, <1>2, TypesFollow DEF IInv, TypeOK, Phases
<1>4. \A c \in Clients : RequestStands(c)'
  BY <1>1 DEF RequestStands, At, In
<1>5. QuietWhenDown'
  BY <1>1 DEF QuietWhenDown, At
<1> QED BY <1>3, <1>4, <1>5 DEF IInv

(* A step of the process, of the kernel or of a backup that touches no     *)
(* request and no call.                                                    *)
LEMMA AsideStep ==
  ASSUME IInv, MediaInv', Names' = Names, put' = put, UNCHANGED <<req, rows, lost>>,
         phase' \in Phases, signal' \in BOOLEAN, exit' \in {"none", "clean", "error"},
         BackupStands', QuietWhenDown', count' \in [Counted -> Nat]
  PROVE  IInv'
<1>1. TypeOK'
  BY TypesFollow DEF IInv, TypeOK
<1>2. \A c \in Clients : RequestStands(c)'
  BY RequestKept DEF IInv
<1>3. RowsHaveBlobs'
  BY DEF IInv, RowsHaveBlobs
<1> QED BY <1>1, <1>2, <1>3 DEF IInv

(* The part a backup is at is the first of those that are left.            *)
LEMMA HeadsTell ==
  ASSUME NEW left \in Lefts, left # <<>>
  PROVE  /\ Head(left) = "dump" => left = <<"dump", "list", "files">>
         /\ Head(left) = "list" => left = <<"list", "files">>
         /\ Head(left) = "files" => left = <<"files">>
<1>1. Head(<<"files">>) = "files" /\ Head(<<"list", "files">>) = "list"
  OBVIOUS
<1>2. Head(<<"dump", "list", "files">>) = "dump"
  OBVIOUS
<1>3. "dump" # "list" /\ "list" # "files" /\ "dump" # "files"
  OBVIOUS
<1> QED BY <1>1, <1>2, <1>3, Zenon DEF Lefts

(* And the others come after it.                                           *)
LEMMA TailsTell ==
  /\ Tail(<<"dump", "list", "files">>) = <<"list", "files">>
  /\ Tail(<<"list", "files">>) = <<"files">>
  /\ Tail(<<"files">>) = <<>>
OBVIOUS

(* Every step of the server leaves the invariant: what a call of Put does  *)
(* before it renames is known of the call, what it renames is whole, and   *)
(* a request writes a row only once its file is there.                     *)
LEMMA Inductive ==
  ASSUME IInv, [Next]_vars
  PROVE  IInv'
<1>1. /\ req \in [Clients -> [step : Steps, key : Keys \cup {NoKey}]]
      /\ phase \in Phases /\ signal \in BOOLEAN /\ exit \in {"none", "clean", "error"}
      /\ count \in [Counted -> Nat] /\ lost \subseteq Keys /\ MediaInv /\ TypeOK
      /\ BackupStands /\ QuietWhenDown /\ RowsHaveBlobs /\ Names \subseteq Keys
      /\ \A c \in Clients : RequestStands(c) /\ CallStands(c)
  BY DEF IInv, TypeOK, MediaInv, Names
<1>2. ASSUME UNCHANGED vars PROVE IInv'
  <2>1. MediaInv' /\ Names' = Names
    BY <1>1, <1>2 DEF vars, MediaInv, MediaTypeOK, Names, Settled, CallStands, In
  <2>2. BackupStands' /\ QuietWhenDown'
    BY <1>1, <1>2, <2>1 DEF vars, BackupStands, BackupFits, QuietWhenDown, At
  <2> QED BY <1>1, <1>2, <2>1, <2>2, AsideStep DEF vars
<1>3. ASSUME UNCHANGED mediaVars PROVE MediaInv' /\ Names' = Names
  BY <1>1, <1>3 DEF mediaVars, MediaInv, MediaTypeOK, Names, Settled, CallStands, In
<1>4. ASSUME NEW c \in Clients, Upload(c) PROVE IInv'
  <2>1. PICK k \in Keys : req' = [req EXCEPT ![c] = [step |-> "form", key |-> k]]
    BY <1>4 DEF Upload
  <2>2. UNCHANGED mediaVars
    BY <1>4 DEF Upload
  <2>3. count' \in [Counted -> Nat]
    BY <1>1, <1>4, TickCounts DEF Upload, Counted
  <2>4. req'[c] = [step |-> "form", key |-> k] /\ [step |-> "form", key |-> k] \in [step : Steps, key : Keys \cup {NoKey}]
    BY <1>1, <2>1 DEF Steps
  <2>5. RequestStands(c)'
    BY <1>1, <1>4, <2>2, <2>4 DEF Upload, RequestStands, At, In, mediaVars
  <2> QED BY <1>3, <1>4, <2>1, <2>2, <2>3, <2>4, <2>5, RequestStep
          DEF Upload, Listening, mediaVars
<1>5. ASSUME NEW c \in Clients, ReceiveForm(c) PROVE IInv'
  <2>1. req[c].key \in Keys /\ OpenPut(c, req[c].key)
    BY <1>1, <1>5 DEF ReceiveForm, RequestStands
  <2>2. /\ MediaInv' /\ Names' = Names
        /\ put'[c].key = req[c].key /\ put'[c].step # "none"
        /\ \A d \in Clients \ {c} : put'[d] = put[d]
    BY <1>1, <2>1, OpenKeeps
  <2>3. req' = [req EXCEPT ![c] = [req[c] EXCEPT !.step = "put"]]
    BY <1>1, <1>5 DEF ReceiveForm, Goto
  <2>4. /\ [req[c] EXCEPT !.step = "put"] \in [step : Steps, key : Keys \cup {NoKey}]
        /\ req'[c].step = "put" /\ req'[c].key = req[c].key
    BY <1>1, <2>3 DEF Steps
  <2>5. RequestStands(c)'
    BY <2>2, <2>4 DEF RequestStands, At, In
  <2>6. ~At(c, "idle")
    BY <1>5 DEF ReceiveForm, At
  <2> QED BY <1>1, <1>5, <2>2, <2>3, <2>4, <2>5, <2>6, RequestStep DEF ReceiveForm
<1> DEFINE Over == [step |-> "idle", key |-> NoKey]
<1>6. Over \in [step : Steps, key : Keys \cup {NoKey}]
  BY DEF Steps
<1>7. ASSUME NEW c \in Clients, BreakForm(c) \/ SendMedia(c) PROVE IInv'
  <2>1. UNCHANGED mediaVars /\ req' = [req EXCEPT ![c] = Over] /\ ~At(c, "idle") /\ ~At(c, "put")
    BY <1>7 DEF BreakForm, SendMedia, Answer, At
  <2>2. RequestStands(c)'
    BY <1>1, <2>1 DEF RequestStands, At, In, mediaVars
  <2> QED BY <1>1, <1>3, <1>6, <1>7, <2>1, <2>2, RequestStep DEF BreakForm, SendMedia, mediaVars
<1>8. ASSUME NEW c \in Clients, StoreFile(c) PROVE IInv'
  <2>1. /\ MediaInv' /\ Names \subseteq Names'
        /\ put'[c].key = put[c].key /\ put'[c].step # "none"
        /\ \A d \in Clients \ {c} : put'[d] = put[d]
    BY <1>1, <1>8, PutKeeps DEF StoreFile
  <2>2. UNCHANGED serverVars /\ At(c, "put")
    BY <1>8 DEF StoreFile
  <2>3. req' = [req EXCEPT ![c] = req[c]] /\ req[c] \in [step : Steps, key : Keys \cup {NoKey}]
    BY <1>1, <2>2 DEF serverVars
  <2>4. RequestStands(c)'
    BY <1>1, <2>1, <2>2 DEF RequestStands, At, In, serverVars
  <2> QED BY <1>1, <2>1, <2>2, <2>3, <2>4, RequestStep DEF serverVars, At
<1>9. ASSUME NEW c \in Clients, TakeStored(c) PROVE IInv'
  <2>1. /\ MediaInv' /\ Names' = Names /\ put'[c].step = "none"
        /\ \A d \in Clients \ {c} : put'[d] = put[d]
    BY <1>1, <1>9, TakeKeeps DEF TakeStored
  <2>2. At(c, "put") /\ ~At(c, "idle")
    BY <1>9 DEF TakeStored, At
  <2>3. CASE In(c, "stored")
    <3>1. req' = [req EXCEPT ![c] = [req[c] EXCEPT !.step = "begin"]]
      BY <1>1, <1>9, <2>3 DEF TakeStored, Goto
    <3>2. /\ [req[c] EXCEPT !.step = "begin"] \in [step : Steps, key : Keys \cup {NoKey}]
          /\ req'[c].step = "begin" /\ req'[c].key = req[c].key
      BY <1>1, <3>1 DEF Steps
    <3>3. RequestStands(c)'
      BY <1>1, <2>1, <2>2, <2>3, <3>2 DEF RequestStands, CallStands, At, In
    <3> QED BY <1>1, <1>9, <2>1, <2>2, <3>1, <3>2, <3>3, RequestStep DEF TakeStored
  <2>4. CASE ~In(c, "stored")
    <3>1. req' = [req EXCEPT ![c] = Over]
      BY <1>9, <2>4 DEF TakeStored, Answer
    <3>2. RequestStands(c)'
      BY <1>1, <2>1, <3>1 DEF RequestStands, At, In
    <3> QED BY <1>1, <1>6, <1>9, <2>1, <2>2, <3>1, <3>2, RequestStep DEF TakeStored
  <2> QED BY <2>3, <2>4
<1>10. ASSUME NEW c \in Clients, BeginTx(c) PROVE IInv'
  <2>1. UNCHANGED mediaVars /\ At(c, "begin") /\ ~At(c, "idle") /\ ~At(c, "put")
    BY <1>10 DEF BeginTx, At
  <2>2. PICK next \in {[req[c] EXCEPT !.step = "commit"], Over} : req' = [req EXCEPT ![c] = next]
    BY <1>1, <1>10 DEF BeginTx, Goto, Answer
  <2>3. next \in [step : Steps, key : Keys \cup {NoKey}] /\ req'[c] = next
    BY <1>1, <1>6, <2>2 DEF Steps
  <2>4. RequestStands(c)'
    BY <1>1, <2>1, <2>2, <2>3, <1>3 DEF RequestStands, At, In, mediaVars
  <2> QED BY <1>1, <1>3, <1>10, <2>1, <2>2, <2>3, <2>4, RequestStep DEF BeginTx, mediaVars
<1>11. ASSUME NEW c \in Clients, CommitRow(c) PROVE IInv'
  <2>1. UNCHANGED mediaVars /\ At(c, "commit") /\ ~At(c, "idle") /\ ~At(c, "put")
    BY <1>11 DEF CommitRow, At
  <2>2. req' = [req EXCEPT ![c] = Over] /\ rows' \subseteq rows \cup {req[c].key}
    BY <1>11 DEF CommitRow, Answer
  <2>3. req[c].key \in Names
    BY <1>1, <2>1 DEF RequestStands, At
  <2>4. RequestStands(c)'
    BY <1>1, <2>1, <2>2 DEF RequestStands, At, In, mediaVars
  <2> QED BY <1>1, <1>3, <1>6, <1>11, <2>1, <2>2, <2>3, <2>4, RequestStep DEF CommitRow, mediaVars
<1>12. ASSUME NEW c \in Clients, ServeMedia(c) PROVE IInv'
  <2>1. PICK k \in Names : req' = [req EXCEPT ![c] = [step |-> "serve", key |-> k]]
    BY <1>12 DEF ServeMedia
  <2>2. UNCHANGED mediaVars
    BY <1>12 DEF ServeMedia
  <2>3. count' \in [Counted -> Nat]
    BY <1>1, <1>12, TickCounts DEF ServeMedia, Counted
  <2>4. /\ req'[c] = [step |-> "serve", key |-> k]
        /\ [step |-> "serve", key |-> k] \in [step : Steps, key : Keys \cup {NoKey}]
    BY <1>1, <2>1 DEF Steps
  <2>5. RequestStands(c)'
    BY <1>1, <1>3, <1>12, <2>2, <2>4 DEF ServeMedia, RequestStands, At, In, mediaVars
  <2> QED BY <1>1, <1>3, <1>12, <2>1, <2>2, <2>3, <2>4, <2>5, RequestStep
          DEF ServeMedia, Listening, mediaVars
<1>13. ASSUME Start PROVE IInv'
  <2>1. UNCHANGED <<mediaVars, req, rows, lost, backup>> /\ phase' = "opening" /\ phase = "down"
        /\ signal' = FALSE /\ exit' = "none"
    BY <1>13 DEF Start
  <2>2. count' \in [Counted -> Nat]
    BY <1>1, <1>13, TickCounts DEF Start, Counted
  <2>3. BackupStands'
    BY <1>1, <1>3, <2>1, BackupKept
  <2>4. QuietWhenDown'
    BY <1>1, <2>1 DEF QuietWhenDown, At
  <2> QED BY <1>3, <2>1, <2>2, <2>3, <2>4, AsideStep DEF mediaVars, Phases
<1>14. ASSUME Signal \/ OpenStores \/ ListenFails \/ Shutdown \/ AwaitHandlers PROVE IInv'
  <2>1. UNCHANGED <<mediaVars, req, rows, lost, backup, count>>
    BY <1>14 DEF Signal, OpenStores, ListenFails, Shutdown, AwaitHandlers
  <2>2. phase' \in Phases /\ signal' \in BOOLEAN /\ exit' \in {"none", "clean", "error"}
    BY <1>1, <1>14 DEF Signal, OpenStores, ListenFails, Shutdown, AwaitHandlers, Phases
  <2>3. BackupStands'
    BY <1>1, <1>3, <2>1, BackupKept
  <2>4. QuietWhenDown'
    BY <1>1, <1>14, <2>1 DEF Signal, OpenStores, ListenFails, Shutdown, AwaitHandlers,
                             QuietWhenDown, At, Drained, Phases
  <2> QED BY <1>1, <1>3, <2>1, <2>2, <2>3, <2>4, AsideStep DEF mediaVars
<1>15. ASSUME CloseDB \/ Kill PROVE IInv'
  <2>1. Cut /\ Die /\ UNCHANGED <<signal, rows, lost, backup, count>>
        /\ exit' \in {"none", "clean", "error"}
    BY <1>1, <1>15 DEF CloseDB, Kill
  <2>2. MediaInv' /\ Names' = Names /\ \A c \in Clients : put'[c].step = "none"
    BY <1>1, <2>1, DieKeeps
  <2>3. BackupStands' /\ RowsHaveBlobs'
    BY <1>1, <2>1, <2>2, BackupKept DEF RowsHaveBlobs
  <2> QED BY <1>1, <2>1, <2>2, <2>3, CutStep
<1>16. ASSUME Outage PROVE IInv'
  <2>1. /\ Cut /\ LosePower /\ exit' = "error" /\ lost' = lost \cup (Names \ entries')
        /\ backup' = IF backup.left = <<>> THEN backup ELSE NoBackup
        /\ UNCHANGED <<signal, rows>>
    BY <1>16 DEF Outage
  <2>2. count' \in [Counted -> Nat]
    BY <1>1, <1>16, TickCounts DEF Outage, Counted
  <2>3. /\ MediaInv' /\ Names' = entries' /\ Names' \subseteq Names
        /\ \A c \in Clients : put'[c].step = "none"
    BY <1>1, <2>1, LossKeeps
  <2>4. lost' \subseteq Keys
    BY <1>1, <2>1
  <2>5. RowsHaveBlobs'
    BY <1>1, <2>1, <2>3 DEF RowsHaveBlobs
  <2>6. BackupStands'
    <3>1. CASE backup.left = <<>>
      <4>1. backup' = backup /\ lost \subseteq lost'
        BY <2>1, <3>1
      <4>2. backup.left # <<"files">> /\ backup.left # <<"list", "files">>
        BY <3>1
      <4> QED BY <1>1, <4>1, <4>2 DEF BackupStands, BackupFits
    <3>2. CASE backup.left # <<>>
      <4>1. backup' = [left |-> <<>>, dump |-> {}, listed |-> {}, archive |-> {}]
        BY <2>1, <3>2 DEF NoBackup
      <4> QED BY <4>1 DEF BackupStands, BackupFits, Lefts
    <3> QED BY <3>1, <3>2
  <2> QED BY <2>1, <2>2, <2>3, <2>4, <2>5, <2>6, CutStep
<1>17. ASSUME Flusher PROVE IInv'
  <2>1. Persist /\ UNCHANGED serverVars
    BY <1>17 DEF Flusher
  <2>2. MediaInv' /\ Names' = Names /\ put' = put
    BY <1>1, <2>1, PersistKeeps
  <2>3. BackupStands' /\ QuietWhenDown'
    BY <1>1, <2>1, <2>2, BackupKept DEF serverVars, QuietWhenDown, At
  <2> QED BY <1>1, <2>1, <2>2, <2>3, AsideStep DEF serverVars
<1>18. ASSUME BeginBackup \/ DumpRows \/ ListFiles \/ ReadFiles \/ BreakBackup PROVE IInv'
  <2>1. UNCHANGED <<mediaVars, phase, signal, exit, req, rows, lost>>
    BY <1>18 DEF BeginBackup, DumpRows, ListFiles, ReadFiles, BreakBackup, BackupStep
  <2>2. MediaInv' /\ Names' = Names
    BY <1>3, <2>1
  <2>3. count' \in [Counted -> Nat]
    <3>1. BeginBackup => count' \in [Counted -> Nat]
      BY <1>1, TickCounts DEF BeginBackup, Counted
    <3>2. DumpRows \/ ListFiles \/ ReadFiles \/ BreakBackup => count' = count
      BY DEF DumpRows, ListFiles, ReadFiles, BreakBackup, BackupStep
    <3> QED BY <1>1, <1>18, <3>1, <3>2
  <2>4. BackupStands'
    <3>1. CASE BeginBackup
      <4>1. backup' = [left |-> <<"dump", "list", "files">>, dump |-> {}, listed |-> {}, archive |-> {}]
        BY <3>1 DEF BeginBackup, NoBackup, BackupOrder
      <4> QED BY <4>1 DEF BackupStands, BackupFits, Lefts
    <3>2. CASE DumpRows
      <4>1. backup.left = <<"dump", "list", "files">>
        BY <1>1, <3>2, HeadsTell DEF DumpRows, BackupStep, BackupStands
      <4>2. backup' = [backup EXCEPT !.left = <<"list", "files">>, !.dump = rows]
        BY <3>2, <4>1, TailsTell DEF DumpRows
      <4>3. backup'.left = <<"list", "files">> /\ backup'.dump = rows
            /\ backup'.listed = backup.listed /\ backup'.archive = backup.archive
            /\ backup' \in [left : Lefts, dump : SUBSET Keys,
                            listed : SUBSET Keys, archive : SUBSET Storable]
        BY <1>1, <4>2 DEF BackupStands, Lefts, TypeOK
      <4> QED BY <1>1, <2>1, <2>2, <4>3 DEF BackupStands, BackupFits, RowsHaveBlobs
    <3>3. CASE ListFiles
      <4>1. backup.left = <<"list", "files">>
        BY <1>1, <3>3, HeadsTell DEF ListFiles, BackupStep, BackupStands
      <4>2. backup' = [backup EXCEPT !.left = <<"files">>, !.listed = Names]
        BY <3>3, <4>1, TailsTell DEF ListFiles
      <4>3. backup'.left = <<"files">> /\ backup'.listed = Names
            /\ backup'.dump = backup.dump /\ backup'.archive = backup.archive
            /\ backup' \in [left : Lefts, dump : SUBSET Keys,
                            listed : SUBSET Keys, archive : SUBSET Storable]
        BY <1>1, <4>2 DEF BackupStands, Lefts
      <4> QED BY <1>1, <2>1, <2>2, <4>1, <4>3 DEF BackupStands, BackupFits
    <3>4. CASE ReadFiles
      <4>1. backup.left = <<"files">>
        BY <1>1, <3>4, HeadsTell DEF ReadFiles, BackupStep, BackupStands
      <4>2. PICK archive \in SUBSET Names :
              /\ backup.listed \subseteq archive
              /\ backup' = [backup EXCEPT !.left = <<>>, !.archive = archive]
        BY <3>4, <4>1, TailsTell DEF ReadFiles
      <4>3. archive \subseteq Storable
        BY <1>1 DEF Storable, MediaInv, Settled
      <4>4. backup'.left = <<>> /\ backup'.archive = archive /\ backup'.dump = backup.dump
            /\ backup'.listed = backup.listed
            /\ backup' \in [left : Lefts, dump : SUBSET Keys,
                            listed : SUBSET Keys, archive : SUBSET Storable]
        BY <1>1, <4>2, <4>3 DEF BackupStands, Lefts
      <4> QED BY <1>1, <2>1, <4>1, <4>2, <4>4 DEF BackupStands, BackupFits
    <3>5. CASE BreakBackup
      <4>1. backup' = [left |-> <<>>, dump |-> {}, listed |-> {}, archive |-> {}]
        BY <3>5 DEF BreakBackup, NoBackup
      <4> QED BY <4>1 DEF BackupStands, BackupFits, Lefts
    <3> QED BY <1>18, <3>1, <3>2, <3>3, <3>4, <3>5
  <2>5. QuietWhenDown'
    BY <1>1, <2>1 DEF QuietWhenDown, At
  <2> QED BY <1>1, <2>1, <2>2, <2>3, <2>4, <2>5, AsideStep DEF mediaVars
<1>19. ASSUME Restore PROVE IInv'
  <2>1. /\ phase = "down" /\ backup.left = <<>>
        /\ rows' = backup.dump /\ Unpack(backup.archive)
        /\ lost' = lost \ backup.archive
        /\ UNCHANGED <<phase, signal, exit, req, backup, count>>
    BY <1>19 DEF Restore
  <2>2. /\ backup.archive \in SUBSET Keys /\ backup.dump \subseteq Keys
        /\ \A k \in backup.archive : k \in Accepted /\ Size[k] <= MaxSize
    BY <1>1 DEF BackupStands, Storable
  <2>3. \A c \in Clients : At(c, "idle") /\ In(c, "none")
    BY <1>1, <2>1 DEF QuietWhenDown, RequestStands, At
  <2>4. MediaInv' /\ Names' = backup.archive /\ put' = put
    BY <1>1, <2>1, <2>2, <2>3, UnpackKeeps
  <2>5. RowsHaveBlobs'
    BY <1>1, <2>1, <2>4 DEF RowsHaveBlobs, BackupStands, BackupFits
  <2>6. BackupStands'
    <3>1. backup.left # <<"files">> /\ backup.left # <<"list", "files">>
      BY <2>1
    <3> QED BY <1>1, <2>1, <3>1 DEF BackupStands, BackupFits
  <2>7. QuietWhenDown'
    BY <1>1, <2>1 DEF QuietWhenDown, At
  <2>8. \A c \in Clients : RequestStands(c)'
    BY <1>1, <2>1, <2>3, <2>4 DEF RequestStands, At, In
  <2>9. TypeOK'
    <3>1. rows' \subseteq Keys /\ lost' \subseteq Keys
      BY <1>1, <2>1, <2>2
    <3> QED BY <1>1, <2>1, <2>4, <2>6, <3>1, TypesFollow
  <2> QED BY <2>4, <2>5, <2>6, <2>7, <2>8, <2>9 DEF IInv
<1>20. CASE Next
  BY <1>4, <1>5, <1>7, <1>8, <1>9, <1>10, <1>11, <1>12, <1>13, <1>14, <1>15, <1>16,
     <1>17, <1>18, <1>19, <1>20 DEF Next, Serves, Process, Backup
<1> QED BY <1>2, <1>20

(* The process is down, the store is empty, and nobody asks for anything.  *)
LEMMA Initial == Init => IInv
<1> SUFFICES ASSUME Init PROVE IInv
  OBVIOUS
<1>1. Names = {} /\ entries = {}
  BY DEF Init, MediaInit, Names
<1>2. /\ backup = [left |-> <<>>, dump |-> {}, listed |-> {}, archive |-> {}]
      /\ rows = {} /\ phase = "down" /\ exit = "none"
  BY DEF Init, NoBackup
<1>3. BackupStands /\ RowsHaveBlobs
  BY <1>2 DEF BackupStands, BackupFits, Lefts, RowsHaveBlobs
<1>4. QuietWhenDown
  BY <1>2 DEF Init, QuietWhenDown, At
<1>5. put \in [Clients -> [step : {"none"} \cup Running \cup Results, key : Keys \cup {NoKey}]]
  <2>1. Idle \in [step : {"none"} \cup Running \cup Results, key : Keys \cup {NoKey}]
    BY DEF Idle
  <2> QED BY <2>1 DEF Init, MediaInit
<1>6. MediaTypeOK
  BY <1>5 DEF Init, MediaInit, MediaTypeOK
<1>7. \A c \in Clients : RequestStands(c) /\ CallStands(c)
  BY DEF Init, MediaInit, RequestStands, CallStands, Idle, At, In, Running
<1>8. MediaInv
  BY <1>1, <1>6, <1>7 DEF MediaInv
<1>9. TypeOK
  <2>1. [step |-> "idle", key |-> NoKey] \in [step : Steps, key : Keys \cup {NoKey}]
    BY DEF Steps
  <2>2. req \in [Clients -> [step : Steps, key : Keys \cup {NoKey}]]
    BY <2>1 DEF Init
  <2>3. Len(backup.left) <= 3
    BY <1>3, LeftIsShort DEF BackupStands
  <2>4. backup.dump \subseteq Keys /\ backup.listed \subseteq Keys /\ backup.archive \subseteq Keys
    BY <1>2
  <2> QED BY <1>6, <2>2, <2>3, <2>4 DEF Init, TypeOK, Phases
<1> QED BY <1>3, <1>4, <1>7, <1>8, <1>9 DEF IInv

(* A clean exit is what a server reaches that has served everybody.        *)
LEMMA CleanStep ==
  ASSUME IInv, Next, phase # "down", phase' = "down", exit' = "clean"
  PROVE  \A c \in Clients : At(c, "idle")
<1>1. CloseDB
  BY DEF Next, Upload, ReceiveForm, BreakForm, Serves, StoreFile, TakeStored, BeginTx,
         CommitRow, ServeMedia, SendMedia, Start, Signal, ListenFails, Kill, Outage, Flusher,
         Process, OpenStores, Shutdown, AwaitHandlers, Backup, BeginBackup, DumpRows,
         ListFiles, ReadFiles, BreakBackup, Restore, BackupStep, serverVars
<1>2. exit = "clean"
  BY <1>1 DEF CloseDB
<1> QED BY <1>2 DEF IInv, QuietWhenDown

-----------------------------------------------------------------------------
(* The calls on the file system and the store of blobs they implement.     *)

(* What the store of blobs sees of the files and the calls.                *)
Shown == {k \in Names : Whole(k)}

Answered == [c \in Clients |-> IF In(c, "stored") THEN put[c].key ELSE NoKey]

(* A file under its key is whole, so that the store shows all of them.     *)
LEMMA AllShown ==
  /\ MediaInv => Shown = Names /\ NamedIsWhole
  /\ MediaInv' => Shown' = Names'
<1>1. ASSUME NEW k, Settled(k) PROVE Whole(k) /\ k \in Accepted /\ Size[k] <= MaxSize
  BY <1>1 DEF Settled, Whole
<1>2. ASSUME NEW k, Settled(k)' PROVE Whole(k)'
  BY <1>2 DEF Settled, Whole
<1>3. MediaInv => Shown = Names /\ NamedIsWhole
  BY <1>1 DEF MediaInv, Shown, NamedIsWhole
<1>4. MediaInv' => Shown' = Names'
  BY <1>2 DEF MediaInv, Shown
<1> QED BY <1>3, <1>4

(* A step that changes neither the names nor the answers is none at all.   *)
LEMMA Stutters ==
  ASSUME MediaInv, MediaInv', Names' = Names, entries' = entries, Answered' = Answered
  PROVE  UNCHANGED Blobs!vars
<1>1. Shown' = Shown
  BY AllShown
<1> QED BY <1>1 DEF Blobs!vars, Shown, Answered

(* An answer is nothing unless a call has stored its file.                 *)
LEMMA AnswerOf ==
  ASSUME NEW c \in Clients,
         \A d \in Clients \ {c} : put'[d] = put[d]
  PROVE  /\ ~In(c, "stored") => Answered[c] = NoKey
         /\ In(c, "stored")' => Answered' = [Answered EXCEPT ![c] = put'[c].key]
         /\ ~In(c, "stored")' => Answered' = [Answered EXCEPT ![c] = NoKey]
BY DEF Answered, In

(* A call that ends with its file stored stores it; before that the store  *)
(* of blobs sees nothing of it.                                            *)
LEMMA PutMaps ==
  ASSUME MediaInv, MediaInv', NEW c \in Clients, PutStep(c)
  PROVE  [Blobs!Next]_Blobs!vars
<1>1. /\ ~In(c, "none") /\ put'[c].key = put[c].key
      /\ \A d \in Clients \ {c} : put'[d] = put[d]
  BY PutKeeps
<1>2. ~In(c, "stored") /\ CallStands(c) /\ CallStands(c)' /\ put[c].key \in Keys
  BY <1>1 DEF MediaInv, CallStands, PutStep, Copy, EndCopy, Flush, Publish, FailPut, In, Running
<1>3. Answered[c] = NoKey
  BY <1>1, <1>2, AnswerOf
<1>4. entries' = entries
  BY DEF PutStep, Copy, EndCopy, Flush, Publish, FailPut
<1>5. CASE ~In(c, "stored")'
  <2>1. Names' = Names
    BY <1>5 DEF PutStep, Copy, EndCopy, Flush, Publish, FailPut, Names, Move, In,
                MediaInv, MediaTypeOK
  <2>2. Answered' = Answered
    BY <1>1, <1>3, <1>5, AnswerOf DEF Answered
  <2> QED BY <1>4, <2>1, <2>2, Stutters
<1>6. CASE In(c, "stored")'
  <2> DEFINE k == put[c].key
  <2>1. Names' = Names \cup {k}
    <3>1. k \in Names'
      BY <1>1, <1>2, <1>6 DEF CallStands
    <3>2. named' = named \/ named' = [named EXCEPT ![k] = temps[c]]
      BY DEF PutStep, Copy, EndCopy, Flush, Publish, FailPut
    <3>3. named \in [Keys -> File \cup {NoFile}]
      BY DEF MediaInv, MediaTypeOK
    <3>4. \A j \in Keys \ {k} : named'[j] = named[j]
      BY <3>2, <3>3
    <3>5. Names \subseteq Names'
      BY PutKeeps
    <3> QED BY <3>1, <3>4, <3>5 DEF Names
  <2>2. Shown' = Shown \cup {k}
    BY <2>1, AllShown
  <2>3. Answered' = [Answered EXCEPT ![c] = k]
    BY <1>1, <1>6, AnswerOf
  <2>4. Blobs!Store
    BY <1>2, <1>3, <1>4, <2>2, <2>3 DEF Blobs!Store, Shown, Answered
  <2> QED BY <2>4 DEF Blobs!Next
<1> QED BY <1>5, <1>6

(* Every step of the server is one of the store of blobs, or none.         *)
LEMMA StepMaps ==
  ASSUME IInv, IInv', [Next]_vars
  PROVE  [Blobs!Next]_Blobs!vars
<1>1. MediaInv /\ MediaInv' /\ Shown = Names /\ Shown' = Names'
  BY AllShown DEF IInv
<1>2. ASSUME UNCHANGED mediaVars PROVE UNCHANGED Blobs!vars
  <2>1. Names' = Names /\ entries' = entries /\ Answered' = Answered
    BY <1>2 DEF mediaVars, Names, Answered, In
  <2> QED BY <1>1, <2>1, Stutters
<1>3. ASSUME NEW c \in Clients, ReceiveForm(c) PROVE UNCHANGED Blobs!vars
  <2>1. req[c].key \in Keys /\ OpenPut(c, req[c].key)
    BY <1>3 DEF ReceiveForm, IInv, RequestStands
  <2>2. Names' = Names /\ \A d \in Clients \ {c} : put'[d] = put[d]
    BY <1>1, <2>1, OpenKeeps
  <2>3. entries' = entries
    BY <2>1 DEF OpenPut
  <2>4. ~In(c, "stored") /\ ~In(c, "stored")'
    BY <1>1, <2>1 DEF OpenPut, In, MediaInv, MediaTypeOK
  <2>5. Answered' = Answered
    BY <2>2, <2>4 DEF Answered, In
  <2> QED BY <1>1, <2>2, <2>3, <2>5, Stutters
<1>4. ASSUME NEW c \in Clients, TakeStored(c) PROVE Blobs!Take
  <2>1. Take(c)
    BY <1>4 DEF TakeStored
  <2>2. Names' = Names /\ put'[c].step = "none" /\ \A d \in Clients \ {c} : put'[d] = put[d]
    BY <1>1, <2>1, TakeKeeps
  <2>3. Answered' = [Answered EXCEPT ![c] = NoKey]
    BY <2>2, AnswerOf DEF In
  <2>4. entries' = entries
    BY <2>1 DEF Take
  <2> QED BY <1>1, <2>2, <2>3, <2>4 DEF Blobs!Take, Shown, Answered
<1>5. ASSUME Flusher PROVE Blobs!Keep
  <2>1. Persist
    BY <1>5 DEF Flusher
  <2>2. Names' = Names /\ put' = put
    BY <1>1, <2>1, PersistKeeps
  <2>3. Answered' = Answered
    BY <2>2 DEF Answered, In
  <2>4. \E k \in Shown : entries' = entries \cup {k}
    BY <1>1, <2>1 DEF Persist
  <2> QED BY <1>1, <2>2, <2>3, <2>4 DEF Blobs!Keep, Shown, Answered
<1>6. ASSUME \A c \in Clients : put'[c].step = "none"
      PROVE  Answered' = [c \in Clients |-> NoKey]
  BY <1>6 DEF Answered, In
<1>7. ASSUME CloseDB \/ Kill PROVE Blobs!Stop
  <2>1. Die
    BY <1>7 DEF CloseDB, Kill
  <2>2. Names' = Names /\ Answered' = [c \in Clients |-> NoKey]
    BY <1>1, <1>6, <2>1, DieKeeps
  <2>3. entries' = entries
    BY <2>1 DEF Die
  <2> QED BY <1>1, <2>2, <2>3 DEF Blobs!Stop, Shown, Answered
<1>8. ASSUME Outage PROVE Blobs!PowerLoss
  <2>1. LosePower
    BY <1>8 DEF Outage
  <2>2. /\ Names' = entries' /\ entries \subseteq Names' /\ Names' \subseteq Names
        /\ Answered' = [c \in Clients |-> NoKey]
    BY <1>1, <1>6, <2>1, LossKeeps
  <2> QED BY <1>1, <2>2 DEF Blobs!PowerLoss, Shown, Answered
<1>9. ASSUME Restore PROVE Blobs!Replace
  <2>1. Unpack(backup.archive)
    BY <1>9 DEF Restore
  <2>2. put' = put /\ entries' = backup.archive
    BY <2>1 DEF Unpack
  <2>3. backup.archive \subseteq Storable
    BY DEF IInv, BackupStands
  <2>4. \A k \in backup.archive : named'[k] = [bytes |-> Size[k], synced |-> Size[k]]
    BY <2>1, <2>3 DEF Unpack, Storable
  <2>5. \A k \in Keys \ backup.archive : named'[k] = NoFile
    BY <2>1 DEF Unpack
  <2>6. Names' = backup.archive
    <3>1. \A k \in backup.archive : named'[k] \in File /\ k \in Keys
      <4> TAKE k \in backup.archive
      <4>1. k \in Keys /\ Size[k] \in Nat
        BY <2>3, MediaAssumption DEF Storable
      <4>2. [bytes |-> Size[k], synced |-> Size[k]] \in File
        BY <4>1 DEF File
      <4> QED BY <2>4, <4>1, <4>2
    <3> QED BY <2>5, <3>1, NoFileIsNone DEF Names
  <2>7. Answered' = Answered
    BY <2>2 DEF Answered, In
  <2>8. backup.archive \subseteq Keys
    BY <2>3 DEF Storable
  <2> QED BY <1>1, <2>2, <2>6, <2>7, <2>8 DEF Blobs!Replace, Shown, Answered
<1>10. ASSUME NEW c \in Clients, StoreFile(c) PROVE [Blobs!Next]_Blobs!vars
  BY <1>1, <1>10, PutMaps DEF StoreFile
<1>11. ASSUME Next PROVE \/ UNCHANGED mediaVars
                         \/ \E c \in Clients : ReceiveForm(c) \/ TakeStored(c) \/ StoreFile(c)
                         \/ Flusher \/ CloseDB \/ Kill \/ Outage \/ Restore
  BY <1>11 DEF Next, Upload, BreakForm, Serves, BeginTx, CommitRow, ServeMedia, SendMedia,
         Start, Signal, ListenFails, Process, OpenStores, Shutdown, AwaitHandlers,
         Backup, BeginBackup, DumpRows, ListFiles, ReadFiles, BreakBackup, BackupStep, mediaVars
<1>12. UNCHANGED vars => UNCHANGED mediaVars
  BY DEF vars, mediaVars
<1> QED BY <1>2, <1>3, <1>4, <1>5, <1>7, <1>8, <1>9, <1>10, <1>11, <1>12 DEF Blobs!Next

(* A store that was just created is an empty store of blobs.               *)
LEMMA InitMaps == Init => Blobs!Init
<1> SUFFICES ASSUME Init PROVE Blobs!Init
  OBVIOUS
<1>1. Names = {} /\ entries = {}
  BY DEF Init, MediaInit, Names
<1>2. Answered = [c \in Clients |-> NoKey]
  BY DEF Init, MediaInit, Answered, Idle, In
<1> QED BY <1>1, <1>2 DEF Blobs!Init, Answered

-----------------------------------------------------------------------------
(* The theorems.                                                           *)

(* The invariant holds of every behaviour of the server.                   *)
THEOREM Invariance == Spec => []IInv
<1>1. IInv /\ [Next]_vars => IInv'
  BY Inductive
<1> QED BY <1>1, Initial, PTL DEF Spec

(* A name of the store is a whole file of an accepted type and size, and   *)
(* what is served under it is whole, however many uploads of one file run  *)
(* at a time and wherever a call, the process or the power is cut          *)
(* (local.Put, internal/platform/media/local.go).                          *)
THEOREM FilesStay == Spec => []FilesStand
<1>1. IInv => FilesStand
  <2> SUFFICES ASSUME IInv PROVE FilesStand
    OBVIOUS
  <2>1. NamedIsWhole
    BY AllShown DEF IInv
  <2>2. TempsRemoved
    BY DEF IInv, MediaInv, CallStands, TempsRemoved
  <2>3. ServedWhole
    BY <2>1 DEF IInv, RequestStands, ServedWhole, NamedIsWhole, At
  <2> QED BY <2>1, <2>2, <2>3 DEF IInv, FilesStand
<1> QED BY <1>1, Invariance, PTL

(* A committed photo names a file that is there, but for the names a power *)
(* loss took (addOnePhoto, internal/http/models/models.go).                *)
THEOREM PhotosHaveFiles == Spec => []RowsHaveBlobs
<1>1. IInv => RowsHaveBlobs
  BY DEF IInv
<1> QED BY <1>1, Invariance, PTL

(* The dump of a night names photos its archive holds, because the dump is *)
(* taken first (deploy/backup.sh).                                         *)
THEOREM BackupsFit == Spec => []BackupFits
<1>1. IInv => BackupFits
  BY DEF IInv, BackupStands
<1> QED BY <1>1, Invariance, PTL

(* An exit without an error cut nobody off (runServe, cmd/pilam/serve.go). *)
THEOREM CleanStop == Spec => CleanCutsNobody
<1>1. IInv /\ [Next]_vars
        => [phase # "down" /\ phase' = "down" /\ exit' = "clean"
              => \A c \in Clients : At(c, "idle")]_vars
  BY CleanStep
<1> QED BY <1>1, Invariance, PTL DEF Spec, CleanCutsNobody

(* Put, call by call, with every way it is cut short, is a store that      *)
(* answers a key once its file is whole and loses it only to a power loss  *)
(* or a restore (the comments of media.Store, internal/platform/media).    *)
THEOREM ImplementsBlobStore == Spec => StoresBlobs
<1>1. IInv /\ IInv' /\ [Next]_vars => [Blobs!Next]_Blobs!vars
  BY StepMaps
<1> QED BY <1>1, Invariance, InitMaps, PTL DEF Spec, StoresBlobs, Blobs!Spec

-----------------------------------------------------------------------------
(* What a process is started with.                                         *)

(* A variable that is refused, of the text it is set to.                   *)
Bad(key, v) ==
  IF key = "secret" THEN v # Blank /\ ~Boot!LongEnough(v)
  ELSE ~Boot!Accepts(key, IF v = Blank THEN Boot!Default[key] ELSE v)

(* What is refused of one variable never depends on another.               *)
LEMMA RefusedAlone ==
  ASSUME NEW env
  PROVE  /\ \A key \in Boot!Variables : key \in Boot!Refused(env) <=> Bad(key, env[key])
         /\ Boot!Refused(env) \subseteq Boot!Variables
BY DEF Boot!Refused, Boot!Raw, Bad

(* The defaults go through the parsers, and a key that is blank is drawn.  *)
LEMMA BlankIsGood ==
  ASSUME NEW key \in Boot!Variables
  PROVE  ~Bad(key, Blank)
<1>1. CASE key = "secret"
  BY <1>1 DEF Bad
<1>2. ASSUME key # "secret" PROVE Boot!Accepts(key, Boot!Default[key])
  <2>1. \/ key = "addr" \/ key = "grace" \/ key = "url" \/ key = "dir" \/ key = "ttl"
        \/ key = "level" \/ key = "format" \/ key = "zone"
    BY <1>2 DEF Boot!Variables
  <2>2. key \in DOMAIN Boot!Default
    BY <2>1 DEF Boot!Default
  <2>3. Boot!Default[key] # Unread
    BY <2>2, StartAssumption
  <2>4. CASE key = "addr" \/ key = "dir" \/ key = "level"
    BY <2>3, <2>4 DEF Boot!Accepts
  <2>5. CASE key = "grace"
    <3>1. Boot!Default[key] = 10
      BY <2>5 DEF Boot!Default
    <3> QED BY <2>3, <2>5, <3>1 DEF Boot!Accepts, Boot!Positive
  <2>6. CASE key = "ttl"
    <3>1. Boot!Default[key] = 168
      BY <2>6 DEF Boot!Default
    <3> QED BY <2>3, <2>6, <3>1 DEF Boot!Accepts, Boot!Positive
  <2>7. CASE key = "url"
    <3>1. Boot!Default[key] = [scheme |-> "postgres", host |-> "localhost", path |-> "pilam"]
      BY <2>7 DEF Boot!Default, Boot!URL
    <3>2. Boot!Connectable(Boot!Default[key])
      BY <2>3, <3>1, StartAssumption DEF Boot!Connectable
    <3> QED BY <2>7, <3>2 DEF Boot!Accepts
  <2>8. CASE key = "format"
    <3>1. Boot!Default[key] = "text"
      BY <2>8 DEF Boot!Default
    <3>2. Boot!KnownFormat("text")
      BY DEF Boot!KnownFormat, Boot!Lowered
    <3> QED BY <2>8, <3>1, <3>2 DEF Boot!Accepts
  <2>9. CASE key = "zone"
    <3>1. Boot!Default[key] = "Europe/Moscow"
      BY <2>9 DEF Boot!Default
    <3>2. Boot!Explicit(Boot!Default[key])
      BY <2>3, <3>1 DEF Boot!Explicit
    <3> QED BY <2>9, <3>2 DEF Boot!Accepts
  <2> QED BY <2>1, <2>4, <2>5, <2>6, <2>7, <2>8, <2>9
<1> QED BY <1>1, <1>2 DEF Bad

(* A configuration, or the error.                                          *)
LEMMA LoadsOrNot ==
  ASSUME NEW env, NEW drawn, NEW cwd
  PROVE  /\ Boot!Load(env, drawn, cwd).ok <=> Boot!Refused(env) = {}
         /\ Boot!Refused(env) # {} => Boot!Load(env, drawn, cwd).refused = Boot!Refused(env)
BY DEF Boot!Load

(* What a configuration holds.                                             *)
LEMMA LoadedAs ==
  ASSUME NEW env, NEW drawn, NEW cwd, Boot!Refused(env) = {}
  PROVE  /\ Boot!Load(env, drawn, cwd).config["secret"] = Boot!Secret(env, drawn)
         /\ \A key \in Boot!Variables \ {"secret"} :
              Boot!Load(env, drawn, cwd).config[key] = Boot!Parsed(key, Boot!Raw(env, key), cwd)
         /\ Boot!Load(env, drawn, cwd).generated <=> env["secret"] = Blank
<1>1. "secret" \in Boot!Variables
  BY DEF Boot!Variables
<1> QED BY <1>1 DEF Boot!Load

(* What the parsers leave of what they take.                               *)
LEMMA ParsedAs ==
  ASSUME NEW env, NEW drawn, Boot!Refused(env) = {}
  PROVE  LET config == Boot!Load(env, drawn, "/srv").config
         IN  /\ config["grace"] > 0 /\ config["ttl"] > 0
             /\ config["secret"].length >= MinSecret
             /\ config["dir"].absolute /\ config["zone"] # "Local"
             /\ Boot!LoggerBuilt(config["format"])
<1> DEFINE config == Boot!Load(env, drawn, "/srv").config
           raw(key) == Boot!Raw(env, key)
<1>1. /\ config["secret"] = Boot!Secret(env, drawn)
      /\ \A key \in Boot!Variables \ {"secret"} : config[key] = Boot!Parsed(key, raw(key), "/srv")
  BY LoadedAs
<1> HIDE DEF config
<1>2. \A key \in Boot!Variables : ~Bad(key, env[key])
  BY RefusedAlone
<1>3. \A key \in Boot!Variables \ {"secret"} : Boot!Accepts(key, raw(key))
  BY <1>2 DEF Bad, Boot!Raw
<1> HIDE DEF raw
<1>4. ASSUME NEW key \in {"grace", "ttl"} PROVE config[key] > 0
  <2>1. key \in Boot!Variables \ {"secret"}
    BY DEF Boot!Variables
  <2>2. Boot!Positive(raw(key))
    BY <1>3, <2>1 DEF Boot!Accepts
  <2>3. config[key] = raw(key)
    BY <1>1, <2>1 DEF Boot!Parsed
  <2> QED BY <2>2, <2>3 DEF Boot!Positive
<1>5. config["secret"].length >= MinSecret
  <2>1. CASE env["secret"] = Blank
    <3>1. config["secret"].length = MinSecret
      BY <1>1, <2>1 DEF Boot!Secret
    <3> QED BY <3>1, StartAssumption
  <2>2. CASE env["secret"] # Blank
    <3>1. ~Bad("secret", env["secret"])
      BY <1>2 DEF Boot!Variables
    <3>2. Boot!LongEnough(env["secret"])
      BY <2>2, <3>1 DEF Bad
    <3>3. config["secret"] = env["secret"]
      BY <1>1, <2>2 DEF Boot!Secret
    <3> QED BY <3>2, <3>3 DEF Boot!LongEnough
  <2> QED BY <2>1, <2>2
<1>6. config["dir"].absolute
  <2>1. config["dir"] = Boot!Resolved(raw("dir"), "/srv")
    BY <1>1 DEF Boot!Variables, Boot!Parsed
  <2>2. CASE raw("dir").absolute
    <3>1. config["dir"] = raw("dir")
      BY <2>1, <2>2 DEF Boot!Resolved
    <3> QED BY <2>2, <3>1
  <2>3. CASE ~raw("dir").absolute
    <3>1. config["dir"] = [absolute |-> TRUE, path |-> <<"/srv", raw("dir").path>>]
      BY <2>1, <2>3 DEF Boot!Resolved
    <3> QED BY <3>1
  <2> QED BY <2>2, <2>3
<1>7. config["zone"] # "Local"
  <2>1. Boot!Explicit(raw("zone"))
    BY <1>3 DEF Boot!Variables, Boot!Accepts
  <2>2. config["zone"] = raw("zone")
    BY <1>1 DEF Boot!Variables, Boot!Parsed
  <2> QED BY <2>1, <2>2 DEF Boot!Explicit
<1>8. Boot!LoggerBuilt(config["format"])
  <2>1. Boot!KnownFormat(raw("format"))
    BY <1>3 DEF Boot!Variables, Boot!Accepts
  <2>2. config["format"] = Boot!Lowered(raw("format"))
    BY <1>1 DEF Boot!Variables, Boot!Parsed
  <2> QED BY <2>1, <2>2 DEF Boot!KnownFormat, Boot!LoggerBuilt
<1> QED BY <1>4, <1>5, <1>6, <1>7, <1>8 DEF config

(* Whatever the environment: what is refused is every variable that has to *)
(* change, and those only.                                                 *)
LEMMA AlwaysToldOfAll ==
  ASSUME NEW env
  PROVE  Boot!ToldOfAll(env)
<1> DEFINE load(e) == Boot!Load(e, "drawn", "/srv")
<1>1. load(env).ok <=> Boot!Refused(env) = {}
  BY LoadsOrNot
<1>2. ASSUME Boot!Refused(env) = {}
      PROVE  /\ load(env).config["grace"] > 0 /\ load(env).config["ttl"] > 0
             /\ load(env).config["secret"].length >= MinSecret
             /\ load(env).config["dir"].absolute /\ load(env).config["zone"] # "Local"
  BY <1>2, ParsedAs
<1>3. ASSUME Boot!Refused(env) # {}, NEW key \in Boot!Variables
      PROVE  key \in load(env).refused <=>
               ~load([other \in Boot!Variables |-> IF other = key THEN env[key] ELSE Blank]).ok
  <2>1. PICK one : one = [other \in Boot!Variables |-> IF other = key THEN env[key] ELSE Blank]
    OBVIOUS
  <2>2. one[key] = env[key] /\ \A other \in Boot!Variables : other # key => one[other] = Blank
    BY <2>1
  <2>3. key \in Boot!Refused(one) <=> key \in Boot!Refused(env)
    BY <2>2, RefusedAlone
  <2>4. \A other \in Boot!Variables : other # key => other \notin Boot!Refused(one)
    BY <2>2, RefusedAlone, BlankIsGood
  <2>5. key \in Boot!Refused(env) <=> Boot!Refused(one) # {}
    BY <2>3, <2>4, RefusedAlone
  <2>6. load(one).ok <=> Boot!Refused(one) = {}
    BY LoadsOrNot
  <2>7. load(env).refused = Boot!Refused(env)
    BY <1>3, LoadsOrNot
  <2> HIDE DEF load
  <2> QED BY <2>1, <2>5, <2>6, <2>7
<1>4. ASSUME Boot!Refused(env) # {}
      PROVE  load([key \in Boot!Variables |-> IF key \in load(env).refused THEN Blank ELSE env[key]]).ok
  <2>1. load(env).refused = Boot!Refused(env)
    BY <1>4, LoadsOrNot
  <2>2. PICK mended :
          mended = [key \in Boot!Variables |-> IF key \in load(env).refused THEN Blank ELSE env[key]]
    OBVIOUS
  <2>3. load(mended).ok <=> Boot!Refused(mended) = {}
    BY LoadsOrNot
  <2> HIDE DEF load
  <2>4. \A key \in Boot!Variables : mended[key] = IF key \in Boot!Refused(env) THEN Blank ELSE env[key]
    BY <2>1, <2>2
  <2>5. \A key \in Boot!Variables : ~Bad(key, mended[key])
    BY <2>4, RefusedAlone, BlankIsGood
  <2>6. Boot!Refused(mended) = {}
    BY <2>5, RefusedAlone
  <2> QED BY <2>2, <2>3, <2>6
<1> HIDE DEF load
<1> QED BY <1>1, <1>2, <1>3, <1>4, Zenon DEF Boot!ToldOfAll, load

(* Whatever the environment: a session lasts through a restart where the   *)
(* key was set, and a command runs with what was loaded.                   *)
LEMMA AlwaysRestarts ==
  ASSUME NEW env
  PROVE  Boot!Restarts(env)
<1> DEFINE first  == Boot!Load(env, "drawn", "/srv")
           second == Boot!Load(env, "drawn again", "/srv")
<1>1. first.ok <=> Boot!Refused(env) = {}
  BY LoadsOrNot
<1>2. ASSUME Boot!Refused(env) = {}
      PROVE  first.generated <=> first.config["secret"] # second.config["secret"]
  <2>1. first.config["secret"] = Boot!Secret(env, "drawn")
        /\ second.config["secret"] = Boot!Secret(env, "drawn again")
    <3>1. ASSUME NEW drawn PROVE Boot!Load(env, drawn, "/srv").config["secret"] = Boot!Secret(env, drawn)
      BY <1>2, LoadedAs
    <3> QED BY <3>1, Zenon
  <2>2. first.generated <=> env["secret"] = Blank
    <3>1. PICK drawn, cwd, loaded : drawn = "drawn" /\ cwd = "/srv" /\ loaded = Boot!Load(env, drawn, cwd)
      OBVIOUS
    <3>2. loaded.generated <=> env["secret"] = Blank
      BY <1>2, <3>1, LoadedAs, Zenon
    <3>3. loaded = first
      BY <3>1
    <3> HIDE DEF first
    <3> QED BY <3>2, <3>3, Zenon
  <2> HIDE DEF first, second
  <2>3. Boot!Secret(env, "drawn") # Boot!Secret(env, "drawn again") <=> env["secret"] = Blank
    <3>1. [length |-> MinSecret, bytes |-> "drawn"] # [length |-> MinSecret, bytes |-> "drawn again"]
      OBVIOUS
    <3> QED BY <3>1 DEF Boot!Secret
  <2> QED BY <2>1, <2>2, <2>3
<1>3. ASSUME NEW command \in Boot!Commands
      PROVE  LET done == Boot!Run(<<command>>, env, "drawn", "/srv")
             IN  /\ done.runs = IF first.ok THEN {command} ELSE {}
                 /\ done.warned <=> first.ok /\ env["secret"] = Blank
  <2>1. PICK args : args = <<command>>
    OBVIOUS
  <2>2. ~(args = <<>> \/ args[1] \notin Boot!Commands) /\ args[1] = command
    BY <2>1
  <2>3. CASE Boot!Refused(env) = {}
    <3>1. first.ok /\ Boot!LoggerBuilt(first.config["format"])
      BY <1>1, <2>3, ParsedAs
    <3>2. Boot!Run(args, env, "drawn", "/srv") = [runs |-> {command}, warned |-> first.generated]
      BY <2>2, <3>1, Zenon DEF Boot!Run
    <3>3. first.generated <=> env["secret"] = Blank
      BY <2>3, LoadedAs
    <3> HIDE DEF first
    <3> QED BY <2>1, <3>1, <3>2, <3>3
  <2>4. CASE Boot!Refused(env) # {}
    <3>1. ~first.ok
      BY <1>1, <2>4
    <3>2. Boot!Run(args, env, "drawn", "/srv") = [runs |-> {}, warned |-> FALSE]
      BY <2>2, <3>1, Zenon DEF Boot!Run
    <3> HIDE DEF first
    <3> QED BY <2>1, <3>1, <3>2
  <2> QED BY <2>3, <2>4
<1> HIDE DEF first, second
<1> QED BY <1>1, <1>2, <1>3, Zenon DEF Boot!Restarts, first, second

(* A key that is set is one of those it may be set to.                     *)
LEMMA KeyFromSettings ==
  ASSUME NEW env \in Boot!Environments(Settings)
  PROVE  env["secret"] \in Settings["secret"] \cup {Blank}
<1> DEFINE Set(a, v, b, w) ==
             [key \in Boot!Variables |-> IF key = a THEN v ELSE IF key = b THEN w ELSE Blank]
<1>0. PICK a \in Boot!Variables, b \in Boot!Variables :
        env \in {Set(a, v, b, w) : v \in Settings[a], w \in Settings[b]}
  BY DEF Boot!Environments
<1>1. PICK v \in Settings[a], w \in Settings[b] : env = Set(a, v, b, w)
  BY <1>0
<1>2. PICK name : name = "secret"
  OBVIOUS
<1>3. name \in Boot!Variables
  BY <1>2 DEF Boot!Variables
<1>4. env[name] = IF name = a THEN v ELSE IF name = b THEN w ELSE Blank
  BY <1>1, <1>3
<1> QED BY <1>2, <1>4

(* Nothing that was loaded makes session.New panic.                        *)
LEMMA SessionsAlwaysBuilt ==
  ASSUME NEW env \in Boot!Environments(Settings)
  PROVE  SessionsBuilt(env)
<1> DEFINE loaded == Boot!Load(env, "drawn", "/srv")
<1> SUFFICES ASSUME Boot!Refused(env) = {}
             PROVE  Cookie!Constructed(Bytes(loaded.config["secret"]), loaded.config["ttl"])
  BY LoadsOrNot DEF SessionsBuilt
<1>1. PICK secret, ttl : secret = loaded.config["secret"] /\ ttl = loaded.config["ttl"]
  OBVIOUS
<1>2. secret.length >= MinSecret /\ ttl > 0
  BY <1>1, ParsedAs
<1>3. Bytes(secret) # <<>>
  <2>0. secret.length \in Nat
    <3>1. secret = Boot!Secret(env, "drawn")
      BY <1>1, LoadedAs
    <3>2. CASE env["secret"] = Blank
      BY <3>1, <3>2, StartAssumption DEF Boot!Secret
    <3>3. CASE env["secret"] # Blank
      <4>1. env["secret"] \in Settings["secret"] \cup {Blank}
        BY KeyFromSettings
      <4> QED BY <3>1, <3>3, <4>1, StartAssumption DEF Boot!Secret
    <3> QED BY <3>2, <3>3
  <2>1. 1 \in 1..secret.length
    BY <1>2, <2>0, StartAssumption
  <2>2. DOMAIN Bytes(secret) = 1..secret.length /\ DOMAIN <<>> = {}
    BY DEF Bytes
  <2> QED BY <2>1, <2>2
<1> QED BY <1>1, <1>2, <1>3, Zenon DEF Cookie!Constructed

(* migrate, from any version of the schema.                                *)
LEMMA SchemaAlwaysHolds == Boot!SchemaHolds
<1>0. \A v \in 0..Latest : \A up \in Boot!MigrateUp(v) :
        up.version \in v..Latest /\ (up.ok => up.version = Latest)
  BY StartAssumption DEF Boot!MigrateUp
<1>1. \A v \in 0..Latest : \A down \in Boot!MigrateDown(v) :
        down.version \in {v, v - 1} /\ down.version \in 0..Latest
  BY StartAssumption DEF Boot!MigrateDown
<1>2. \A v : /\ Boot!Migrate(<<>>, v) = Boot!MigrateUp(v)
            /\ Boot!Migrate(<<"up">>, v) = Boot!MigrateUp(v)
            /\ Boot!Migrate(<<"down">>, v) = Boot!MigrateDown(v)
  BY DEF Boot!Migrate
<1>3. \A v : \A action \in {"status", "version", "sideways"} :
        \A done \in Boot!Migrate(<<action>>, v) : done.version = v
  BY DEF Boot!Migrate
<1>4. \A v : \A done \in Boot!Migrate(<<"sideways">>, v) : ~done.ok
  BY DEF Boot!Migrate
<1> SUFFICES ASSUME NEW version \in 0..Latest
             PROVE  /\ \A args \in {<< >>, <<"up">>, <<"down">>} :
                         \A done \in Boot!Migrate(args, version) :
                           \A up \in Boot!Migrate(<< >>, done.version) :
                              /\ up.version \in done.version..Latest
                              /\ up.ok => up.version = Latest
                    /\ \A down \in Boot!Migrate(<<"down">>, version) :
                         down.version \in {version, version - 1} /\ down.version >= 0
  BY <1>3, <1>4 DEF Boot!SchemaHolds
<1>5. \A args \in {<< >>, <<"up">>, <<"down">>} :
        \A done \in Boot!Migrate(args, version) : done.version \in 0..Latest
  BY <1>0, <1>1, <1>2
<1> QED BY <1>0, <1>1, <1>2, <1>5

(* In every state: a process that starts was told enough, one that does    *)
(* not is told everything that is wrong, and migrate brings the schema up  *)
(* from wherever it is (config.go, main.go, migrate.go).                   *)
THEOREM BootAlwaysHolds == Spec => []BootHolds
<1>1. Boot!LoadsWhole(Settings)
  <2>1. Boot!Load([key \in Boot!Variables |-> Blank], "drawn", "/srv").ok
    <3>1. PICK blank : blank = [key \in Boot!Variables |-> Blank]
      OBVIOUS
    <3>2. \A key \in Boot!Variables : ~Bad(key, blank[key])
      BY <3>1, BlankIsGood
    <3>3. Boot!Refused(blank) = {}
      BY <3>2, RefusedAlone
    <3> QED BY <3>1, <3>3, LoadsOrNot
  <2> QED BY <2>1, AlwaysToldOfAll, AlwaysRestarts, Zenon DEF Boot!LoadsWhole
<1>2. BootHolds
  BY <1>1, SessionsAlwaysBuilt, SchemaAlwaysHolds, Zenon DEF BootHolds
<1> QED BY <1>2, PTL

-----------------------------------------------------------------------------
(* pilam seed: the plan.                                                   *)

(* A model is a design and a color of it.                                  *)
LEMMA SketchIs ==
  /\ \A m \in Sketches : /\ m = <<m[1], m[2]>> /\ m[1] \in DOMAIN Colors /\ m[2] \in Nat
                         /\ m[1] = <<m[1][1], m[1][2]>> /\ m[1][1] \in Nat /\ m[1][2] \in Nat
                         /\ m[2] < Colors[m[1]]
  /\ \A g \in DOMAIN Colors : \A n \in Nat : n < Colors[g] => <<g, n>> \in Sketches
<1>1. \A g \in DOMAIN Colors : Colors[g] \in Nat /\ g \in Nat \X Nat
  BY PlanAssumption
<1>2. ASSUME NEW m \in Sketches
      PROVE  /\ m = <<m[1], m[2]>> /\ m[1] \in DOMAIN Colors /\ m[2] \in Nat
             /\ m[1] = <<m[1][1], m[1][2]>> /\ m[1][1] \in Nat /\ m[1][2] \in Nat
             /\ m[2] < Colors[m[1]]
  <2>1. PICK g \in DOMAIN Colors : m \in {g} \X (0..(Colors[g] - 1))
    BY DEF Sketches
  <2> QED BY <1>1, <2>1
<1>3. ASSUME NEW g \in DOMAIN Colors, NEW n \in Nat, n < Colors[g]
      PROVE  <<g, n>> \in Sketches
  <2>1. <<g, n>> \in {g} \X (0..(Colors[g] - 1))
    BY <1>1, <1>3
  <2> QED BY <2>1 DEF Sketches
<1> QED BY <1>2, <1>3

(* A row of a plan follows no other, or follows one that does not.         *)
Follows(f, r) ==
  /\ f \in FollowUps(r) /\ After(f) = r /\ f # r /\ FollowUps(f) = {}
  /\ f[1] \in {"left", "photo", "moved", "fact"}

(* The head of a plan follows no row but itself.                           *)
LEMMA HeadsFollowNone ==
  ASSUME NEW o, NEW r \in Heads(o)
  PROVE  After(r) = r /\ r[1] \notin {"left", "photo", "moved", "fact"}
<1>1. CASE r \in People(o)
  BY <1>1 DEF People, After
<1>2. CASE r \in Season(o)
  BY <1>2 DEF Season, After
<1>3. CASE r \in Template
  BY <1>3 DEF Template, After
<1>4. CASE r \in {<<"milestone", m>> : m \in Sketches}
  BY <1>4 DEF After
<1> QED BY <1>1, <1>2, <1>3, <1>4 DEF Heads

(* A step is among the facts of a place when the plan says so of it.       *)
LEMMA FactRowIs ==
  ASSUME NEW m, NEW place, NEW s
  PROVE  /\ <<"fact", m, s>> \in FactRows(m, {place}) <=> <<m, place, s>> \in Stamped
         /\ <<"moved", m, s>> \in FactRows(m, {place}) <=> <<m, place, s>> \in Slipped
<1>1. ASSUME NEW set, \A f \in set : f = <<f[1], f[2], f[3]>>
      PROVE  s \in StepsIn(set, m, {place}) <=> <<m, place, s>> \in set
  <2>1. ASSUME NEW f \in set, f[1] = m, f[2] = place, f[3] = s PROVE <<m, place, s>> \in set
    <3>1. f = <<f[1], f[2], f[3]>>
      BY <1>1
    <3> QED BY <2>1, <3>1
  <2>2. s \in StepsIn(set, m, {place}) =>
          \E f \in set : f[1] = m /\ f[2] = place /\ f[3] = s
    BY DEF StepsIn
  <2>3. ASSUME <<m, place, s>> \in set PROVE s \in StepsIn(set, m, {place})
    <3>1. PICK f \in set : f[1] = m /\ f[2] = place /\ f[3] = s
      BY <2>3
    <3> QED BY <3>1 DEF StepsIn
  <2> QED BY <2>1, <2>2, <2>3
<1>2. /\ \A f \in Stamped : f = <<f[1], f[2], f[3]>>
      /\ \A f \in Slipped : f = <<f[1], f[2], f[3]>>
  BY FactsAreOfModels
<1>3. /\ s \in StepsIn(Stamped, m, {place}) <=> <<m, place, s>> \in Stamped
      /\ s \in StepsIn(Slipped, m, {place}) <=> <<m, place, s>> \in Slipped
  BY <1>1, <1>2
<1>4. /\ <<"fact", m, s>> \in FactRows(m, {place}) <=> s \in StepsIn(Stamped, m, {place})
      /\ <<"moved", m, s>> \in FactRows(m, {place}) <=> s \in StepsIn(Slipped, m, {place})
  BY DEF FactRows
<1> QED BY <1>3, <1>4

(* A row among the facts is one of the model, of a step of the path.       *)
LEMMA FactRowOf ==
  ASSUME NEW m, NEW places, NEW f \in FactRows(m, places)
  PROVE  /\ f = <<"fact", m, f[3]>> \/ f = <<"moved", m, f[3]>>
         /\ f[3] \in 1..LastStep /\ After(f) = <<"milestone", m>> /\ After(f) # f
<1>1. \A g \in Stamped \cup Slipped : g[3] \in 1..LastStep
  BY FactsAreOfModels
<1>2. PICK s \in 1..LastStep : f = <<"fact", m, s>> \/ f = <<"moved", m, s>>
  BY <1>1 DEF FactRows, StepsIn
<1>3. f[3] = s /\ f[2] = m /\ f[1] \in {"fact", "moved"}
  BY <1>2
<1>4. After(f) = <<"milestone", m>>
  BY <1>3 DEF After
<1>5. After(f)[1] # f[1]
  BY <1>3, <1>4
<1> QED BY <1>2, <1>3, <1>4, <1>5

(* The facts of one place are among those of all.                          *)
LEMMA FactsOfPlace ==
  ASSUME NEW m, NEW place \in DropPlaces
  PROVE  FactRows(m, {place}) \subseteq FactRows(m, DropPlaces)
BY DEF FactRows, StepsIn

(* What a head is followed by follows that head.                           *)
LEMMA FollowUpsFollow ==
  ASSUME NEW o, NEW r \in Heads(o), NEW f \in FollowUps(r)
  PROVE  Follows(f, r)
<1>1. CASE r \in People(o)
  <2>1. PICK i \in 1..o.users : r = <<"app_user", o.domain, i>>
    BY <1>1 DEF People
  <2>2. f = <<"left", o.domain, i>>
    BY <2>1 DEF FollowUps
  <2> QED BY <2>1, <2>2 DEF Follows, FollowUps, After
<1>2. CASE r \in Season(o)
  <2>1. PICK m \in Sketches : r = <<"model", m>>
    BY <1>2 DEF Season, FollowUps
  <2>2. PICK p \in 1..PhotoStrip(Index(m)) : f = <<"photo", m, p>>
    BY <2>1 DEF FollowUps
  <2> QED BY <2>1, <2>2 DEF Follows, FollowUps, After
<1>3. CASE r \in Template
  BY <1>3 DEF Template, FollowUps
<1>4. CASE r \in {<<"milestone", m>> : m \in Sketches}
  <2>1. PICK m \in Sketches : r = <<"milestone", m>>
    BY <1>4
  <2>2. f \in FactRows(m, DropPlaces)
    BY <2>1 DEF FollowUps
  <2>3. f[1] \in {"fact", "moved"} /\ After(f) = r /\ After(f) # f
    BY <2>1, <2>2, FactRowOf
  <2> QED BY <2>1, <2>3 DEF Follows, FollowUps
<1> QED BY <1>1, <1>2, <1>3, <1>4 DEF Heads

(* A row of a plan is a head of it or follows one.                         *)
LEMMA PlanIs ==
  ASSUME NEW o, NEW r \in Plan(o)
  PROVE  \/ r \in Heads(o) /\ After(r) = r
         \/ After(r) \in Heads(o) /\ Follows(r, After(r))
<1>1. CASE r \in Heads(o)
  BY <1>1, HeadsFollowNone
<1>2. CASE r \notin Heads(o)
  <2>1. PICK h \in Heads(o) : r \in FollowUps(h)
    BY <1>2 DEF Plan
  <2> QED BY <2>1, FollowUpsFollow DEF Follows
<1> QED BY <1>1, <1>2

(* What follows a row comes after it.                                      *)
LEMMA FollowUpsLater ==
  ASSUME NEW o \in Options, NEW r \in Heads(o), NEW f \in FollowUps(r)
  PROVE  f \in Plan(o) /\ Before(Turn(r), Turn(f))
<1>1. f \in Plan(o)
  BY DEF Plan
<1>2. CASE r \in People(o)
  <2>1. PICK i \in 1..o.users : r = <<"app_user", o.domain, i>>
    BY <1>2 DEF People
  <2>2. f = <<"left", o.domain, i>>
    BY <2>1 DEF FollowUps
  <2>3. Turn(r) = <<1, i, 0>> /\ Turn(f) = <<1, i, 1>>
    BY <2>1, <2>2 DEF Turn
  <2> QED BY <1>1, <2>3 DEF Before
<1>3. CASE r \in Season(o)
  <2>1. PICK m \in Sketches : r = <<"model", m>>
    BY <1>3 DEF Season, FollowUps
  <2>2. PICK p \in 1..PhotoStrip(Index(m)) : f = <<"photo", m, p>>
    BY <2>1 DEF FollowUps
  <2>3. p > 0
    BY DEF PhotoStrip
  <2>4. Turn(r) = <<4, m[1][1], m[1][2], m[2], 0, 0>>
    BY <2>1 DEF Turn, Planned, OfModel
  <2>5. Turn(f) = <<4, m[1][1], m[1][2], m[2], p, 0>>
    BY <2>2 DEF Turn, Planned, OfModel
  <2> QED BY <1>1, <2>3, <2>4, <2>5 DEF Before
<1>4. CASE r \in Template
  BY <1>4 DEF Template, FollowUps
<1>5. CASE r \in {<<"milestone", m>> : m \in Sketches}
  <2>1. PICK m \in Sketches : r = <<"milestone", m>>
    BY <1>5
  <2>2. f \in FactRows(m, DropPlaces)
    BY <2>1 DEF FollowUps
  <2>3. PICK s \in 1..LastStep : f = <<"fact", m, s>> \/ f = <<"moved", m, s>>
    BY <2>2, FactRowOf
  <2>4. Turn(r) = <<8, m[1][1], Article[m[1]], m[2], 0, 0>>
    BY <2>1 DEF Turn, Listed, OfModel
  <2>5. PICK kind \in {0, 1} : Turn(f) = <<8, m[1][1], Article[m[1]], m[2], s, kind>>
    <3>1. CASE f = <<"fact", m, s>>
      <4>1. Turn(f) = <<8, m[1][1], Article[m[1]], m[2], s, 1>>
        BY <3>1 DEF Turn, Listed, OfModel
      <4> QED BY <4>1
    <3>2. CASE f = <<"moved", m, s>>
      <4>1. Turn(f) = <<8, m[1][1], Article[m[1]], m[2], s, 0>>
        BY <3>2 DEF Turn, Listed, OfModel
      <4> QED BY <4>1
    <3> QED BY <2>3, <3>1, <3>2
  <2>6. s > 0
    BY PlanAssumption
  <2> QED BY <1>1, <2>4, <2>5, <2>6 DEF Before
<1> QED BY <1>2, <1>3, <1>4, <1>5 DEF Heads

(* The season has finitely many models.                                    *)
LEMMA SketchesFinite == IsFiniteSet(Sketches)
<1> DEFINE Of(g) == {g} \X (0..(Colors[g] - 1))
           Family == {Of(g) : g \in DOMAIN Colors}
           f == [g \in DOMAIN Colors |-> Of(g)]
<1>1. ASSUME NEW g \in DOMAIN Colors PROVE IsFiniteSet(Of(g))
  <2>1. IsFiniteSet({g})
    BY FS_Singleton
  <2>2. Colors[g] \in Nat
    BY PlanAssumption
  <2>3. IsFiniteSet(0..(Colors[g] - 1))
    BY <2>2, FS_Interval
  <2> QED BY <2>1, <2>3, FS_Product
<1>2. f \in Surjection(DOMAIN Colors, Family)
  BY DEF Surjection
<1>3. IsFiniteSet(Family)
  <2> HIDE DEF Of, Family, f
  <2> QED BY <1>2, FS_Surjection, PlanAssumption
<1>4. \A S \in Family : IsFiniteSet(S)
  BY <1>1
<1>5. IsFiniteSet(UNION Family)
  <2> HIDE DEF Of, Family, f
  <2> QED BY <1>3, <1>4, FS_UNION
<1> QED BY <1>5 DEF Sketches

(* The colors of a design come one after the other, in the season and in   *)
(* the order of a run.                                                     *)
LEMMA ColorsInOrder ==
  ASSUME NEW g \in DOMAIN Colors, NEW n \in Nat, NEW k \in Nat, k < n, n < Colors[g]
  PROVE  /\ Index(<<g, k>>) \in Nat /\ Index(<<g, n>>) \in Nat
         /\ Index(<<g, k>>) <= Index(<<g, n>>)
         /\ Before(Turn(<<"model", <<g, k>>>>), Turn(<<"model", <<g, n>>>>))
<1> DEFINE Earlier(m) == {j \in Sketches : Before(PlaceOf(j), PlaceOf(m))}
<1>0. g[1] \in Nat /\ g[2] \in Nat
  BY PlanAssumption
<1>1. ASSUME NEW j \in Sketches, Before(PlaceOf(j), PlaceOf(<<g, k>>))
      PROVE  Before(PlaceOf(j), PlaceOf(<<g, n>>))
  <2> DEFINE a == j[1][1]
             b == j[1][2]
             c == j[2]
  <2>1. a \in Nat /\ b \in Nat /\ c \in Nat
    BY SketchIs
  <2>2. PlaceOf(j) = <<a, b, c>>
    BY DEF PlaceOf
  <2>3. PlaceOf(<<g, k>>) = <<g[1], g[2], k>> /\ PlaceOf(<<g, n>>) = <<g[1], g[2], n>>
    BY DEF PlaceOf
  <2> HIDE DEF a, b, c
  <2>4. \/ a < g[1]
        \/ a = g[1] /\ b < g[2]
        \/ a = g[1] /\ b = g[2] /\ c < k
    BY <1>0, <1>1, <2>1, <2>2, <2>3 DEF Before
  <2>5. \/ a < g[1]
        \/ a = g[1] /\ b < g[2]
        \/ a = g[1] /\ b = g[2] /\ c < n
    BY <2>1, <2>4
  <2> QED BY <1>0, <2>1, <2>2, <2>3, <2>5 DEF Before
<1>2. Earlier(<<g, k>>) \subseteq Earlier(<<g, n>>) /\ Earlier(<<g, n>>) \subseteq Sketches
  BY <1>1
<1>3. IsFiniteSet(Earlier(<<g, n>>))
  BY SketchesFinite, FS_Subset
<1>4. /\ Cardinality(Earlier(<<g, k>>)) \in Nat /\ Cardinality(Earlier(<<g, n>>)) \in Nat
      /\ Cardinality(Earlier(<<g, k>>)) <= Cardinality(Earlier(<<g, n>>))
  <2> HIDE DEF Earlier
  <2>1. IsFiniteSet(Earlier(<<g, k>>))
    BY <1>2, <1>3, FS_Subset
  <2>2. Cardinality(Earlier(<<g, k>>)) <= Cardinality(Earlier(<<g, n>>))
    BY <1>2, <1>3, FS_Subset
  <2> QED BY <1>3, <2>1, <2>2, FS_CardinalityType
<1>5. Before(Turn(<<"model", <<g, k>>>>), Turn(<<"model", <<g, n>>>>))
  <2>1. Turn(<<"model", <<g, k>>>>) = <<4, g[1], g[2], k, 0, 0>>
    BY DEF Turn, Planned, OfModel
  <2>2. Turn(<<"model", <<g, n>>>>) = <<4, g[1], g[2], n, 0, 0>>
    BY DEF Turn, Planned, OfModel
  <2> QED BY <2>1, <2>2 DEF Before
<1> QED BY <1>4, <1>5 DEF Index

(* A plan that names a color of a design names the ones before it.         *)
LEMMA PlansFromTheFirst ==
  ASSUME NEW o \in Options, NEW m \in Sketches, <<"model", m>> \in Plan(o),
         NEW k \in Nat, k < m[2]
  PROVE  /\ <<m[1], k>> \in Sketches
         /\ <<"model", <<m[1], k>>>> \in Season(o)
         /\ Before(Turn(<<"model", <<m[1], k>>>>), Turn(<<"model", m>>))
<1>1. /\ m = <<m[1], m[2]>> /\ m[1] \in DOMAIN Colors /\ m[2] \in Nat
      /\ m[2] < Colors[m[1]] /\ Colors[m[1]] \in Nat
  BY SketchIs, PlanAssumption
<1>2. <<m[1], k>> \in Sketches
  BY <1>1, SketchIs
<1>3. Index(m) < o.models
  <2>1. <<"model", m>> \in Heads(o)
    <3>1. <<"model", m>>[1] = "model"
      OBVIOUS
    <3> QED BY <3>1, PlanIs DEF Follows
  <2> QED BY <2>1 DEF Heads, People, Season, Template
<1>4. Index(<<m[1], k>>) < o.models
  <2>1. /\ Index(<<m[1], k>>) \in Nat /\ Index(<<m[1], m[2]>>) \in Nat
        /\ Index(<<m[1], k>>) <= Index(<<m[1], m[2]>>)
    BY <1>1, ColorsInOrder
  <2>2. Index(<<m[1], m[2]>>) = Index(m)
    BY <1>1
  <2>3. o.models \in Nat
    BY OptionsAssumption
  <2> QED BY <1>3, <2>1, <2>2, <2>3
<1>5. Before(Turn(<<"model", <<m[1], k>>>>), Turn(<<"model", m>>))
  BY <1>1, ColorsInOrder
<1> QED BY <1>2, <1>4, <1>5 DEF Season

(* The calendars come last.                                                *)
LEMMA CalendarsLater ==
  ASSUME NEW m \in Sketches, NEW j \in Sketches
  PROVE  Before(Turn(<<"model", m>>), Turn(<<"milestone", j>>))
<1>1. Turn(<<"model", m>>)[1] = 4 /\ Turn(<<"milestone", j>>)[1] = 8
  BY DEF Turn, Planned, Listed, OfModel
<1>2. 1 \in DOMAIN Turn(<<"model", m>>)
  BY DEF Turn, Planned, OfModel
<1> QED BY <1>1, <1>2 DEF Before

-----------------------------------------------------------------------------
(* The invariant.                                                          *)

(* What the rows of the store are, whoever wrote them: rows of some plan,  *)
(* each with the one it follows, and the colors of a design from the first *)
(* on.                                                                     *)
StoreSound ==
  /\ RowsOnce
  /\ \A r \in HeldRows : \E o \in Options : r \in Plan(o)
  /\ \A r \in HeldRows : Held(After(r))
  /\ \A m \in Sketches : Held(<<"model", m>>) =>
       \A k \in 0..m[2] : Held(<<"model", <<m[1], k>>>>)

(* A run keeps what it has still to come to apart from what it did, and    *)
(* names an actor the store holds.                                         *)
RunSound ==
  /\ DOMAIN run = {"opts", "left", "drawn", "wrote", "skipped", "actor", "status"}
  /\ run.drawn \in Nat
  /\ run.wrote \subseteq HeldRows
  /\ (run.wrote \cup run.skipped) \cap run.left = {}
  /\ run.actor # Nobody => Held(run.actor) /\ run.actor[3] = RootAt
  /\ IF run.status = "none" THEN run.left = {}
     ELSE run.opts \in Options /\ run.left \subseteq Plan(run.opts)
  /\ run.status = "done" => run.left = {}

(* A run takes its rows in order: what it has left is the end of its plan, *)
(* what it has passed is there, and nothing is there yet of what follows a *)
(* row it wrote and is still to come.                                      *)
InOrder ==
  run.status # "none" =>
    /\ \A r \in run.left, s \in Plan(run.opts) :
         Before(Turn(r), Turn(s)) => s \in run.left
    /\ \A r \in Season(run.opts) \cup Template : r \in run.left \/ Held(r)
    /\ \A m \in Sketches :
         Held(<<"model", m>>) => <<"milestone", m>> \in run.left \/ Held(<<"milestone", m>>)
    /\ \A f \in run.left : After(f) # f /\ After(f) \in run.wrote => ~Held(f)

(* While no run was cut off, what follows a row of the store is there or   *)
(* is still to come in the run that wrote the row: every one of it where   *)
(* the row is no calendar, and of a calendar the facts of some place of    *)
(* its model in the drop, and of no other.  The place is the one the model *)
(* has now as long as the run that wrote the calendar is the last one: a   *)
(* later run may add models that are listed before it.                     *)
ToCome(f, r) == UnderWay /\ r \in run.wrote /\ f \in run.left

NothingForgotten ==
  ~cut => \A r \in HeldRows : r[1] # "milestone" =>
            \A f \in FollowUps(r) : Held(f) \/ ToCome(f, r)

StampsOf(m, place) ==
  /\ <<"milestone", m>> \in run.wrote => place = InDrop(m)
  /\ \A f \in FactRows(m, {place}) : Held(f) \/ ToCome(f, <<"milestone", m>>)
  /\ \A f \in FactRows(m, DropPlaces) : Held(f) => f \in FactRows(m, {place})

CalendarsStamped ==
  ~cut => \A m \in Sketches : Held(<<"milestone", m>>) =>
            \E place \in DropPlaces : StampsOf(m, place)

SeedInv == StoreSound /\ RunSound /\ InOrder /\ NothingForgotten /\ CalendarsStamped

(* A model row is the row of a model of the season, and a row that follows *)
(* another follows the head of a plan.                                     *)
LEMMA ModelRows ==
  ASSUME NEW o, NEW r \in Plan(o), r[1] = "model"
  PROVE  \E m \in Sketches : r = <<"model", m>>
<1>1. r \in Heads(o)
  BY PlanIs DEF Follows
<1>2. r \in Season(o)
  BY <1>1 DEF Heads, People, Template
<1> QED BY <1>2 DEF Season

(* A calendar row is the calendar of a model of the season, and a fact of  *)
(* a plan is one some place of its model in the drop calls for.            *)
LEMMA CalendarRows ==
  ASSUME NEW o, NEW r \in Plan(o)
  PROVE  /\ r[1] = "milestone" => \E m \in Sketches : r = <<"milestone", m>>
         /\ r[1] \in {"fact", "moved"} => r \in FactRows(r[2], DropPlaces)
<1>1. ASSUME r[1] = "milestone" PROVE \E m \in Sketches : r = <<"milestone", m>>
  <2>1. r \in Heads(o)
    BY <1>1, PlanIs DEF Follows
  <2> QED BY <1>1, <2>1 DEF Heads, People, Season, Template
<1>2. ASSUME r[1] \in {"fact", "moved"} PROVE r \in FactRows(r[2], DropPlaces)
  <2>1. r \in FollowUps(After(r)) /\ After(r) = <<"milestone", r[2]>>
    <3>1. After(r) = <<"milestone", r[2]>>
      BY <1>2 DEF After
    <3>2. After(r) # r
      BY <1>2, <3>1
    <3> QED BY <3>1, <3>2, PlanIs DEF Follows
  <2>2. After(r)[1] = "milestone" /\ After(r)[2] = r[2]
    BY <2>1
  <2> QED BY <2>1, <2>2 DEF FollowUps
<1> QED BY <1>1, <1>2

(* Only heads are followed by anything.                                    *)
LEMMA FollowUpsOf ==
  ASSUME NEW o, NEW r \in Plan(o), NEW f \in FollowUps(r)
  PROVE  r \in Heads(o) /\ Follows(f, r)
<1>1. r \in Heads(o)
  BY PlanIs DEF Follows
<1> QED BY <1>1, FollowUpsFollow

(* The spine of a plan is its season, its types and its template.          *)
LEMMA SpineIs ==
  ASSUME NEW o
  PROVE  Spine(o) = Season(o) \cup Template
<1>1. ASSUME NEW r \in Spine(o) PROVE r \in Season(o) \cup Template
  <2>1. r \in Plan(o) /\ After(r) = r /\ r[1] # "app_user" /\ r[1] # "milestone"
    BY DEF Spine
  <2>2. r \in Heads(o)
    BY <2>1, PlanIs DEF Follows
  <2> QED BY <2>1, <2>2 DEF Heads, People
<1>2. ASSUME NEW r \in Season(o) \cup Template PROVE r \in Spine(o)
  <2>1. r \in Heads(o) /\ r \in Plan(o)
    BY DEF Heads, Plan
  <2>2. r[1] # "app_user" /\ r[1] # "milestone"
    BY DEF Season, Template
  <2> QED BY <2>1, <2>2, HeadsFollowNone DEF Spine
<1> QED BY <1>1, <1>2

(* The models of a design that are there are as many as its colors that    *)
(* are.                                                                    *)
ColorsThere(g) == {k \in 0..(Colors[g] - 1) : Held(<<"model", <<g, k>>>>)}

(* The store holds as many models of a design as colors of it.             *)
LEMMA CountIs ==
  ASSUME StoreSound, NEW g \in DOMAIN Colors
  PROVE  /\ IsFiniteSet(ColorsThere(g))
         /\ Cardinality(OfDesign(g)) = Cardinality(ColorsThere(g))
<1> DEFINE c == [h \in OfDesign(g) |-> h.row[2][2]]
<1>1. IsFiniteSet(ColorsThere(g))
  <2>1. Colors[g] \in Nat
    BY PlanAssumption
  <2>2. IsFiniteSet(0..(Colors[g] - 1))
    BY <2>1, FS_Interval
  <2> QED BY <2>2, FS_Subset DEF ColorsThere
<1>2. ASSUME NEW h \in OfDesign(g)
      PROVE  h \in held /\ h.row = <<"model", <<g, c[h]>>>> /\ c[h] \in ColorsThere(g)
  <2>1. h \in held /\ h.row[1] = "model" /\ h.row[2][1] = g
    BY DEF OfDesign, InTable
  <2>2. PICK o \in Options : h.row \in Plan(o)
    BY <2>1 DEF StoreSound, HeldRows
  <2>3. PICK m \in Sketches : h.row = <<"model", m>>
    BY <2>1, <2>2, ModelRows
  <2>4. m = <<g, c[h]>> /\ c[h] = m[2]
    BY <2>1, <2>3, SketchIs
  <2>5. c[h] \in Nat /\ c[h] < Colors[g] /\ Colors[g] \in Nat
    BY <2>1, <2>3, <2>4, SketchIs, PlanAssumption
  <2>6. Held(<<"model", <<g, c[h]>>>>)
    BY <2>1, <2>3, <2>4 DEF Held, HeldRows
  <2> HIDE DEF c
  <2> QED BY <2>1, <2>3, <2>4, <2>5, <2>6 DEF ColorsThere
<1>3. ASSUME NEW k \in ColorsThere(g) PROVE \E h \in OfDesign(g) : c[h] = k
  <2>1. PICK h \in held : h.row = <<"model", <<g, k>>>>
    BY DEF ColorsThere, Held, HeldRows
  <2>2. h \in OfDesign(g)
    BY <2>1 DEF OfDesign, InTable
  <2> QED BY <2>1, <2>2
<1>4. ASSUME NEW h \in OfDesign(g), NEW i \in OfDesign(g), c[h] = c[i] PROVE h = i
  <2> HIDE DEF c
  <2>1. h \in held /\ i \in held /\ h.row = i.row
    BY <1>2, <1>4
  <2> QED BY <2>1 DEF StoreSound, RowsOnce, NothingTwice
<1>5. c \in [OfDesign(g) -> ColorsThere(g)]
  BY <1>2
<1>6. c \in Injection(OfDesign(g), ColorsThere(g)) /\ c \in Surjection(OfDesign(g), ColorsThere(g))
  <2> HIDE DEF c
  <2> QED BY <1>3, <1>4, <1>5 DEF Injection, IsInjective, Surjection
<1>7. IsFiniteSet(OfDesign(g))
  BY <1>1, <1>6, FS_Injection
<1>8. ExistsBijection(OfDesign(g), ColorsThere(g))
  BY <1>6 DEF ExistsBijection, Bijection
<1> QED BY <1>1, <1>7, <1>8, FS_Bijection

(* The count of an article tells whether the planned color is there, once  *)
(* the colors before it are.                                               *)
LEMMA CountTells ==
  ASSUME StoreSound, NEW m \in Sketches,
         \A k \in Nat : k < m[2] => Held(<<"model", <<m[1], k>>>>)
  PROVE  HoldsModel(m) <=> Held(<<"model", m>>)
<1> DEFINE g == m[1]
           n == m[2]
           there == ColorsThere(g)
<1>1. g \in DOMAIN Colors /\ n \in Nat /\ m = <<g, n>> /\ n < Colors[g] /\ Colors[g] \in Nat
  BY SketchIs, PlanAssumption
<1>2. IsFiniteSet(there) /\ (HoldsModel(m) <=> Cardinality(there) > n)
  BY <1>1, CountIs DEF HoldsModel
<1>3. ASSUME Held(<<"model", m>>) PROVE Cardinality(there) > n
  <2>1. 0..n \subseteq there
    BY <1>1, <1>3 DEF StoreSound, ColorsThere
  <2>2. Cardinality(0..n) = n + 1
    BY <1>1, FS_Interval
  <2>3. Cardinality(0..n) <= Cardinality(there) /\ Cardinality(there) \in Nat
    <3> HIDE DEF there
    <3>1. Cardinality(0..n) <= Cardinality(there)
      BY <1>2, <2>1, FS_Subset
    <3> QED BY <1>2, <3>1, FS_CardinalityType
  <2> QED BY <1>1, <2>2, <2>3
<1>4. ASSUME ~Held(<<"model", m>>) PROVE ~(Cardinality(there) > n)
  <2>1. there \subseteq 0..(n - 1)
    <3> SUFFICES ASSUME NEW k \in there, ~(k < n) PROVE FALSE
      BY <1>1 DEF ColorsThere
    <3>1. k \in Nat /\ k < Colors[g] /\ Held(<<"model", <<g, k>>>>)
      BY <1>1 DEF ColorsThere
    <3>2. <<g, k>> \in Sketches /\ <<g, k>>[2] = k /\ <<g, k>>[1] = g
      BY <1>1, <3>1, SketchIs
    <3>3. \A i \in 0..k : Held(<<"model", <<g, i>>>>)
      BY <3>1, <3>2 DEF StoreSound
    <3>4. n \in 0..k
      BY <1>1, <3>1
    <3>5. Held(<<"model", <<g, n>>>>)
      BY <3>3, <3>4
    <3> QED BY <1>1, <1>4, <3>5
  <2>2. IsFiniteSet(0..(n - 1)) /\ Cardinality(0..(n - 1)) = n
    <3>1. 0 \in Int /\ n - 1 \in Int
      BY <1>1
    <3>2. Cardinality(0..(n - 1)) = IF 0 > n - 1 THEN 0 ELSE (n - 1) - 0 + 1
      BY <3>1, FS_Interval
    <3>3. IsFiniteSet(0..(n - 1))
      BY <3>1, FS_Interval
    <3>4. Cardinality(0..(n - 1)) = n
      BY <1>1, <3>2
    <3> QED BY <3>3, <3>4
  <2>3. Cardinality(there) <= Cardinality(0..(n - 1)) /\ Cardinality(there) \in Nat
    <3> HIDE DEF there
    <3> QED BY <1>2, <2>1, <2>2, FS_Subset, FS_CardinalityType
  <2> QED BY <1>1, <2>2, <2>3
<1> QED BY <1>2, <1>3, <1>4

-----------------------------------------------------------------------------
(* Taking a row.                                                           *)

(* What a step leaves of the record of the run.                            *)
Fields == {"opts", "left", "drawn", "wrote", "skipped", "actor", "status"}

(* What a run that passes a row becomes.                                   *)
LEMMA PassRun ==
  ASSUME RunSound, NEW r, Pass(r)
  PROVE  /\ DOMAIN run' = Fields
         /\ run'.left = run.left \ {r} /\ run'.opts = run.opts /\ run'.drawn = run.drawn
         /\ run'.wrote = run.wrote /\ run'.skipped = run.skipped
         /\ run'.actor = run.actor /\ run'.status = "running" /\ run.status = "running"
         /\ held' = held /\ HeldRows' = HeldRows
BY DEF RunSound, Pass, Due, UnderWay, HeldRows, Fields

(* What a run that skips an employee becomes.                              *)
LEMMA SkipRun ==
  ASSUME RunSound, NEW r, SkipUser(r)
  PROVE  /\ DOMAIN run' = Fields
         /\ run'.left = run.left \ {r} /\ run'.opts = run.opts
         /\ run'.drawn = run.drawn + IdsOf(r)
         /\ run'.wrote = run.wrote /\ run'.skipped = run.skipped \cup {r}
         /\ run'.actor = RunAsRoot(r, HeldRows)
         /\ run'.status = "running" /\ run.status = "running"
         /\ held' = held /\ HeldRows' = HeldRows
BY DEF RunSound, SkipUser, Due, UnderWay, HeldRows, Fields

(* What a run that writes a row becomes, and the rows with it.             *)
LEMMA WriteRun ==
  ASSUME RunSound, NEW r, Write(r)
  PROVE  /\ DOMAIN run' = Fields
         /\ run'.left = run.left \ {r} /\ run'.opts = run.opts
         /\ run'.drawn = run.drawn + IdsOf(r) + EntriesOf(r)
         /\ run'.wrote = run.wrote \cup {r} /\ run'.skipped = run.skipped
         /\ run'.actor = RunAsRoot(r, HeldRows \cup {r})
         /\ run'.status = "running" /\ run.status = "running"
         /\ HeldRows' = HeldRows \cup {r}
<1>1. HeldRows' = HeldRows \cup {r}
  <2> DEFINE new == [row |-> r, ids |-> RowIds(r)]
  <2>1. held' = held \cup {new} /\ new.row = r
    BY DEF Write
  <2> HIDE DEF new
  <2>2. \A s \in HeldRows' : s \in HeldRows \cup {r}
    BY <2>1 DEF HeldRows
  <2>3. \A s \in HeldRows \cup {r} : s \in HeldRows'
    BY <2>1 DEF HeldRows
  <2> QED BY <2>2, <2>3
<1> QED BY <1>1 DEF RunSound, Write, Due, UnderWay, Fields

(* The row whose turn it is is one of the plan, and what comes before it   *)
(* has been taken.                                                         *)
LEMMA DueIs ==
  ASSUME RunSound, InOrder, NEW r, Due(r)
  PROVE  /\ run.opts \in Options /\ r \in run.left /\ r \in Plan(run.opts)
         /\ r \notin run.wrote /\ r \notin run.skipped
         /\ \A s \in Season(run.opts) \cup Template :
              Before(Turn(s), Turn(r)) => Held(s)
         /\ \A s \in Plan(run.opts) :
              Before(Turn(r), Turn(s)) => s \in run.left
BY DEF RunSound, InOrder, Due, UnderWay

(* For a model whose turn it is the count tells whether it is there.       *)
LEMMA DueModel ==
  ASSUME StoreSound, RunSound, InOrder, NEW m \in Sketches, Due(<<"model", m>>)
  PROVE  HoldsModel(m) <=> Held(<<"model", m>>)
<1>1. run.opts \in Options /\ <<"model", m>> \in Plan(run.opts)
  BY DueIs
<1>2. ASSUME NEW k \in Nat, k < m[2] PROVE Held(<<"model", <<m[1], k>>>>)
  BY <1>1, <1>2, PlansFromTheFirst, DueIs
<1> QED BY <1>2, CountTells

(* A row of the season, the types or the template is passed exactly when   *)
(* it is there.                                                            *)
LEMMA SpinePassed ==
  ASSUME StoreSound, RunSound, InOrder,
         NEW r \in Season(run.opts) \cup Template, Due(r)
  PROVE  Passed(r) <=> Held(r)
<1>1. After(r) = r
  BY HeadsFollowNone DEF Heads
<1>2. CASE r[1] = "model"
  <2>1. PICK m \in Sketches : r = <<"model", m>>
    BY <1>2 DEF Season, Template
  <2>2. Passed(r) <=> HoldsModel(m)
    BY <1>1, <2>1 DEF Passed, InStore
  <2> QED BY <2>1, <2>2, DueModel
<1>3. CASE r[1] # "model"
  <2>1. r[1] # "app_user" /\ r[1] # "milestone"
    BY DEF Season, Template
  <2> QED BY <1>1, <1>3, <2>1 DEF Passed, InStore
<1> QED BY <1>2, <1>3

(* A row is written only where it is not there.                            *)
LEMMA WriteIsNew ==
  ASSUME StoreSound, RunSound, InOrder, NEW r, Write(r)
  PROVE  ~Held(r)
<1>1. /\ Due(r) /\ ~Passed(r) /\ ~(r[1] = "app_user" /\ Held(r))
      /\ run.status # "none" /\ r \in run.left /\ r \in Plan(run.opts)
  BY DueIs DEF Write, Due, UnderWay
<1>2. CASE After(r) # r
  BY <1>1, <1>2 DEF Passed, InOrder
<1>3. CASE After(r) = r
  <2>1. r \in Heads(run.opts)
    BY <1>1, <1>3, PlanIs DEF Follows
  <2>2. CASE r \in People(run.opts)
    BY <1>1, <2>2 DEF People
  <2>3. CASE r \in Season(run.opts) \cup Template
    BY <1>1, <2>3, SpinePassed
  <2>4. CASE r \in {<<"milestone", m>> : m \in Sketches}
    BY <1>1, <1>3, <2>4 DEF Passed, InStore
  <2> QED BY <2>1, <2>2, <2>3, <2>4 DEF Heads
<1> QED BY <1>2, <1>3

(* A run takes its rows in order.                                          *)
LEMMA TakeInOrder ==
  ASSUME RunSound, InOrder, NEW r, Due(r), run'.left = run.left \ {r}, run'.opts = run.opts
  PROVE  \A s \in run'.left, t \in Plan(run'.opts) :
           Before(Turn(s), Turn(t)) => t \in run'.left
BY DEF InOrder, Due, UnderWay

-----------------------------------------------------------------------------
(* The store stays sound.                                                  *)

(* The types, the names of the entries and the numbers of a write.         *)
LEMMA NumbersDrawn ==
  ASSUME RunSound, NEW r
  PROVE  /\ IdsOf(r) \in Nat /\ EntriesOf(r) \in Nat
         /\ RowIds(r) \subseteq Nat /\ NewIds(r) \subseteq Nat
<1>1. IdsOf(r) \in Nat /\ EntriesOf(r) \in Nat
  BY PlanAssumption DEF IdsOf, EntriesOf
<1>2. run.drawn \in Nat
  BY DEF RunSound
<1> HIDE DEF IdsOf, EntriesOf
<1> QED BY <1>1, <1>2 DEF RowIds, NewIds, Drawn

(* The actor of a write is there once it is written, and is a root, or the *)
(* employee the entry is about.                                            *)
LEMMA ActorIs ==
  ASSUME StoreSound, RunSound, InOrder, NEW r, Write(r)
  PROVE  /\ Actor(r) \in HeldRows \cup {r}
         /\ \/ r[1] = "app_user" \/ Actor(r)[3] = RootAt
            \/ r[1] = "left" /\ Actor(r) = <<"app_user", r[2], r[3]>>
<1>1. Due(r) /\ ~Passed(r) /\ Known(r) /\ r \in Plan(run.opts)
  BY DueIs DEF Write
<1>2. CASE run.actor # Nobody
  BY <1>2 DEF Actor, RunSound, Held
<1>3. CASE run.actor = Nobody
  <2>1. r[1] = "app_user" \/ r[1] = "left"
    BY <1>1, <1>3 DEF Known, Actor, IsUsers
  <2>2. Actor(r) = <<"app_user", r[2], r[3]>>
    BY <1>3, <2>1 DEF Actor, IsUsers
  <2>3. CASE r[1] = "app_user"
    <3>1. r \in Heads(run.opts)
      BY <1>1, <2>3, PlanIs DEF Follows
    <3>2. r \in People(run.opts)
      BY <2>3, <3>1 DEF Heads, Season, Template
    <3>3. r = <<"app_user", r[2], r[3]>>
      BY <3>2 DEF People
    <3> QED BY <2>2, <2>3, <3>3
  <2>4. CASE r[1] = "left"
    <3>1. After(r) = <<"app_user", r[2], r[3]>>
      BY <2>4 DEF After
    <3>2. After(r) # r
      BY <2>4, <3>1
    <3>3. After(r) \in HeldRows
      BY <1>1, <3>2 DEF Passed, RunSound
    <3> QED BY <2>2, <2>4, <3>1, <3>3
  <2> QED BY <2>1, <2>3, <2>4
<1> QED BY <1>2, <1>3

(* A write leaves the store sound.                                         *)
LEMMA WriteKeepsStore ==
  ASSUME StoreSound, RunSound, InOrder, NEW r, Write(r)
  PROVE  StoreSound'
<1>1. /\ Due(r) /\ ~Passed(r) /\ RowFree(r) /\ EntryFree(r)
      /\ run.opts \in Options /\ r \in Plan(run.opts) /\ r \in run.left
      /\ ~Held(r) /\ HeldRows' = HeldRows \cup {r}
      /\ runs' = runs /\ cut' = cut
  BY DueIs, WriteIsNew, WriteRun DEF Write
<1> DEFINE new == [row |-> r, ids |-> RowIds(r)]
           told == {[id |-> n, row |-> r, actor |-> Actor(r)] : n \in NewIds(r)}
<1>2. held' = held \cup {new} /\ trail' = trail \cup told
  BY DEF Write
<1>3. new.row = r /\ new.ids = RowIds(r)
  OBVIOUS
<1>4. \A e \in told : e.id \in NewIds(r) /\ e.row = r /\ e.actor = Actor(r)
  OBVIOUS
<1>5. \A d, e \in told : d.id = e.id => d = e
  OBVIOUS
<1> HIDE DEF new, told
<1>6. SeedTypeOK'
  <2>1. \A h \in held' : h.ids \subseteq Nat
    BY <1>2, <1>3, NumbersDrawn DEF StoreSound, RowsOnce, SeedTypeOK
  <2>2. \A e \in trail' : e.id \in Nat /\ e.row \in HeldRows' /\ e.actor \in HeldRows'
    <3>1. \A e \in trail : e.id \in Nat /\ e.row \in HeldRows /\ e.actor \in HeldRows
      BY DEF StoreSound, RowsOnce, SeedTypeOK, Held
    <3>2. \A e \in told : e.id \in Nat /\ e.row = r /\ e.actor \in HeldRows \cup {r}
      BY <1>4, NumbersDrawn, ActorIs
    <3> QED BY <1>1, <1>2, <3>1, <3>2
  <2>3. /\ run'.status \in {"none", "running", "done", "failed", "stopped"}
        /\ run'.skipped \cap run'.wrote = {}
    <3>1. run'.status = "running" /\ run'.wrote = run.wrote \cup {r} /\ run'.skipped = run.skipped
      BY WriteRun
    <3>2. r \notin run.skipped
      BY <1>1, DueIs
    <3>3. run.skipped \cap run.wrote = {}
      BY DEF StoreSound, RowsOnce, SeedTypeOK
    <3> QED BY <3>1, <3>2, <3>3
  <2>4. runs' \in 0..MaxRuns /\ cut' \in BOOLEAN
    <3>1. runs \in 0..MaxRuns /\ cut \in BOOLEAN
      BY DEF StoreSound, RowsOnce, SeedTypeOK
    <3> QED BY <1>1, <3>1
  <2>5. \A g, h \in held' : g # h /\ g.row[1] = h.row[1] => g.ids \cap h.ids = {}
    <3>1. \A h \in held : h.row[1] = r[1] => h.ids \cap RowIds(r) = {}
      BY <1>1 DEF RowFree, TableIds, InTable
    <3>2. \A g, h \in held : g # h /\ g.row[1] = h.row[1] => g.ids \cap h.ids = {}
      BY DEF StoreSound, RowsOnce, SeedTypeOK
    <3> QED BY <1>2, <1>3, <3>1, <3>2
  <2>6. \A d, e \in trail' : d.id = e.id => d = e
    <3>1. \A d \in trail, e \in told : d.id # e.id
      BY <1>1, <1>4 DEF EntryFree, EntryIds
    <3>2. \A d, e \in trail : d.id = e.id => d = e
      BY DEF StoreSound, RowsOnce, SeedTypeOK
    <3> QED BY <1>2, <1>5, <3>1, <3>2
  <2> QED BY <2>1, <2>2, <2>3, <2>4, <2>5, <2>6 DEF SeedTypeOK, Held
<1>7. NothingTwice'
  <2>1. \A h \in held : h.row # r
    BY <1>1 DEF Held, HeldRows
  <2> QED BY <1>2, <1>3, <2>1 DEF StoreSound, RowsOnce, NothingTwice
<1>8. RootWroteIt'
  <2>1. \A e \in told : e.row[1] # "app_user" =>
          e.actor[3] = RootAt \/ (e.row[1] = "left" /\ e.actor = <<"app_user", e.row[2], e.row[3]>>)
    BY <1>4, ActorIs
  <2> QED BY <1>2, <2>1 DEF StoreSound, RowsOnce, RootWroteIt
<1>9. \A s \in HeldRows' : \E o \in Options : s \in Plan(o)
  BY <1>1 DEF StoreSound
<1>10. \A s \in HeldRows' : After(s) \in HeldRows'
  <2>1. \A s \in HeldRows : After(s) \in HeldRows
    BY DEF StoreSound, Held
  <2>2. After(r) = r \/ After(r) \in HeldRows
    BY <1>1 DEF Passed, RunSound
  <2> QED BY <1>1, <2>1, <2>2
<1>11. ASSUME NEW m \in Sketches, <<"model", m>> \in HeldRows', NEW k \in 0..m[2]
       PROVE  <<"model", <<m[1], k>>>> \in HeldRows'
  <2>1. CASE <<"model", m>> \in HeldRows
    BY <1>1, <1>11, <2>1 DEF StoreSound, Held
  <2>2. CASE <<"model", m>> = r
    <3>1. m = <<m[1], m[2]>> /\ m[2] \in Nat
      BY SketchIs
    <3>2. CASE k = m[2]
      BY <1>1, <2>2, <3>1, <3>2
    <3>3. CASE k < m[2]
      <4>1. k \in Nat
        BY <3>1
      <4>2. /\ <<"model", <<m[1], k>>>> \in Season(run.opts)
            /\ Before(Turn(<<"model", <<m[1], k>>>>), Turn(r))
        BY <1>1, <2>2, <3>3, <4>1, PlansFromTheFirst
      <4>3. Held(<<"model", <<m[1], k>>>>)
        BY <1>1, <4>2, DueIs
      <4> QED BY <1>1, <4>3 DEF Held
    <3> QED BY <3>1, <3>2, <3>3
  <2> QED BY <1>1, <1>11, <2>1, <2>2
<1> QED BY <1>6, <1>7, <1>8, <1>9, <1>10, <1>11 DEF StoreSound, RowsOnce, Held

(* A step that writes nothing leaves the store sound.                      *)
LEMMA StoreKept ==
  ASSUME StoreSound, held' = held, trail' = trail, runs' \in 0..MaxRuns, cut' \in BOOLEAN,
         run'.status \in {"none", "running", "done", "failed", "stopped"},
         run'.skipped \cap run'.wrote = {}
  PROVE  StoreSound' /\ HeldRows' = HeldRows
<1>1. HeldRows' = HeldRows
  BY DEF HeldRows
<1>2. RowsOnce'
  BY <1>1 DEF StoreSound, RowsOnce, SeedTypeOK, NothingTwice, RootWroteIt, Held
<1> QED BY <1>1, <1>2 DEF StoreSound, Held

-----------------------------------------------------------------------------
(* The facts of a calendar stay those of one place.                        *)

(* The place of a model does not move while no model is written.           *)
LEMMA PlaceStays ==
  ASSUME NEW m \in Sketches, InTable("model")' = InTable("model")
  PROVE  InDrop(m)' = InDrop(m)
BY DEF InDrop, ListedBefore

(* A model has its place among those of its drop.                          *)
LEMMA InDropIsPlace ==
  ASSUME NEW m \in Sketches
  PROVE  InDrop(m) \in DropPlaces
<1> DEFINE Others == Sketches \ {m}
           Ahead == {j \in Others : j[1][1] = m[1][1] /\ ListedBefore(j, m)}
<1>1. IsFiniteSet(Others) /\ Cardinality(Others) = Cardinality(Sketches) - 1
  BY SketchesFinite, FS_RemoveElement
<1>2. Ahead \subseteq Others
  OBVIOUS
<1>3. InDrop(m) = Cardinality(Ahead)
  BY DEF InDrop
<1> HIDE DEF Others, Ahead
<1>4. IsFiniteSet(Ahead) /\ Cardinality(Ahead) <= Cardinality(Others)
  BY <1>1, <1>2, FS_Subset
<1>5. Cardinality(Ahead) \in Nat /\ Cardinality(Others) \in Nat /\ Cardinality(Sketches) \in Nat
  BY <1>1, <1>4, SketchesFinite, FS_CardinalityType
<1>6. Cardinality(Ahead) \in 0..(Cardinality(Sketches) - 1)
  BY <1>1, <1>4, <1>5
<1> QED BY <1>3, <1>6 DEF DropPlaces

(* A row that follows a calendar and is passed is one its place does not   *)
(* call for.                                                               *)
LEMMA PassKeepsStamps ==
  ASSUME StoreSound, RunSound, InOrder, CalendarsStamped, NEW r, Pass(r),
         held' = held, cut' = cut, run'.wrote = run.wrote, run'.left = run.left \ {r},
         run'.status = "running", run.status = "running"
  PROVE  CalendarsStamped'
<1>1. HeldRows' = HeldRows /\ InTable("model")' = InTable("model")
  BY DEF HeldRows, InTable
<1>2. SUFFICES ASSUME ~cut, NEW m \in Sketches, Held(<<"milestone", m>>)
               PROVE  \E place \in DropPlaces : StampsOf(m, place)'
  BY <1>1 DEF CalendarsStamped, Held
<1>3. PICK place \in DropPlaces : StampsOf(m, place)
  BY <1>2 DEF CalendarsStamped
<1>4. <<"milestone", m>> \in run'.wrote => place = InDrop(m)'
  BY <1>1, <1>3, PlaceStays DEF StampsOf
<1>5. ASSUME NEW f \in FactRows(m, {place})
      PROVE  Held(f)' \/ ToCome(f, <<"milestone", m>>)'
  <2>1. Held(f) \/ ToCome(f, <<"milestone", m>>)
    BY <1>3 DEF StampsOf
  <2>2. CASE f = r /\ <<"milestone", m>> \in run.wrote
    <3>1. place = InDrop(m)
      BY <1>3, <2>2 DEF StampsOf
    <3>2. f[2] = m /\ After(f) = <<"milestone", m>> /\ After(f) # f
      BY FactRowOf
    <3>3. Called(f)
      BY <3>1, <3>2 DEF Called
    <3> QED BY <2>2, <3>2, <3>3 DEF Pass, Passed
  <2> QED BY <1>1, <2>1, <2>2 DEF ToCome, UnderWay, Held
<1>6. \A f \in FactRows(m, DropPlaces) : Held(f)' => f \in FactRows(m, {place})
  BY <1>1, <1>3 DEF StampsOf, Held
<1> QED BY <1>4, <1>5, <1>6 DEF StampsOf

(* Employees are followed by no facts.                                     *)
LEMMA SkipKeepsStamps ==
  ASSUME StoreSound, CalendarsStamped, NEW r, r[1] = "app_user",
         held' = held, cut' = cut, run'.wrote = run.wrote, run'.left = run.left \ {r},
         run'.status = "running", run.status = "running"
  PROVE  CalendarsStamped'
<1>1. HeldRows' = HeldRows /\ InTable("model")' = InTable("model")
  BY DEF HeldRows, InTable
<1>2. SUFFICES ASSUME ~cut, NEW m \in Sketches, Held(<<"milestone", m>>)
               PROVE  \E place \in DropPlaces : StampsOf(m, place)'
  BY <1>1 DEF CalendarsStamped, Held
<1>3. PICK place \in DropPlaces : StampsOf(m, place)
  BY <1>2 DEF CalendarsStamped
<1>4. <<"milestone", m>> \in run'.wrote => place = InDrop(m)'
  BY <1>1, <1>3, PlaceStays DEF StampsOf
<1>5. ASSUME NEW f \in FactRows(m, {place})
      PROVE  Held(f)' \/ ToCome(f, <<"milestone", m>>)'
  <2>1. Held(f) \/ ToCome(f, <<"milestone", m>>)
    BY <1>3 DEF StampsOf
  <2>2. f # r
    BY FactRowOf
  <2> QED BY <1>1, <2>1, <2>2 DEF ToCome, UnderWay, Held
<1>6. \A f \in FactRows(m, DropPlaces) : Held(f)' => f \in FactRows(m, {place})
  BY <1>1, <1>3 DEF StampsOf, Held
<1> QED BY <1>4, <1>5, <1>6 DEF StampsOf

(* A written row leaves the models as they are, unless it is one.          *)
LEMMA WriteKeepsModels ==
  ASSUME NEW r, Write(r), r[1] # "model"
  PROVE  InTable("model")' = InTable("model")
<1> DEFINE new == [row |-> r, ids |-> RowIds(r)]
<1>1. held' = held \cup {new} /\ new.row = r
  BY DEF Write
<1> HIDE DEF new
<1> QED BY <1>1 DEF InTable

(* A written calendar takes the facts of the place its model has by then.  *)
LEMMA NewCalendar ==
  ASSUME StoreSound, RunSound, InOrder, NEW m \in Sketches, Write(<<"milestone", m>>)
  PROVE  \E place \in DropPlaces : StampsOf(m, place)'
<1> DEFINE r == <<"milestone", m>>
<1>1. /\ Due(r) /\ ~Held(r) /\ run.opts \in Options /\ r \in Plan(run.opts)
      /\ HeldRows' = HeldRows \cup {r} /\ run'.left = run.left \ {r}
      /\ run'.wrote = run.wrote \cup {r} /\ run'.status = "running"
  BY DueIs, WriteIsNew, WriteRun DEF Write
<1>2. InTable("model")' = InTable("model")
  <2>1. r[1] # "model"
    OBVIOUS
  <2> QED BY <2>1, WriteKeepsModels
<1>3. PICK place \in DropPlaces : place = InDrop(m) /\ place = InDrop(m)'
  BY <1>2, InDropIsPlace, PlaceStays
<1>4. ASSUME NEW f \in FactRows(m, DropPlaces) PROVE f # r /\ f \in run.left /\ ~Held(f)
  <2>1. After(f) = r /\ After(f) # f
    BY FactRowOf
  <2>2. r \in Heads(run.opts)
    BY DEF Heads
  <2>3. FollowUps(r) = FactRows(m, DropPlaces)
    BY DEF FollowUps
  <2>4. f \in Plan(run.opts) /\ Before(Turn(r), Turn(f))
    BY <1>1, <2>2, <2>3, FollowUpsLater
  <2>5. f \in run.left
    BY <1>1, <2>4, DueIs
  <2>6. ~Held(f)
    BY <1>1, <2>1 DEF StoreSound, Held
  <2> QED BY <2>1, <2>5, <2>6
<1>5. \A f \in FactRows(m, {place}) : ToCome(f, r)'
  BY <1>1, <1>4, FactsOfPlace DEF ToCome, UnderWay
<1>6. \A f \in FactRows(m, DropPlaces) : ~Held(f)'
  BY <1>1, <1>4 DEF Held
<1> QED BY <1>3, <1>5, <1>6 DEF StampsOf

(* A fact is written only where the place of its model calls for it, and   *)
(* no model once a calendar is.                                            *)
LEMMA OldCalendar ==
  ASSUME StoreSound, RunSound, InOrder, NEW r, Write(r),
         NEW m \in Sketches, Held(<<"milestone", m>>),
         NEW place \in DropPlaces, StampsOf(m, place)
  PROVE  StampsOf(m, place)'
<1>1. /\ Due(r) /\ ~Passed(r) /\ ~Held(r) /\ run.opts \in Options /\ r \in Plan(run.opts)
      /\ HeldRows' = HeldRows \cup {r} /\ run'.left = run.left \ {r}
      /\ run'.wrote = run.wrote \cup {r} /\ run'.status = "running"
      /\ r # <<"milestone", m>>
  BY DueIs, WriteIsNew, WriteRun DEF Write
<1>2. ASSUME <<"milestone", m>> \in run'.wrote PROVE place = InDrop(m)'
  <2>1. <<"milestone", m>> \in run.wrote
    BY <1>1, <1>2
  <2>2. r[1] # "model"
    <3> SUFFICES ASSUME r[1] = "model" PROVE FALSE
      OBVIOUS
    <3>1. PICK j \in Sketches : r = <<"model", j>>
      BY <1>1, ModelRows
    <3>2. <<"milestone", m>> \in Plan(run.opts)
      BY DEF Plan, Heads
    <3>3. <<"milestone", m>> \in run.left
      BY <1>1, <3>1, <3>2, CalendarsLater, DueIs
    <3> QED BY <2>1, <3>3 DEF RunSound
  <2>3. place = InDrop(m) /\ InTable("model")' = InTable("model")
    BY <2>1, <2>2, WriteKeepsModels DEF StampsOf
  <2> QED BY <2>3, PlaceStays
<1>3. ASSUME NEW f \in FactRows(m, {place})
      PROVE  Held(f)' \/ ToCome(f, <<"milestone", m>>)'
  BY <1>1 DEF StampsOf, ToCome, UnderWay, Held
<1>4. ASSUME NEW f \in FactRows(m, DropPlaces), Held(f)' PROVE f \in FactRows(m, {place})
  <2>1. CASE Held(f)
    BY <2>1 DEF StampsOf
  <2>2. CASE f = r
    <3>1. /\ f[1] \in {"fact", "moved"} /\ f[2] = m
          /\ After(f) = <<"milestone", m>> /\ After(f) # f
      BY FactRowOf
    <3>2. <<"milestone", m>> \in run.wrote /\ Called(f)
      BY <1>1, <2>2, <3>1 DEF Passed
    <3>3. place = InDrop(m)
      BY <3>2 DEF StampsOf
    <3> QED BY <3>1, <3>2, <3>3 DEF Called
  <2> QED BY <1>1, <1>4, <2>1, <2>2 DEF Held
<1> QED BY <1>2, <1>3, <1>4 DEF StampsOf

(* A write keeps the facts of every calendar those of one place.           *)
LEMMA WriteKeepsStamps ==
  ASSUME StoreSound, RunSound, InOrder, CalendarsStamped, NEW r, Write(r)
  PROVE  CalendarsStamped'
<1>1. cut' = cut /\ HeldRows' = HeldRows \cup {r}
  BY WriteRun DEF Write
<1>2. SUFFICES ASSUME ~cut, NEW m \in Sketches, <<"milestone", m>> \in HeldRows \cup {r}
               PROVE  \E place \in DropPlaces : StampsOf(m, place)'
  BY <1>1 DEF CalendarsStamped, Held
<1>3. CASE r = <<"milestone", m>>
  BY <1>3, NewCalendar
<1>4. CASE Held(<<"milestone", m>>)
  <2>1. PICK place \in DropPlaces : StampsOf(m, place)
    BY <1>2, <1>4 DEF CalendarsStamped
  <2>2. StampsOf(m, place)'
    BY <1>4, <2>1, OldCalendar
  <2> QED BY <2>2
<1> QED BY <1>2, <1>3, <1>4 DEF Held

-----------------------------------------------------------------------------
(* The run stays in order.                                                 *)

(* The root a run acts as is there once it is known.                       *)
LEMMA RootIs ==
  ASSUME RunSound, NEW r, NEW there, HeldRows \subseteq there, RunAsRoot(r, there) # Nobody
  PROVE  RunAsRoot(r, there) \in there /\ RunAsRoot(r, there)[3] = RootAt
<1>1. CASE r = <<"app_user", run.opts.domain, RootAt>> /\ r \in there
  BY <1>1 DEF RunAsRoot
<1>2. CASE ~(r = <<"app_user", run.opts.domain, RootAt>> /\ r \in there)
  BY <1>2 DEF RunAsRoot, RunSound, Held
<1> QED BY <1>1, <1>2

(* A row that is there already is passed.                                  *)
LEMMA PassKeeps ==
  ASSUME SeedInv, NEW r, Pass(r)
  PROVE  SeedInv'
<1> StoreSound /\ RunSound /\ InOrder /\ NothingForgotten /\ CalendarsStamped
  BY DEF SeedInv
<1>0. Due(r) /\ Passed(r) /\ trail' = trail /\ runs' = runs /\ cut' = cut
  BY DEF Pass
<1>1. StoreSound'
  BY <1>0, PassRun, StoreKept DEF StoreSound, RowsOnce, SeedTypeOK
<1>2. RunSound'
  BY PassRun, DueIs, <1>0 DEF RunSound, Held, Fields
<1>3. InOrder'
  <2>1. \A s \in Season(run.opts) \cup Template : s \in run.left \ {r} \/ Held(s)
    BY <1>0, SpinePassed DEF InOrder, Due, UnderWay
  <2>2. ASSUME NEW m \in Sketches, Held(<<"model", m>>)
        PROVE  <<"milestone", m>> \in run.left \ {r} \/ Held(<<"milestone", m>>)
    <3>1. CASE r = <<"milestone", m>>
      BY <1>0, <2>2, <3>1 DEF Passed, InStore, After
    <3>2. CASE r # <<"milestone", m>>
      BY <1>0, <2>2, <3>2 DEF InOrder, Due, UnderWay
    <3> QED BY <3>1, <3>2
  <2>3. \A f \in run.left : After(f) # f /\ After(f) \in run.wrote => ~Held(f)
    BY <1>0 DEF InOrder, Due, UnderWay
  <2> QED BY <1>0, <2>1, <2>2, <2>3, PassRun, TakeInOrder DEF InOrder, Held
<1>4. NothingForgotten'
  <2>0. /\ cut' = cut /\ HeldRows' = HeldRows /\ run'.wrote = run.wrote
        /\ run'.left = run.left \ {r} /\ run'.status = "running"
    BY <1>0, PassRun
  <2> SUFFICES ASSUME ~cut, NEW s \in HeldRows, s[1] # "milestone",
                      NEW f \in FollowUps(s)
               PROVE  Held(f) \/ (s \in run.wrote /\ f \in run.left \ {r})
    BY <2>0 DEF NothingForgotten, ToCome, UnderWay, Held
  <2>1. Held(f) \/ (s \in run.wrote /\ f \in run.left)
    BY DEF NothingForgotten, ToCome
  <2>2. CASE f = r /\ s \in run.wrote
    <3>1. Follows(f, s)
      BY FollowUpsOf DEF StoreSound
    <3>2. r[1] \notin {"fact", "moved"}
      BY <2>2, <3>1 DEF Follows, After
    <3> QED BY <1>0, <2>2, <3>1, <3>2 DEF Follows, Passed, Called
  <2> QED BY <2>1, <2>2
<1>5. CalendarsStamped'
  BY <1>0, PassRun, PassKeepsStamps
<1> QED BY <1>1, <1>2, <1>3, <1>4, <1>5 DEF SeedInv

(* An employee whose identifier is taken is skipped.                       *)
LEMMA SkipKeeps ==
  ASSUME SeedInv, NEW r, SkipUser(r)
  PROVE  SeedInv'
<1> StoreSound /\ RunSound /\ InOrder /\ NothingForgotten /\ CalendarsStamped
  BY DEF SeedInv
<1>0. /\ Due(r) /\ r[1] = "app_user" /\ trail' = trail /\ runs' = runs /\ cut' = cut
      /\ r \in run.left /\ r \notin run.wrote
  BY DueIs DEF SkipUser
<1>1. StoreSound'
  BY <1>0, SkipRun, StoreKept DEF StoreSound, RowsOnce, SeedTypeOK
<1>2. RunSound'
  <2>1. run'.actor # Nobody => run'.actor \in HeldRows /\ run'.actor[3] = RootAt
    BY SkipRun, RootIs
  <2>2. run'.drawn \in Nat
    BY SkipRun, NumbersDrawn DEF RunSound
  <2> QED BY <1>0, <2>1, <2>2, SkipRun DEF RunSound, Held, Fields
<1>3. InOrder'
  <2>1. r \notin Season(run.opts) \cup Template /\ \A m \in Sketches : r # <<"milestone", m>>
    BY <1>0 DEF Season, Template
  <2>2. InOrder /\ run.status # "none"
    BY <1>0 DEF Due, UnderWay
  <2> QED BY <1>0, <2>1, <2>2, SkipRun, TakeInOrder DEF InOrder, Held
<1>4. NothingForgotten'
  <2>0. /\ cut' = cut /\ HeldRows' = HeldRows /\ run'.wrote = run.wrote
        /\ run'.left = run.left \ {r} /\ run'.status = "running"
    BY <1>0, SkipRun
  <2> SUFFICES ASSUME ~cut, NEW s \in HeldRows, s[1] # "milestone",
                      NEW f \in FollowUps(s)
               PROVE  Held(f) \/ (s \in run.wrote /\ f \in run.left \ {r})
    BY <2>0 DEF NothingForgotten, ToCome, UnderWay, Held
  <2>1. Held(f) \/ (s \in run.wrote /\ f \in run.left)
    BY DEF NothingForgotten, ToCome
  <2>2. f # r
    <3>1. Follows(f, s)
      BY FollowUpsOf DEF StoreSound
    <3> QED BY <1>0, <3>1 DEF Follows
  <2> QED BY <2>1, <2>2
<1>5. CalendarsStamped'
  BY <1>0, SkipRun, SkipKeepsStamps
<1> QED BY <1>1, <1>2, <1>3, <1>4, <1>5 DEF SeedInv

(* A row is written.                                                       *)
LEMMA WriteKeeps ==
  ASSUME SeedInv, NEW r, Write(r)
  PROVE  SeedInv'
<1> StoreSound /\ RunSound /\ InOrder /\ NothingForgotten /\ CalendarsStamped
  BY DEF SeedInv
<1>0. /\ Due(r) /\ ~Passed(r) /\ runs' = runs /\ cut' = cut /\ ~Held(r)
      /\ run.opts \in Options /\ r \in run.left /\ r \in Plan(run.opts)
      /\ r \notin run.wrote /\ r \notin run.skipped /\ run.status # "none"
  BY DueIs, WriteIsNew DEF Write, Due, UnderWay
<1>1. StoreSound'
  BY WriteKeepsStore
<1>2. RunSound'
  <2>1. run'.actor # Nobody => run'.actor \in HeldRows' /\ run'.actor[3] = RootAt
    <3> DEFINE there == HeldRows \cup {r}
    <3>1. HeldRows \subseteq there /\ HeldRows' = there /\ run'.actor = RunAsRoot(r, there)
      BY WriteRun
    <3> HIDE DEF there
    <3>2. RunAsRoot(r, there) # Nobody =>
            RunAsRoot(r, there) \in there /\ RunAsRoot(r, there)[3] = RootAt
      BY <3>1, RootIs
    <3> QED BY <3>1, <3>2
  <2>2. run'.drawn \in Nat
    <3>1. run.drawn \in Nat /\ IdsOf(r) \in Nat /\ EntriesOf(r) \in Nat
      BY NumbersDrawn DEF RunSound
    <3>2. run'.drawn = run.drawn + IdsOf(r) + EntriesOf(r)
      BY WriteRun
    <3> QED BY <3>1, <3>2
  <2> QED BY <1>0, <2>1, <2>2, WriteRun DEF RunSound, Held, Fields
<1>3. InOrder'
  <2>1. \A s \in Season(run.opts) \cup Template : s \in run.left \ {r} \/ s \in HeldRows \cup {r}
    BY <1>0 DEF InOrder, Held
  <2>2. ASSUME NEW m \in Sketches, <<"model", m>> \in HeldRows \cup {r}
        PROVE  <<"milestone", m>> \in run.left \ {r} \/ <<"milestone", m>> \in HeldRows \cup {r}
    <3>1. CASE Held(<<"model", m>>)
      BY <1>0, <3>1 DEF InOrder, Held
    <3>2. CASE r = <<"model", m>>
      <4>1. <<"milestone", m>> \in Plan(run.opts)
        BY DEF Plan, Heads
      <4>2. Before(Turn(r), Turn(<<"milestone", m>>))
        BY <3>2, CalendarsLater
      <4>3. <<"milestone", m>> \in run.left
        BY <1>0, <4>1, <4>2, DueIs
      <4> QED BY <4>3
    <3> QED BY <2>2, <3>1, <3>2 DEF Held
  <2>3. ASSUME NEW f \in run.left \ {r}, After(f) # f, After(f) \in run.wrote \cup {r}
        PROVE  f \notin HeldRows \cup {r}
    <3>1. CASE After(f) \in run.wrote
      BY <1>0, <2>3, <3>1 DEF InOrder, Held
    <3>2. CASE After(f) = r
      BY <1>0, <2>3, <3>2 DEF StoreSound, Held
    <3> QED BY <2>3, <3>1, <3>2
  <2> QED BY <1>0, <2>1, <2>2, <2>3, WriteRun, TakeInOrder DEF InOrder, Held
<1>4. NothingForgotten'
  <2>0. /\ cut' = cut /\ HeldRows' = HeldRows \cup {r} /\ run'.wrote = run.wrote \cup {r}
        /\ run'.left = run.left \ {r} /\ run'.status = "running"
    BY <1>0, WriteRun
  <2> SUFFICES ASSUME ~cut, NEW s \in HeldRows \cup {r}, s[1] # "milestone",
                      NEW f \in FollowUps(s)
               PROVE  \/ f \in HeldRows \cup {r}
                      \/ s \in run.wrote \cup {r} /\ f \in run.left \ {r}
    BY <2>0 DEF NothingForgotten, ToCome, UnderWay, Held
  <2>1. CASE s \in HeldRows
    BY <2>1 DEF NothingForgotten, ToCome, Held
  <2>2. CASE s = r
    <3>1. r \in Heads(run.opts) /\ f # r
      BY <1>0, <2>2, FollowUpsOf DEF Follows
    <3>2. f \in Plan(run.opts) /\ Before(Turn(r), Turn(f))
      BY <1>0, <2>2, <3>1, FollowUpsLater
    <3> QED BY <1>0, <2>2, <3>1, <3>2, DueIs
  <2> QED BY <2>1, <2>2
<1>5. CalendarsStamped'
  BY WriteKeepsStamps
<1> QED BY <1>1, <1>2, <1>3, <1>4, <1>5 DEF SeedInv

(* A run starts.                                                           *)
LEMMA StartKeeps ==
  ASSUME SeedInv, StartRun
  PROVE  SeedInv'
<1> StoreSound /\ RunSound /\ InOrder /\ NothingForgotten /\ CalendarsStamped
  BY DEF SeedInv
<1>1. PICK o \in Options :
        /\ run' = [NoRun EXCEPT !.opts = o, !.left = Plan(o), !.status = "running"]
        /\ ~UnderWay /\ runs < MaxRuns /\ runs' = runs + 1
        /\ held' = held /\ trail' = trail /\ cut' = cut
  BY DEF StartRun
<1>2. /\ DOMAIN run' = Fields /\ run'.opts = o /\ run'.left = Plan(o) /\ run'.drawn = 0
      /\ run'.wrote = {} /\ run'.skipped = {} /\ run'.actor = Nobody
      /\ run'.status = "running"
  BY <1>1 DEF NoRun, Fields
<1>3. runs' \in 0..MaxRuns
  BY <1>1, PlanAssumption DEF StoreSound, RowsOnce, SeedTypeOK
<1>4. StoreSound' /\ HeldRows' = HeldRows
  BY <1>1, <1>2, <1>3, StoreKept DEF StoreSound, RowsOnce, SeedTypeOK
<1>5. RunSound'
  BY <1>2 DEF RunSound, Fields
<1>6. InOrder'
  <2>1. Season(o) \cup Template \subseteq Plan(o)
    BY DEF Plan, Heads
  <2>2. \A m \in Sketches : <<"milestone", m>> \in Plan(o)
    BY DEF Plan, Heads
  <2> QED BY <1>2, <2>1, <2>2 DEF InOrder
<1>7. NothingForgotten'
  BY <1>1, <1>4 DEF NothingForgotten, ToCome, Held
<1>8. CalendarsStamped'
  <2> SUFFICES ASSUME ~cut, NEW m \in Sketches, Held(<<"milestone", m>>)
               PROVE  \E place \in DropPlaces : StampsOf(m, place)'
    BY <1>1, <1>4 DEF CalendarsStamped, Held
  <2>1. PICK place \in DropPlaces : StampsOf(m, place)
    BY DEF CalendarsStamped
  <2>2. StampsOf(m, place)'
    BY <1>1, <1>2, <1>4, <2>1 DEF StampsOf, ToCome, Held
  <2> QED BY <2>2
<1> QED BY <1>4, <1>5, <1>6, <1>7, <1>8 DEF SeedInv

(* A run that is cut off, or ends, keeps what it holds.                    *)
LEMMA EndKeeps ==
  ASSUME SeedInv, UnderWay, held' = held, trail' = trail, runs' = runs,
         NEW status \in {"done", "failed", "stopped"}, run' = [run EXCEPT !.status = status],
         status = "done" => run.left = {} /\ cut' = cut,
         status # "done" => cut' = TRUE
  PROVE  SeedInv'
<1> StoreSound /\ RunSound /\ InOrder /\ NothingForgotten /\ CalendarsStamped
  BY DEF SeedInv
<1>1. /\ DOMAIN run' = Fields /\ run'.opts = run.opts /\ run'.left = run.left
      /\ run'.drawn = run.drawn /\ run'.wrote = run.wrote /\ run'.skipped = run.skipped
      /\ run'.actor = run.actor /\ run'.status = status
      /\ run.status = "running"
  BY DEF RunSound, Fields, UnderWay
<1>2. StoreSound' /\ HeldRows' = HeldRows
  BY <1>1, StoreKept DEF StoreSound, RowsOnce, SeedTypeOK
<1>3. RunSound'
  BY <1>1, <1>2 DEF RunSound, Fields, Held
<1>4. InOrder'
  BY <1>1, <1>2 DEF InOrder, Held
<1>5. NothingForgotten'
  BY <1>1, <1>2 DEF NothingForgotten, ToCome, Held, UnderWay
<1>6. CalendarsStamped'
  <2> SUFFICES ASSUME status = "done", ~cut, NEW m \in Sketches, Held(<<"milestone", m>>)
               PROVE  \E place \in DropPlaces : StampsOf(m, place)'
    BY <1>2 DEF CalendarsStamped, Held
  <2>1. PICK place \in DropPlaces : StampsOf(m, place)
    BY DEF CalendarsStamped
  <2>2. InDrop(m)' = InDrop(m)
    <3>1. InTable("model")' = InTable("model")
      BY DEF InTable
    <3> QED BY <3>1, PlaceStays
  <2>3. StampsOf(m, place)'
    BY <1>1, <1>2, <2>1, <2>2 DEF StampsOf, ToCome, Held
  <2> QED BY <2>3
<1> QED BY <1>2, <1>3, <1>4, <1>5, <1>6 DEF SeedInv

(* A new store holds the invariant.                                        *)
LEMMA EmptyIsSound == EmptyStore => SeedInv
<1> SUFFICES ASSUME EmptyStore PROVE SeedInv
  OBVIOUS
<1> USE DEF EmptyStore
<1>1. /\ HeldRows = {} /\ run.left = {} /\ run.wrote = {} /\ run.skipped = {}
      /\ run.drawn = 0 /\ run.actor = Nobody /\ run.status = "none" /\ DOMAIN run = Fields
  BY DEF HeldRows, NoRun, Fields
<1>2. SeedTypeOK
  <2>1. runs \in 0..MaxRuns
    BY PlanAssumption
  <2> QED BY <1>1, <2>1 DEF SeedTypeOK
<1>3. NothingTwice /\ RootWroteIt
  BY DEF NothingTwice, RootWroteIt
<1>4. StoreSound
  BY <1>1, <1>2, <1>3 DEF StoreSound, RowsOnce, Held
<1>5. RunSound /\ InOrder /\ NothingForgotten /\ CalendarsStamped
  BY <1>1 DEF RunSound, InOrder, NothingForgotten, CalendarsStamped, Held, Fields
<1> QED BY <1>4, <1>5 DEF SeedInv

(* Every step of the seed keeps it.                                        *)
LEMMA SeedStep == SeedInv /\ [SeedNext]_seedVars => SeedInv'
<1> SUFFICES ASSUME SeedInv, [SeedNext]_seedVars PROVE SeedInv'
  OBVIOUS
<1>1. CASE StartRun
  BY <1>1, StartKeeps
<1>2. ASSUME NEW r, Refuse(r) PROVE SeedInv'
  BY <1>2, EndKeeps DEF Refuse, Due
<1>3. CASE \E r \in run.left : TakeRow(r)
  BY <1>2, <1>3, PassKeeps, WriteKeeps, SkipKeeps DEF TakeRow
<1>4. CASE Stop
  BY <1>4, EndKeeps DEF Stop
<1>5. CASE Finish
  BY <1>5, EndKeeps DEF Finish
<1>6. CASE UNCHANGED seedVars
  <2>1. /\ HeldRows' = HeldRows /\ held' = held /\ trail' = trail /\ run' = run
        /\ runs' = runs /\ cut' = cut /\ InTable("model")' = InTable("model")
    BY <1>6 DEF seedVars, HeldRows, InTable
  <2>2. \A m \in Sketches : InDrop(m)' = InDrop(m)
    BY <2>1, PlaceStays
  <2>3. StoreSound' /\ RunSound' /\ InOrder' /\ NothingForgotten'
    BY <2>1 DEF SeedInv, StoreSound, RunSound, InOrder, NothingForgotten, ToCome, RowsOnce,
        SeedTypeOK, NothingTwice, RootWroteIt, Held, UnderWay
  <2>4. CalendarsStamped'
    BY <2>1, <2>2 DEF SeedInv, CalendarsStamped, StampsOf, ToCome, Held, UnderWay
  <2> QED BY <2>3, <2>4 DEF SeedInv
<1> QED BY <1>1, <1>3, <1>4, <1>5, <1>6 DEF SeedNext

-----------------------------------------------------------------------------
(* The rows, the run and their order stand through every run, however it   *)
(* ends (internal/seed).                                                   *)
THEOREM SeedInvariance == SeedSpec => []SeedInv
BY EmptyIsSound, SeedStep, PTL DEF SeedSpec

(* No row of the seed is there twice, every identifier and every entry is  *)
(* one row's, and everything but an employee is recorded as the work of    *)
(* the root: for every plan, every choice of flags and any number of runs  *)
(* cut off anywhere (Run of internal/seed).                                *)
THEOREM NoRowTwice == SeedSpec => []RowsOnce
<1>1. SeedInv => RowsOnce
  BY DEF SeedInv, StoreSound
<1> QED BY <1>1, SeedInvariance, PTL

(* A run that says it is done left all it was asked for, whatever the runs *)
(* before it left behind; and where none was cut off, nothing that follows *)
(* a row is missing (Run of internal/seed).                                *)
THEOREM DoneLeavesAll == SeedSpec => []DoneIsWhole
<1>1. ASSUME SeedInv, run.status = "done" PROVE Spine(run.opts) \cup Calendars \subseteq HeldRows
  <2>1. run.left = {} /\ InOrder /\ run.status # "none" /\ StoreSound
    BY <1>1 DEF SeedInv, RunSound
  <2>2. Spine(run.opts) \subseteq HeldRows
    BY <2>1, SpineIs DEF InOrder, Held
  <2>3. ASSUME NEW h \in InTable("model") PROVE <<"milestone", h.row[2]>> \in HeldRows
    <3>1. h.row \in HeldRows /\ h.row[1] = "model"
      BY DEF InTable, HeldRows
    <3>2. PICK o \in Options : h.row \in Plan(o)
      BY <2>1, <3>1 DEF StoreSound
    <3>3. PICK m \in Sketches : h.row = <<"model", m>>
      BY <3>1, <3>2, ModelRows
    <3> QED BY <2>1, <3>1, <3>3 DEF InOrder, Held
  <2> QED BY <2>2, <2>3 DEF Calendars
<1>2. ASSUME SeedInv, run.status = "done", ~cut, NEW r \in HeldRows
      PROVE  /\ r[1] = "app_user" /\ r[3] \in Leavers => Held(<<"left", r[2], r[3]>>)
             /\ r[1] = "model" =>
                  \A p \in 1..PhotoStrip(Index(r[2])) : Held(<<"photo", r[2], p>>)
  <2>1. ASSUME r[1] # "milestone", NEW f \in FollowUps(r) PROVE Held(f)
    BY <1>2, <2>1 DEF SeedInv, NothingForgotten, ToCome, UnderWay
  <2>2. ASSUME r[1] = "app_user", r[3] \in Leavers PROVE Held(<<"left", r[2], r[3]>>)
    BY <2>1, <2>2 DEF FollowUps
  <2>3. ASSUME r[1] = "model", NEW p \in 1..PhotoStrip(Index(r[2]))
        PROVE  Held(<<"photo", r[2], p>>)
    BY <2>1, <2>3 DEF FollowUps
  <2> QED BY <2>2, <2>3
<1>3. ASSUME SeedInv, run.status = "done", ~cut, NEW r \in HeldRows, r[1] = "milestone"
      PROVE  \E place \in DropPlaces :
               /\ r \in run.wrote => place = InDrop(r[2])
               /\ StampedAt(r[2], place)
  <2>1. PICK o \in Options : r \in Plan(o)
    BY <1>3 DEF SeedInv, StoreSound
  <2>2. PICK m \in Sketches : r = <<"milestone", m>>
    BY <1>3, <2>1, CalendarRows
  <2>3. PICK place \in DropPlaces : StampsOf(m, place)
    BY <1>3, <2>2 DEF SeedInv, CalendarsStamped, Held
  <2>4. \A f \in FactRows(m, {place}) : Held(f)
    BY <1>3, <2>3 DEF StampsOf, ToCome, UnderWay
  <2>5. ASSUME NEW f, f[1] \in {"fact", "moved"}, f[2] = m, Held(f)
        PROVE  f \in FactRows(m, {place})
    <3>1. PICK p \in Options : f \in Plan(p)
      BY <1>3, <2>5 DEF SeedInv, StoreSound, Held
    <3>2. f \in FactRows(m, DropPlaces)
      BY <2>5, <3>1, CalendarRows
    <3> QED BY <2>3, <2>5, <3>2 DEF StampsOf
  <2>6. ASSUME NEW s \in 1..LastStep
        PROVE  /\ <<m, place, s>> \in Stamped <=> Held(<<"fact", m, s>>)
               /\ <<m, place, s>> \in Slipped <=> Held(<<"moved", m, s>>)
    <3>1. /\ <<"fact", m, s>> \in FactRows(m, {place}) <=> <<m, place, s>> \in Stamped
          /\ <<"moved", m, s>> \in FactRows(m, {place}) <=> <<m, place, s>> \in Slipped
      BY FactRowIs
    <3>2. /\ Held(<<"fact", m, s>>) => <<"fact", m, s>> \in FactRows(m, {place})
          /\ Held(<<"moved", m, s>>) => <<"moved", m, s>> \in FactRows(m, {place})
      BY <2>5
    <3> QED BY <2>4, <3>1, <3>2
  <2>7. r \in run.wrote => place = InDrop(m)
    BY <2>2, <2>3 DEF StampsOf
  <2> QED BY <2>2, <2>6, <2>7 DEF StampedAt
<1>4. SeedInv => DoneIsWhole
  BY <1>1, <1>2, <1>3 DEF DoneIsWhole, DoneHoldsAll, FollowUpsWritten
<1> QED BY <1>4, SeedInvariance, PTL

(* A run that finds the whole of its plan in the store has nothing to do:  *)
(* it writes no row and no entry, and nothing refuses it (README.md:60).   *)
THEOREM NothingLeftToDo == SeedSpec => RerunWritesNothing
<1>1. ASSUME SeedInv, AllThere, run.wrote = {}, NEW r, Due(r), ~Passed(r)
      PROVE  r[1] = "app_user" /\ Held(r)
  <2>1. /\ StoreSound /\ RunSound /\ InOrder
        /\ r \in Plan(run.opts)
    BY <1>1, DueIs DEF SeedInv
  <2>2. r \in Heads(run.opts) /\ After(r) = r
    <3>1. After(r) = r
      BY <1>1 DEF Passed
    <3> QED BY <2>1, <3>1, PlanIs DEF Follows
  <2>3. CASE r \in People(run.opts)
    BY <1>1, <2>3 DEF People, AllThere
  <2>4. CASE r \in Season(run.opts) \cup Template
    BY <1>1, <2>1, <2>4, SpinePassed, SpineIs DEF AllThere, Held
  <2>5. CASE r \in {<<"milestone", m>> : m \in Sketches}
    <3>1. PICK m \in Sketches : r = <<"milestone", m>>
      BY <2>5
    <3>2. Held(<<"model", m>>) /\ ~Held(r)
      BY <1>1, <2>2, <3>1 DEF Passed, InStore
    <3>3. PICK h \in InTable("model") : h.row = <<"model", m>>
      BY <3>2 DEF Held, HeldRows, InTable
    <3>4. r \in Calendars
      BY <3>1, <3>3 DEF Calendars
    <3> QED BY <1>1, <3>2, <3>4 DEF AllThere, Held
  <2> QED BY <2>2, <2>3, <2>4, <2>5 DEF Heads
<1>2. SeedInv /\ [SeedNext]_seedVars =>
        [UnderWay /\ AllThere /\ run.wrote = {} =>
          held' = held /\ trail' = trail /\ run'.status # "failed"]_seedVars
  <2> SUFFICES ASSUME SeedInv, SeedNext, UnderWay, AllThere, run.wrote = {}
               PROVE  held' = held /\ trail' = trail /\ run'.status # "failed"
    OBVIOUS
  <2>0. RunSound /\ run.status = "running"
    BY DEF SeedInv, UnderWay
  <2>1. CASE StartRun
    BY <2>1 DEF StartRun
  <2>2. ASSUME NEW r, TakeRow(r)
        PROVE  held' = held /\ trail' = trail /\ run'.status # "failed"
    <3>1. CASE Pass(r)
      BY <2>0, <3>1, PassRun DEF Pass
    <3>2. CASE SkipUser(r)
      BY <2>0, <3>2, SkipRun DEF SkipUser
    <3>3. CASE Write(r)
      BY <1>1, <3>3 DEF Write
    <3>4. CASE Refuse(r)
      BY <1>1, <3>4 DEF Refuse
    <3> QED BY <2>2, <3>1, <3>2, <3>3, <3>4 DEF TakeRow
  <2>3. CASE Stop
    BY <2>0, <2>3 DEF Stop, RunSound
  <2>4. CASE Finish
    BY <2>0, <2>4 DEF Finish, RunSound
  <2> QED BY <2>1, <2>2, <2>3, <2>4 DEF SeedNext
<1> QED BY <1>2, SeedInvariance, PTL DEF SeedSpec, RerunWritesNothing

-----------------------------------------------------------------------------
(* The facts the seed stamps.                                              *)

(* A part of a path that holds what comes before everything it holds is    *)
(* the path up to some step.                                               *)
LEMMA FirstSteps ==
  ASSUME NEW length \in Nat, NEW S \in SUBSET (1..length),
         \A s \in S : \A t \in 1..s : t \in S
  PROVE  \E k \in 0..length : S = 1..k
<1> DEFINE Out == (1..(length + 1)) \ S
<1>1. Out \in SUBSET Nat /\ length + 1 \in Out
  OBVIOUS
<1> HIDE DEF Out
<1>2. PICK least \in Out : \A n \in Out : <<n, least>> \notin OpToRel(<, Nat)
  BY <1>1, NatLessThanWellFounded, WFMin, Zenon
<1>3. ASSUME NEW n \in Out PROVE ~(n < least)
  BY <1>1, <1>2, <1>3, Zenon DEF OpToRel
<1>4. least \in 1..(length + 1) /\ least \notin S
  BY <1>2 DEF Out
<1>5. \A n \in 1..(least - 1) : n \in S
  <2> SUFFICES ASSUME NEW n \in 1..(least - 1), n \notin S PROVE FALSE
    OBVIOUS
  <2>1. n \in Out /\ n < least
    BY <1>4 DEF Out
  <2> QED BY <1>3, <2>1
<1>6. \A s \in S : s < least
  <2> SUFFICES ASSUME NEW s \in S, least <= s PROVE FALSE
    BY <1>4
  <2>1. least \in 1..s
    BY <1>4
  <2> QED BY <1>4, <2>1
<1>7. least - 1 \in 0..length
  BY <1>4
<1>8. \A s \in S : s \in 1..(least - 1)
  BY <1>4, <1>6
<1>9. S = 1..(least - 1)
  BY <1>5, <1>8
<1> QED BY <1>7, <1>9

(* The steps that have passed come first in the path, since its offsets    *)
(* run forwards.                                                           *)
LEMMA PastComesFirst ==
  ASSUME NEW target \in Int, NEW day \in Int
  PROVE  \E k \in 0..Len(Path) : Past(target, day) = 1..k
<1>1. Len(Path) \in Nat /\ DOMAIN Path = 1..Len(Path) /\ \A s \in DOMAIN Path : Path[s] \in Int
  BY FactsAssumption
<1>2. ASSUME NEW s \in Past(target, day), NEW t \in 1..s PROVE t \in Past(target, day)
  <2>1. s \in DOMAIN Path /\ t \in DOMAIN Path
    BY <1>1 DEF Past
  <2>2. Path[t] <= Path[s]
    <3>1. t < s => Path[t] <= Path[s]
      BY <2>1, FactsAssumption
    <3>2. t = s \/ t < s
      BY <1>1, <2>1
    <3>3. Path[s] <= Path[s]
      BY <1>1, <2>1
    <3> QED BY <3>1, <3>2, <3>3
  <2> QED BY <1>1, <2>1, <2>2 DEF Past, Promise
<1>3. Past(target, day) \in SUBSET (1..Len(Path))
  BY <1>1 DEF Past
<1> QED BY <1>1, <1>2, <1>3, FirstSteps

(* openSteps never asks for less than no step.                             *)
LEMMA OpenIsNat ==
  ASSUME NEW drop \in DOMAIN LateAt, NEW index \in Nat
  PROVE  OpenSteps(drop, index) \in Nat
<1>1. LateAt[drop] \subseteq Nat \X Nat
  BY FactsAssumption
<1>2. CASE \E late \in LateAt[drop] : late[1] = index
  <2>1. (CHOOSE late \in LateAt[drop] : late[1] = index) \in LateAt[drop]
    BY <1>2
  <2> QED BY <1>1, <1>2, <2>1 DEF OpenSteps
<1>3. CASE ~\E late \in LateAt[drop] : late[1] = index
  BY <1>3 DEF OpenSteps
<1> QED BY <1>2, <1>3

(* Of the steps that have passed, all but the last open ones are stamped.  *)
LEMMA StampedComeFirst ==
  ASSUME NEW target \in Int, NEW day \in Int, NEW open \in Nat, NEW k \in Nat,
         Past(target, day) = 1..k
  PROVE  Done(target, open, day) = 1..(k - open)
<1>1. ASSUME NEW s \in 1..k
      PROVE  (\A t \in (s + 1)..(s + open) : t \in 1..k) <=> s + open <= k
  <2>1. ASSUME \A t \in (s + 1)..(s + open) : t \in 1..k PROVE s + open <= k
    <3>1. CASE open = 0
      BY <3>1
    <3>2. CASE open # 0
      <4>1. s + open \in (s + 1)..(s + open)
        BY <3>2
      <4>2. s + open \in 1..k
        BY <2>1, <4>1
      <4> QED BY <4>2
    <3> QED BY <3>1, <3>2
  <2> QED BY <2>1
<1>2. Done(target, open, day) =
        {s \in 1..k : \A t \in (s + 1)..(s + open) : t \in 1..k}
  BY DEF Done
<1>3. Done(target, open, day) = {s \in 1..k : s + open <= k}
  BY <1>1, <1>2
<1> QED BY <1>3

(* A stamp is on the day of the seed at the latest.                        *)
LEMMA NoFactAheadOfToday ==
  ASSUME NEW target \in Int, NEW day \in Int, NEW index \in Nat, NEW s \in DOMAIN Path
  PROVE  Fact(target, index, s, day) \in Int /\ Fact(target, index, s, day) <= day
<1>1. s \in Nat \ {0} /\ Path[s] \in Int
  BY FactsAssumption
<1>2. Len(Jitter) \in Nat \ {0} /\ \A n \in 1..Len(Jitter) : Jitter[n] \in Int
  BY FactsAssumption
<1>3. index + s - 1 \in Nat
  BY <1>1
<1> DEFINE n == (index + s - 1) % Len(Jitter)
<1>4. n \in 0..(Len(Jitter) - 1)
  BY <1>2, <1>3
<1>5. n + 1 \in 1..Len(Jitter)
  BY <1>2, <1>4
<1>6. Jitter[n + 1] \in Int
  BY <1>2, <1>5
<1> HIDE DEF n
<1>7. Fact(target, index, s, day) =
        IF Promise(target, s) + Jitter[n + 1] > day THEN day
        ELSE Promise(target, s) + Jitter[n + 1]
  BY DEF Fact, LandedOn, n
<1>8. Promise(target, s) \in Int
  BY <1>1 DEF Promise
<1> QED BY <1>6, <1>7, <1>8

(* Whatever day the seed runs on and whatever its drops aim at, it stamps  *)
(* no fact the app refuses, and leaves as many steps late as it names      *)
(* (milestones.go:341, milestones.go:210).                                 *)
THEOREM SeededFactsFit ==
  ASSUME NEW targets \in SUBSET Int, NEW days \in SUBSET Int, NEW indexes \in SUBSET Nat
  PROVE  FactsFit(targets, days, indexes)
<1> SUFFICES ASSUME NEW target \in targets, NEW day \in days, NEW index \in indexes,
                    NEW drop \in DOMAIN LateAt
             PROVE  LET open == OpenSteps(drop, index)
                        past == Cardinality(Past(target, day))
                    IN  /\ \A s \in Done(target, open, day) : Fact(target, index, s, day) <= day
                        /\ Cardinality(LateSteps(target, index, open, day)) =
                             IF past < open THEN past ELSE open
  BY DEF FactsFit
<1> DEFINE open == OpenSteps(drop, index)
           past == Cardinality(Past(target, day))
           late == LateSteps(target, index, open, day)
<1>1. target \in Int /\ day \in Int /\ index \in Nat /\ open \in Nat
  BY OpenIsNat
<1>2. PICK k \in 0..Len(Path) : Past(target, day) = 1..k
  BY <1>1, PastComesFirst
<1>3. Len(Path) \in Nat /\ DOMAIN Path = 1..Len(Path) /\ k \in Nat
  BY <1>2, FactsAssumption
<1>4. Done(target, open, day) = 1..(k - open)
  BY <1>1, <1>2, <1>3, StampedComeFirst
<1>5. \A s \in Done(target, open, day) : Fact(target, index, s, day) <= day
  <2>1. \A s \in Done(target, open, day) : s \in DOMAIN Path
    BY <1>1, <1>2, <1>3, <1>4
  <2> QED BY <1>1, <2>1, NoFactAheadOfToday
<1>6. late = (1..k) \ (1..(k - open))
  <2>1. \A s \in DOMAIN Path \ Done(target, open, day) :
          PlanOf(target, index, open, s, day) = Promise(target, s)
    BY DEF PlanOf
  <2>2. \A s \in DOMAIN Path : Promise(target, s) < day <=> s \in 1..k
    BY <1>2 DEF Past
  <2>3. 1..k \subseteq DOMAIN Path
    BY <1>2, <1>3
  <2> QED BY <1>4, <2>1, <2>2, <2>3 DEF LateSteps
<1>7. past = k
  BY <1>2, <1>3, FS_Interval
<1> HIDE DEF open, past, late
<1>8. Cardinality(late) = IF past < open THEN past ELSE open
  <2>1. CASE k < open
    <3>1. late = 1..k
      BY <1>1, <1>3, <1>6, <2>1 DEF open
    <3>2. Cardinality(late) = k
      BY <1>3, <3>1, FS_Interval
    <3> QED BY <1>7, <2>1, <3>2
  <2>2. CASE ~(k < open)
    <3>1. late = (k - open + 1)..k
      BY <1>1, <1>3, <1>6, <2>2 DEF open
    <3>2. k - open + 1 \in Int /\ k \in Int /\ open \in Nat
      BY <1>1, <1>3 DEF open
    <3>3. Cardinality((k - open + 1)..k) =
            IF k - open + 1 > k THEN 0 ELSE k - (k - open + 1) + 1
      BY <3>2, FS_Interval
    <3>4. Cardinality(late) = open
      BY <3>1, <3>2, <3>3
    <3> QED BY <1>3, <1>7, <2>2, <3>2, <3>4
  <2> QED BY <2>1, <2>2
<1> QED BY <1>5, <1>8 DEF open, past, late

(* The row of a stamped step is of a step that has passed.                 *)
LEMMA StampsAreDone ==
  ASSUME NEW f \in Stamped
  PROVE  /\ f[1] \in Sketches /\ f[2] \in DropPlaces /\ f = <<f[1], f[2], f[3]>>
         /\ f[3] \in DOMAIN Path
         /\ f \in Slipped <=> Moved(GoodsOf(f[1]), f[2], f[3], Today)
<1>1. f \in Sketches \X DropPlaces \X (1..LastStep)
  BY StampsAssumption
<1>2. /\ f[1] \in Sketches /\ f[2] \in DropPlaces /\ f[3] \in 1..LastStep
      /\ f = <<f[1], f[2], f[3]>>
  BY <1>1
<1>3. DOMAIN Path = 1..LastStep
  BY StampsAssumption, FactsAssumption
<1> QED BY <1>2, <1>3, StampsAssumption

(* The steps that read as late from the rows are those SeedFacts leaves.   *)
LEMMA LateFromTheRows ==
  ASSUME NEW m \in Sketches, NEW place \in DropPlaces
  PROVE  ReadLate(m, place) = LateSteps(GoodsOf(m), place, OpenOf(m, place), Today)
<1> DEFINE done == Done(GoodsOf(m), OpenOf(m, place), Today)
<1>1. DOMAIN Path = 1..LastStep
  BY StampsAssumption, FactsAssumption
<1>2. \A s \in 1..LastStep : <<m, place, s>> \in Stamped <=> s \in done
  BY StampsAssumption
<1>3. \A s \in 1..LastStep : s \notin done => <<m, place, s>> \notin Slipped
  BY <1>2, StampsAssumption
<1>4. \A s \in 1..LastStep : s \notin done =>
        /\ PlanDay(m, place, s) = Promise(GoodsOf(m), s)
        /\ PlanOf(GoodsOf(m), place, OpenOf(m, place), s, Today) = Promise(GoodsOf(m), s)
  BY <1>3 DEF PlanDay, PlanOf
<1> QED BY <1>1, <1>2, <1>4 DEF ReadLate, LateSteps

(* In every state: the rows of the facts are ones the app takes, and leave *)
(* the steps late that the seed names and no other, on this day and on all *)
(* the others (milestones.go:210, milestones.go:341).                      *)
THEOREM FactsAlwaysLand == SeedSpec => []FactsLand
<1>1. ASSUME NEW f \in Stamped
      PROVE  /\ FactDay(f[1], f[2], f[3]) <= Today
             /\ FactDay(f[1], f[2], f[3]) <= PlanDay(f[1], f[2], f[3])
  <2>1. PICK m, place, s : m = f[1] /\ place = f[2] /\ s = f[3]
    OBVIOUS
  <2>2. /\ m \in Sketches /\ place \in Nat /\ f = <<m, place, s>> /\ s \in DOMAIN Path
        /\ f \in Slipped <=> Moved(GoodsOf(m), place, s, Today)
    BY <2>1, StampsAreDone DEF DropPlaces
  <2>3. GoodsOf(m) \in Int /\ Today \in Int
    BY <2>2, DaysAssumption
  <2>4. FactDay(m, place, s) \in Int /\ FactDay(m, place, s) <= Today
    BY <2>2, <2>3, NoFactAheadOfToday DEF FactDay
  <2>5. Promise(GoodsOf(m), s) \in Int
    BY <2>2, <2>3, FactsAssumption DEF Promise
  <2>6. FactDay(m, place, s) <= PlanDay(m, place, s)
    <3>1. CASE f \in Slipped
      BY <2>2, <2>4, <3>1 DEF PlanDay
    <3>2. CASE f \notin Slipped
      <4>1. ~(FactDay(m, place, s) > Promise(GoodsOf(m), s))
        BY <2>2, <3>2 DEF Moved, FactDay
      <4> QED BY <2>2, <2>4, <2>5, <3>2, <4>1 DEF PlanDay
    <3> QED BY <3>1, <3>2
  <2> QED BY <2>1, <2>4, <2>6
<1>2. ASSUME NEW m \in Sketches, NEW place \in DropPlaces
      PROVE  LET past == Cardinality(Past(GoodsOf(m), Today))
                 open == OpenOf(m, place)
             IN  Cardinality(ReadLate(m, place)) = IF past < open THEN past ELSE open
  <2>1. PICK target, drop : target = GoodsOf(m) /\ drop = m[1][1]
    OBVIOUS
  <2>2. PICK targets, days, indexes : targets = {target} /\ days = {Today} /\ indexes = {place}
    OBVIOUS
  <2>3. targets \in SUBSET Int /\ days \in SUBSET Int /\ indexes \in SUBSET Nat
    BY <2>1, <2>2, DaysAssumption DEF DropPlaces
  <2>4. FactsFit(targets, days, indexes)
    BY <2>3, SeededFactsFit
  <2>5. drop \in DOMAIN LateAt /\ target \in targets /\ Today \in days /\ place \in indexes
    BY <2>1, <2>2, DaysAssumption
  <2>6. LET open == OpenSteps(drop, place)
            past == Cardinality(Past(target, Today))
        IN  Cardinality(LateSteps(target, place, open, Today)) = IF past < open THEN past ELSE open
    BY <2>4, <2>5, Zenon DEF FactsFit
  <2>7. ReadLate(m, place) = LateSteps(target, place, OpenSteps(drop, place), Today)
    BY <2>1, LateFromTheRows DEF OpenOf
  <2> QED BY <2>1, <2>6, <2>7 DEF OpenOf
<1>3. FactsFit(Targets, Days, Places)
  <2>1. Targets \in SUBSET Int /\ Days \in SUBSET Int /\ Places \in SUBSET Nat
    BY DaysAssumption
  <2> QED BY <2>1, SeededFactsFit
<1>4. FactsLand
  BY <1>1, <1>2, <1>3, Zenon DEF FactsLand
<1> QED BY <1>4, PTL
=============================================================================
