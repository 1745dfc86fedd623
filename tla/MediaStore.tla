------------------------------ MODULE MediaStore ------------------------------
(***************************************************************************)
(* The media store on a file system (internal/platform/media/local.go):    *)
(* the calls of Put as system calls, and what a process that dies and a    *)
(* power loss leave of them.                                               *)
(*                                                                         *)
(* A key is the content, so a file is told by how much of its content it   *)
(* holds.  What is written is in the memory of the kernel: Sync brings the *)
(* bytes of one file to the disk, a rename reaches the disk when the       *)
(* kernel sees fit, because nothing flushes the directory.  A process that *)
(* dies takes nothing with it; a power loss takes what is not on the disk. *)
(***************************************************************************)
EXTENDS Integers

CONSTANTS
  Clients,      \* the requests the server runs at a time
  Keys,         \* contents, which are the names files are stored under
  NoKey,        \* no answer
  Size,         \* per key, the pieces its content comes in
  MaxSize,      \* policy: the most pieces of a stored file
  Accepted      \* policy: the contents whose sniffed type is accepted

ASSUME MediaAssumption ==
  /\ NoKey \notin Keys /\ Accepted \subseteq Keys
  /\ Size \in [Keys -> Nat] /\ MaxSize \in Nat

VARIABLES
  named,    \* the files under their keys, as the running kernel shows them
  entries,  \* the keys whose directory entry is on the disk
  temps,    \* the temporary file of each call
  put       \* where the call of each client stands

mediaVars == <<named, entries, temps, put>>

-----------------------------------------------------------------------------
File == [bytes : Nat, synced : Nat]

NoFile == [bytes |-> -1, synced |-> -1]

Names == {k \in Keys : named[k] # NoFile}

Idle == [step |-> "none", key |-> NoKey]

Running == {"copy", "flush", "publish"}

Results == {"stored", "refused", "failed"}

(* Every type of the variables of the store.                               *)
MediaTypeOK ==
  /\ named \in [Keys -> File \cup {NoFile}]
  /\ entries \subseteq Keys
  /\ temps \in [Clients -> File \cup {NoFile}]
  /\ put \in [Clients -> [step : {"none"} \cup Running \cup Results, key : Keys \cup {NoKey}]]

MediaInit ==
  /\ named = [k \in Keys |-> NoFile] /\ entries = {}
  /\ temps = [c \in Clients |-> NoFile]
  /\ put = [c \in Clients |-> Idle]

-----------------------------------------------------------------------------
(* Put.                                                                    *)

In(c, step) == put[c].step = step

Move(c, step) == put' = [put EXCEPT ![c].step = step]

(* The deferred call: closed, and removed unless it was renamed away.      *)
DropTemp(c) == temps' = [temps EXCEPT ![c] = NoFile]

(* The type is settled on the head of the content, before there is a file. *)
OpenPut(c, k) ==
  /\ In(c, "none")
  /\ IF k \in Accepted
     THEN /\ temps' = [temps EXCEPT ![c] = [bytes |-> 0, synced |-> 0]]
          /\ put' = [put EXCEPT ![c] = [step |-> "copy", key |-> k]]
     ELSE /\ put' = [put EXCEPT ![c] = [step |-> "refused", key |-> k]]
          /\ UNCHANGED temps
  /\ UNCHANGED <<named, entries>>

(* The reader is limited to one byte more than the policy allows.          *)
Copied(k) == IF Size[k] < MaxSize + 1 THEN Size[k] ELSE MaxSize + 1

Copy(c) ==
  /\ In(c, "copy") /\ temps[c].bytes < Copied(put[c].key)
  /\ temps' = [temps EXCEPT ![c].bytes = @ + 1]
  /\ UNCHANGED <<named, entries, put>>

(* The whole content is read: too large, stored already, or to be stored.  *)
EndCopy(c) ==
  LET k == put[c].key
  IN  /\ In(c, "copy") /\ temps[c].bytes = Copied(k)
      /\ \/ /\ temps[c].bytes > MaxSize
            /\ Move(c, "refused") /\ DropTemp(c)
         \/ /\ temps[c].bytes <= MaxSize /\ k \in Names
            /\ Move(c, "stored") /\ DropTemp(c)
         \/ /\ temps[c].bytes <= MaxSize /\ k \notin Names
            /\ Move(c, "flush") /\ UNCHANGED temps
      /\ UNCHANGED <<named, entries>>

\* Mutant: the file is renamed without being flushed.
FlushNothing(c) ==
  /\ In(c, "flush")
  /\ Move(c, "publish")
  /\ UNCHANGED <<named, entries, temps>>

Flush(c) ==
  /\ In(c, "flush")
  /\ temps' = [temps EXCEPT ![c].synced = temps[c].bytes]
  /\ Move(c, "publish")
  /\ UNCHANGED <<named, entries>>

(* Rename, over the file another call has published since this one looked. *)
Publish(c) ==
  /\ In(c, "publish")
  /\ named' = [named EXCEPT ![put[c].key] = temps[c]]
  /\ Move(c, "stored") /\ DropTemp(c)
  /\ UNCHANGED entries

\* Mutant: the key is answered although the call failed.
FailPutStored(c) ==
  /\ put[c].step \in Running
  /\ Move(c, "stored") /\ DropTemp(c)
  /\ UNCHANGED <<named, entries>>

(* Any of the calls fails, or the request is given up.                     *)
FailPut(c) ==
  /\ put[c].step \in Running
  /\ Move(c, "failed") /\ DropTemp(c)
  /\ UNCHANGED <<named, entries>>

(* The caller takes the answer.                                            *)
Take(c) ==
  /\ put[c].step \in Results
  /\ put' = [put EXCEPT ![c] = Idle]
  /\ UNCHANGED <<named, entries, temps>>

PutStep(c) == Copy(c) \/ EndCopy(c) \/ Flush(c) \/ Publish(c) \/ FailPut(c)

-----------------------------------------------------------------------------
(* What surrounds the calls.                                               *)

(* The kernel writes a directory out.                                      *)
Persist ==
  /\ \E k \in Names \ entries : entries' = entries \cup {k}
  /\ UNCHANGED <<named, temps, put>>

(* The process is gone, and its calls with it.  What it wrote stays, in    *)
(* files under their keys and in temporary files nothing reads again.      *)
Die ==
  /\ temps' = [c \in Clients |-> NoFile]
  /\ put' = [c \in Clients |-> Idle]
  /\ UNCHANGED <<named, entries>>

(* The power goes: a name that is not on the disk may be gone, and a file  *)
(* has any of its bytes beyond those that were flushed.                    *)
LosePower ==
  \E kept \in SUBSET Names : \E bytes \in [kept -> 0..MaxSize] :
    /\ entries \subseteq kept
    /\ \A k \in kept : named[k].synced <= bytes[k] /\ bytes[k] <= named[k].bytes
    /\ named' = [k \in Keys |-> IF k \in kept
                                THEN [bytes |-> bytes[k], synced |-> bytes[k]]
                                ELSE NoFile]
    /\ entries' = kept
    /\ temps' = [c \in Clients |-> NoFile]
    /\ put' = [c \in Clients |-> Idle]

(* An operator unpacks an archive of whole files in the place of the tree. *)
Unpack(archive) ==
  /\ named' = [k \in Keys |-> IF k \in archive THEN [bytes |-> Size[k], synced |-> Size[k]]
                                              ELSE NoFile]
  /\ entries' = archive
  /\ UNCHANGED <<temps, put>>

-----------------------------------------------------------------------------
(* Properties.                                                             *)

Whole(k) == named[k].bytes = Size[k]

(* A name is a whole file of an accepted type and size, whatever was cut   *)
(* short, written twice at a time, or lost with the power: a crash cannot  *)
(* leave a named but empty blob, and a later Put relies on the name alone. *)
NamedIsWhole ==
  \A k \in Names : k \in Accepted /\ Whole(k) /\ Size[k] <= MaxSize

(* Every way out of Put that does not rename the temporary file away       *)
(* removes it; only a process that dies leaves one.                        *)
TempsRemoved ==
  \A c \in Clients : temps[c] # NoFile => put[c].step \in Running

Blobs == INSTANCE BlobStore WITH
  stored <- {k \in Names : Whole(k)},
  kept   <- entries,
  answer <- [c \in Clients |-> IF In(c, "stored") THEN put[c].key ELSE NoKey]

(* The calls on the file system are a store of blobs: a key is answered    *)
(* when its file is whole, and only a power loss or an operator takes one  *)
(* away.                                                                   *)
StoresBlobs == Blobs!Spec
=============================================================================
