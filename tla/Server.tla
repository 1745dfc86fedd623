-------------------------------- MODULE Server --------------------------------
(***************************************************************************)
(* The process of pilam serve (cmd/pilam/serve.go) from its start to its   *)
(* exit, the uploads it runs on the media store and the table of photos,   *)
(* and the nightly backup beside it (deploy/backup.sh).                    *)
(*                                                                         *)
(* A handler waits for the browser, for the file system and for the        *)
(* database.  A stop waits for the handlers, the grace period at most, and *)
(* then for the connections they hold; what still runs dies with the       *)
(* process.                                                                *)
(***************************************************************************)
EXTENDS MediaStore, Sequences, FiniteSets

CONSTANTS
  MaxRequests,  \* bound: how many requests there are in a behaviour
  MaxStarts,    \* bound: how often the process is started
  MaxOutages,   \* bound: how often the power goes
  MaxBackups    \* bound: how many backups are taken

ASSUME ServerAssumption ==
  /\ MaxRequests \in Nat /\ MaxStarts \in Nat /\ MaxOutages \in Nat /\ MaxBackups \in Nat

VARIABLES
  phase,    \* where the process stands
  signal,   \* a signal to stop has reached it
  exit,     \* what it is about to exit with, or has exited with
  req,      \* where each client stands in its request
  rows,     \* the keys the committed rows of model_photo name
  lost,     \* the keys whose name a power loss took
  backup,   \* the backup that is being taken, or the last one
  count     \* requests, starts, outages and backups so far

serverVars == <<phase, signal, exit, req, rows, lost, backup, count>>

vars == <<named, entries, temps, put, phase, signal, exit, req, rows, lost, backup, count>>

-----------------------------------------------------------------------------
Phases == {"down", "opening", "serving", "draining", "closing"}

Steps == {"idle", "form", "put", "begin", "commit", "serve"}

Counted == {"requests", "starts", "outages", "backups"}

(* Every type of the variables.                                            *)
TypeOK ==
  /\ MediaTypeOK
  /\ phase \in Phases /\ signal \in BOOLEAN
  /\ req \in [Clients -> [step : Steps, key : Keys \cup {NoKey}]]
  /\ rows \subseteq Keys /\ lost \subseteq Keys
  /\ exit \in {"none", "clean", "error"}
  /\ Len(backup.left) <= 3 /\ backup.dump \subseteq Keys
  /\ backup.listed \subseteq Keys /\ backup.archive \subseteq Keys
  /\ count \in [Counted -> Nat]

NoBackup == [left |-> <<>>, dump |-> {}, listed |-> {}, archive |-> {}]

Init ==
  /\ MediaInit
  /\ phase = "down" /\ signal = FALSE /\ exit = "none"
  /\ req = [c \in Clients |-> [step |-> "idle", key |-> NoKey]]
  /\ rows = {} /\ lost = {}
  /\ backup = NoBackup
  /\ count = [n \in Counted |-> 0]

Tick(n, bound) == count[n] < bound /\ count' = [count EXCEPT ![n] = @ + 1]

-----------------------------------------------------------------------------
(* Requests.                                                               *)

At(c, step) == req[c].step = step

Goto(c, step) == req' = [req EXCEPT ![c].step = step]

Answer(c) ==
  req' = [req EXCEPT ![c] = [step |-> "idle", key |-> NoKey]]

(* The listener takes a request for as long as it is open.                 *)
Listening == phase = "serving"

(* A form of one file, on its way from the browser.                        *)
Upload(c) ==
  /\ At(c, "idle") /\ Listening /\ Tick("requests", MaxRequests)
  /\ \E k \in Keys :
       req' = [req EXCEPT ![c] = [step |-> "form", key |-> k]]
  /\ UNCHANGED <<mediaVars, phase, signal, exit, rows, lost, backup>>

(* The form is there in full, and the file goes to the store.              *)
ReceiveForm(c) ==
  /\ At(c, "form")
  /\ OpenPut(c, req[c].key)
  /\ Goto(c, "put")
  /\ UNCHANGED <<phase, signal, exit, rows, lost, backup, count>>

(* The browser goes away, or sends what is no form.                        *)
BreakForm(c) ==
  /\ At(c, "form")
  /\ Answer(c)
  /\ UNCHANGED <<mediaVars, phase, signal, exit, rows, lost, backup, count>>

StoreFile(c) ==
  /\ At(c, "put") /\ PutStep(c)
  /\ UNCHANGED serverVars

\* Mutant: a file that could not be stored leaves the handler without an answer.
TakeStoredOnly(c) ==
  /\ At(c, "put") /\ Take(c) /\ ~In(c, "failed")
  /\ IF In(c, "stored") THEN Goto(c, "begin") ELSE Answer(c)
  /\ UNCHANGED <<phase, signal, exit, rows, lost, backup, count>>

\* Mutant: the error of a call that failed is not looked at.
TakeAny(c) ==
  /\ At(c, "put") /\ Take(c)
  /\ IF ~In(c, "refused") THEN Goto(c, "begin") ELSE Answer(c)
  /\ UNCHANGED <<phase, signal, exit, rows, lost, backup, count>>

(* The file has a key, is one the store refuses, or could not be stored.   *)
TakeStored(c) ==
  /\ At(c, "put") /\ Take(c)
  /\ IF In(c, "stored") THEN Goto(c, "begin") ELSE Answer(c)
  /\ UNCHANGED <<phase, signal, exit, rows, lost, backup, count>>

(* A transaction takes a connection of the pool, which a closed pool does  *)
(* not give.                                                               *)
BeginTx(c) ==
  /\ At(c, "begin")
  /\ IF phase \in {"serving", "draining"} THEN Goto(c, "commit") ELSE Answer(c)
  /\ UNCHANGED <<mediaVars, phase, signal, exit, rows, lost, backup, count>>

CommitRow(c) ==
  /\ At(c, "commit")
  /\ \/ /\ rows' = rows \cup {req[c].key}
        /\ Answer(c)
     \/ /\ Answer(c)
        /\ UNCHANGED rows
  /\ UNCHANGED <<mediaVars, phase, signal, exit, lost, backup, count>>

(* A browser fetches a photo that is there, and is sent the file that was  *)
(* opened for as long as it takes.                                         *)
ServeMedia(c) ==
  /\ At(c, "idle") /\ Listening /\ Tick("requests", MaxRequests)
  /\ \E k \in Names : req' = [req EXCEPT ![c] = [step |-> "serve", key |-> k]]
  /\ UNCHANGED <<mediaVars, phase, signal, exit, rows, lost, backup>>

SendMedia(c) ==
  /\ At(c, "serve")
  /\ Answer(c)
  /\ UNCHANGED <<mediaVars, phase, signal, exit, rows, lost, backup, count>>

-----------------------------------------------------------------------------
(* The process.                                                            *)

Start ==
  /\ phase = "down" /\ Tick("starts", MaxStarts)
  /\ phase' = "opening" /\ signal' = FALSE /\ exit' = "none"
  /\ UNCHANGED <<mediaVars, req, rows, lost, backup>>

(* SIGINT or SIGTERM; a second one finds the context cancelled already.    *)
Signal ==
  /\ phase # "down" /\ ~signal
  /\ signal' = TRUE
  /\ UNCHANGED <<mediaVars, phase, exit, req, rows, lost, backup, count>>

(* The pool answers a ping and the store has its directory, or the process *)
(* ends on what it lacks; a cancelled context ends the ping.               *)
OpenStores ==
  /\ phase = "opening"
  /\ \/ phase' = "serving" /\ ~signal /\ UNCHANGED exit
     \/ phase' = "down" /\ exit' = "error"
  /\ UNCHANGED <<mediaVars, signal, req, rows, lost, backup, count>>

(* The listener cannot listen: no Shutdown, and no grace.                  *)
ListenFails ==
  /\ phase = "serving"
  /\ phase' = "closing" /\ exit' = "error"
  /\ UNCHANGED <<mediaVars, signal, req, rows, lost, backup, count>>

(* Shutdown closes the listener, and waits ...                             *)
Shutdown ==
  /\ phase = "serving" /\ signal
  /\ phase' = "draining"
  /\ UNCHANGED <<mediaVars, signal, exit, req, rows, lost, backup, count>>

Drained == \A c \in Clients : At(c, "idle")

\* Mutant: the error of Shutdown is dropped.
AwaitHandlersQuietly ==
  /\ phase = "draining"
  /\ phase' = "closing"
  /\ exit' = "clean"
  /\ UNCHANGED <<mediaVars, signal, req, rows, lost, backup, count>>

(* ... until no handler runs, or until the grace period is over.           *)
AwaitHandlers ==
  /\ phase = "draining"
  /\ phase' = "closing"
  /\ exit' = IF Drained THEN "clean" ELSE "error"
  /\ UNCHANGED <<mediaVars, signal, req, rows, lost, backup, count>>

(* What still runs when the process ends is cut off where it is.           *)
Cut ==
  /\ phase' = "down"
  /\ req' = [c \in Clients |-> [step |-> "idle", key |-> NoKey]]

(* The deferred Close of the pool returns when every connection is back,   *)
(* and then main returns.                                                  *)
CloseDB ==
  /\ phase = "closing"
  /\ \A c \in Clients : ~At(c, "commit")
  /\ Cut /\ Die
  /\ UNCHANGED <<signal, exit, rows, lost, backup, count>>

Kill ==
  /\ phase # "down"
  /\ Cut /\ Die
  /\ exit' = "error"
  /\ UNCHANGED <<signal, rows, lost, backup, count>>

(* The database has its own log of what it committed; the files have none. *)
Outage ==
  /\ Tick("outages", MaxOutages)
  /\ Cut /\ LosePower
  /\ exit' = "error"
  /\ lost' = lost \cup (Names \ entries')
  /\ backup' = IF backup.left = <<>> THEN backup ELSE NoBackup
  /\ UNCHANGED <<signal, rows>>

Flusher == Persist /\ UNCHANGED serverVars

-----------------------------------------------------------------------------
(* Backup, which runs beside the server whether it is up or not, and       *)
(* restore (docs/v1/deploy.md), which wants it stopped.                    *)

\* Mutant: the files are archived before the database is dumped.
MediaFirst == <<"list", "files", "dump">>

BackupOrder == <<"dump", "list", "files">>

BackupStep(step) ==
  /\ backup.left # <<>> /\ Head(backup.left) = step
  /\ UNCHANGED <<mediaVars, phase, signal, exit, req, rows, lost, count>>

BeginBackup ==
  /\ backup.left = <<>> /\ Tick("backups", MaxBackups)
  /\ backup' = [NoBackup EXCEPT !.left = BackupOrder]
  /\ UNCHANGED <<mediaVars, phase, signal, exit, req, rows, lost>>

(* pg_dump reads one snapshot.                                             *)
DumpRows ==
  /\ BackupStep("dump")
  /\ backup' = [backup EXCEPT !.left = Tail(@), !.dump = rows]

(* tar reads a tree that grows: every name that was there when it began,   *)
(* and any of those that came since.                                       *)
ListFiles ==
  /\ BackupStep("list")
  /\ backup' = [backup EXCEPT !.left = Tail(@), !.listed = Names]

ReadFiles ==
  /\ BackupStep("files")
  /\ \E archive \in SUBSET Names :
       /\ backup.listed \subseteq archive
       /\ backup' = [backup EXCEPT !.left = Tail(@), !.archive = archive]

(* set -e: a part that fails ends the script.                              *)
BreakBackup ==
  /\ backup.left # <<>>
  /\ backup' = NoBackup
  /\ UNCHANGED <<mediaVars, phase, signal, exit, req, rows, lost, count>>

(* Both files of one night.                                                *)
Restore ==
  /\ phase = "down" /\ backup.left = <<>> /\ backup # NoBackup
  /\ rows' = backup.dump
  /\ Unpack(backup.archive)
  /\ lost' = lost \ backup.archive
  /\ UNCHANGED <<phase, signal, exit, req, backup, count>>

-----------------------------------------------------------------------------
(* What a handler does once it has its form; every step of it ends.        *)
Serves(c) == StoreFile(c) \/ TakeStored(c) \/ BeginTx(c) \/ CommitRow(c)

Process == OpenStores \/ Shutdown \/ AwaitHandlers \/ CloseDB

Backup == BeginBackup \/ DumpRows \/ ListFiles \/ ReadFiles \/ BreakBackup \/ Restore

Next ==
  \/ \E c \in Clients : Upload(c) \/ ReceiveForm(c) \/ BreakForm(c) \/ Serves(c)
                      \/ ServeMedia(c) \/ SendMedia(c)
  \/ Start \/ Signal \/ ListenFails \/ Kill \/ Outage \/ Flusher
  \/ Process \/ Backup

Spec == Init /\ [][Next]_vars

(* Handlers that run go on running, and so does the process: the grace     *)
(* period is a timer.  No browser is fair, and nobody need start, stop or  *)
(* back up anything.                                                       *)
FairSpec ==
  /\ Spec
  /\ \A c \in Clients : WF_vars(Serves(c))
  /\ WF_vars(Process)
-----------------------------------------------------------------------------
(* Properties.                                                             *)

(* No photo shows a broken image: a committed row names a file that is     *)
(* there, wherever an upload, the process or a backup was cut short and    *)
(* whatever was restored.  The one exception is a name the power took      *)
(* before the kernel had written its directory.                            *)
RowsHaveBlobs == rows \subseteq Names \cup lost

(* The two files of a backup fit: the photos its dump names are in its     *)
(* archive, although uploads go on between the one and the other.          *)
BackupFits ==
  backup.left = <<>> => backup.dump \subseteq backup.archive \cup lost

(* A process that exits cleanly after a signal has cut nobody off: who was *)
(* being served when it stopped listening has an answer.                   *)
CleanCutsNobody ==
  [][phase # "down" /\ phase' = "down" /\ exit' = "clean"
       => \A c \in Clients : At(c, "idle")]_vars

(* What a browser is being sent is whole, though another upload of the     *)
(* same file may be renamed over it meanwhile.                             *)
ServedWhole == \A c \in Clients : At(c, "serve") => req[c].key \in Names /\ Whole(req[c].key)

(* A server that is told to stop stops, though a browser never ends its    *)
(* form and a handler holds a connection.                                  *)
StopsWhenTold == signal ~> phase = "down"

(* A file that has arrived is stored and named by a row, refused, or cut   *)
(* off with the process: no handler hangs.                                 *)
UploadEnds == \A c \in Clients : At(c, "put") ~> At(c, "idle")

(* The files stand: a name of the store holds a whole file, before and     *)
(* after a crash, and what is served under it is whole.                    *)
FilesStand == TypeOK /\ NamedIsWhole /\ TempsRemoved /\ ServedWhole

(* What begins ends: an upload, and a server that is told to stop.         *)
WorkEnds == StopsWhenTold /\ UploadEnds
=============================================================================
