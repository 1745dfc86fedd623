------------------------------- MODULE Throttle -------------------------------
(***************************************************************************)
(* The throttle in front of a login (internal/auth/throttle.go) and the    *)
(* attempts that call it (Authenticate of auth.go).  Each call holds the   *)
(* mutex, so a call is a step; between Allow and Fail an attempt verifies  *)
(* a password, and others go on.  The throttle lives in memory: a restart  *)
(* is a new behaviour.                                                     *)
(*                                                                         *)
(* A moment is an integer.  A duration is a machine integer of Width bits, *)
(* 64 in the code, and a window is computed by a shift that may wrap.      *)
(***************************************************************************)
EXTENDS Integers, FiniteSets

CONSTANTS
  Attempts,      \* the requests the server runs at a time
  Keys,         \* the addresses that are tried
  Free,         \* freeAttempts: the attempt that begins to wait
  Base,         \* baseWindow: how long it waits
  Longest,      \* maxWindow
  Width,        \* the bits of a time.Duration
  SweepAt,      \* the keys the map holds before it is swept
  Pauses,       \* bound: how far the clock goes in one step
  LastMoment,   \* bound: where the clock ends
  MaxTries      \* bound: how many attempts there are in a behaviour

MaxShift == Width - 2

Half == 2^(Width - 1)

(* What is left of an integer in a machine integer of Width bits.          *)
Wrap(n) == ((n + Half) % (2 * Half)) - Half

(* Base << over.                                                           *)
Shifted(over) == Wrap(Base * 2^over)

\* Mutant: the wait begins an attempt late.
WindowLate(attempts) ==
  LET over == attempts - Free - 1
  IN  IF over < 0 THEN 0
      ELSE IF over > MaxShift \/ Shifted(over) > Longest \/ Shifted(over) <= 0 THEN Longest
      ELSE Shifted(over)

(* How long a key waits after this many attempts.                          *)
Window(attempts) ==
  LET over == attempts - Free
  IN  IF over < 0 THEN 0
      ELSE IF over > MaxShift \/ Shifted(over) > Longest \/ Shifted(over) <= 0 THEN Longest
      ELSE Shifted(over)

ASSUME ThrottleAssumption ==
  /\ IsFiniteSet(Attempts) /\ "idle" \notin Keys
  /\ Free \in Nat /\ Base \in Nat \ {0} /\ Longest \in Nat /\ Width \in Nat \ {0, 1}
  /\ Longest < Half
  /\ SweepAt \in Nat /\ LastMoment \in Nat /\ MaxTries \in Nat
  /\ Pauses \subseteq Nat

(* A shift that wraps leaves nothing, or more than the longest window.     *)
ASSUME ShiftsWrapOut ==
  \A over \in 0..MaxShift : Base * 2^over >= Half => Shifted(over) \notin 1..Longest

(* What a power of two is, as far as the attempts and the shift reach.     *)
ASSUME Powers ==
  2^0 = 1 /\ \A n \in 0..(Width + MaxTries) : 2^(n + 1) = 2 * 2^n

VARIABLES
  failed,   \* the records, by key
  now,      \* what the clock says
  open,      \* where each attempt stands
  tries,    \* how many attempts were made (bounded by MaxTries)
  single     \* history: no two attempts were open at a time so far

throttleVars == <<failed, now, open, tries, single>>

-----------------------------------------------------------------------------
Record == [attempts : Nat \ {0}, until : Nat, seen : Nat]

(* Every type of the variables.                                            *)
ThrottleTypeOK ==
  /\ DOMAIN failed \subseteq Keys
  /\ \A k \in DOMAIN failed : failed[k] \in Record
  /\ now \in Nat
  /\ open \in [Attempts -> {"idle"} \cup Keys]
  /\ tries \in 0..MaxTries
  /\ single \in BOOLEAN

NewThrottle ==
  /\ failed = [k \in {} |-> 0]
  /\ now = 0
  /\ open = [c \in Attempts |-> "idle"]
  /\ tries = 0
  /\ single = TRUE

Waiting(k) == k \in DOMAIN failed /\ now < failed[k].until

-----------------------------------------------------------------------------
(* The throttle.                                                           *)

Allowed(k) == ~Waiting(k)

\* Mutant: the sweep drops by the time of the window.
SweptShort(held) == {k \in DOMAIN held : now - held[k].seen > Base}

\* Mutant: the sweep drops nothing.
SweptNone(held) == {}

(* sweep: the keys that were idle for longer than the longest window.      *)
Swept(held) == {k \in DOMAIN held : now - held[k].seen > Longest}

(* The records a failure of k is written to: only a key that is not there  *)
(* looks at the size of the map.                                           *)
Kept(k) ==
  IF k \notin DOMAIN failed /\ Cardinality(DOMAIN failed) >= SweepAt
  THEN DOMAIN failed \ Swept(failed)
  ELSE DOMAIN failed

(* Fail.                                                                   *)
FailKey(k) ==
  LET attempts == IF k \in DOMAIN failed THEN failed[k].attempts + 1 ELSE 1
      until    == IF attempts >= Free THEN now + Window(attempts) ELSE 0
  IN  failed' = [j \in Kept(k) \cup {k} |->
                   IF j = k THEN [attempts |-> attempts, until |-> until, seen |-> now]
                   ELSE failed[j]]

(* Reset.                                                                  *)
ResetKey(k) == failed' = [j \in DOMAIN failed \ {k} |-> failed[j]]

-----------------------------------------------------------------------------
(* Authenticate: Allow, the password, and then Fail or Reset.              *)

\* Mutant: an attempt does not ask.
TryAnyway(c, k) ==
  /\ open[c] = "idle" /\ tries < MaxTries
  /\ tries' = tries + 1
  /\ single' = (single /\ \A d \in Attempts : open[d] = "idle")
  /\ open' = [open EXCEPT ![c] = k]
  /\ UNCHANGED <<failed, now>>

Try(c, k) ==
  /\ open[c] = "idle" /\ tries < MaxTries
  /\ tries' = tries + 1
  /\ single' = (single /\ \A d \in Attempts : open[d] = "idle")
  /\ open' = IF Allowed(k) THEN [open EXCEPT ![c] = k] ELSE open
  /\ UNCHANGED <<failed, now>>

(* A wrong password, an unknown address or a user who is not active.       *)
Wrong(c) ==
  /\ open[c] # "idle"
  /\ FailKey(open[c])
  /\ open' = [open EXCEPT ![c] = "idle"]
  /\ UNCHANGED <<now, tries, single>>

Right(c) ==
  /\ open[c] # "idle"
  /\ ResetKey(open[c])
  /\ open' = [open EXCEPT ![c] = "idle"]
  /\ UNCHANGED <<now, tries, single>>

(* The database does not answer: nothing is counted.                       *)
GiveUp(c) ==
  /\ open[c] # "idle"
  /\ open' = [open EXCEPT ![c] = "idle"]
  /\ UNCHANGED <<failed, now, tries, single>>

(* ChangePassword and ResetPassword forgive the address of the user.       *)
Forgive(k) ==
  /\ k \in DOMAIN failed
  /\ ResetKey(k)
  /\ UNCHANGED <<now, open, tries, single>>

Tick ==
  /\ \E pause \in Pauses : now' = now + pause
  /\ now' <= LastMoment
  /\ UNCHANGED <<failed, open, tries, single>>

ThrottleNext ==
  \/ Tick
  \/ \E k \in Keys : Forgive(k)
  \/ \E c \in Attempts : \/ \E k \in Keys : Try(c, k)
                        \/ Wrong(c) \/ Right(c) \/ GiveUp(c)

ThrottleSpec == NewThrottle /\ [][ThrottleNext]_throttleVars
-----------------------------------------------------------------------------
(* Properties.                                                             *)

(* A key that waits goes on waiting to the end of its window at least,     *)
(* whatever fails in the meantime and whatever the sweep takes away; only  *)
(* a login that holds, or a new password, ends the wait.                   *)
WaitStands ==
  [][\A k \in Keys : Waiting(k) =>
       \/ ResetKey(k)
       \/ /\ k \in DOMAIN failed'
          /\ failed'[k].until >= failed[k].until]_throttleVars

(* The window doubles with every attempt from the first that waits, to the *)
(* longest and no further: the shift in machine integers computes what the *)
(* same product in integers says.                                          *)
Doubles ==
  \A k \in DOMAIN failed : failed[k].attempts >= Free =>
    LET waits == Base * 2^(failed[k].attempts - Free)
    IN  failed[k].until = failed[k].seen + (IF waits > Longest THEN Longest ELSE waits)

(* The map grows past SweepAt only while every key in it failed recently.  *)
RecentWhenFull ==
  [][Cardinality(DOMAIN failed') > Cardinality(DOMAIN failed)
       /\ Cardinality(DOMAIN failed') > SweepAt
     => \A k \in DOMAIN failed' : now - failed'[k].seen <= Longest]_throttleVars

(* As long as no two attempts were open at a time, no attempt of a key is  *)
(* counted before the window of the one before it has ended.               *)
TriesWaitAlone ==
  [][single' => \A k \in DOMAIN failed \cap DOMAIN failed' :
       failed'[k].attempts > failed[k].attempts => now >= failed[k].until]_throttleVars

(* Every record waits by its number of attempts.                           *)
RecordsDouble == ThrottleTypeOK /\ Doubles
=============================================================================
