-------------------------------- MODULE Session --------------------------------
(***************************************************************************)
(* The value of the session cookie (internal/platform/session/session.go   *)
(* and internal/http/middleware/session.go): a subject, the second it      *)
(* expires in, and a signature over the two.                               *)
(*                                                                         *)
(* The signature is ideal: it is the key and what was signed, so that no   *)
(* two signed things share one, and nobody without the key writes it.  A   *)
(* value is the sequence of its parts; a part that is no base64, or no     *)
(* number, is Garbled.  A clock runs in moments, PerSecond to a second.    *)
(***************************************************************************)
EXTENDS Integers, Sequences

CONSTANTS
  PerSecond,    \* the moments of a second
  TTL,          \* how many moments an issued session lasts
  Garbled       \* a part that does not decode

NoSubject == <<>>       \* ErrInvalid

(* New panics on an empty key and on a lifetime that is not positive.      *)
Constructed(secret, ttl) == secret # <<>> /\ ttl > 0

\* Mutant: the expiry is left out of what is signed.
SignSubject(secret, payload) == <<secret, payload[1]>>

Sign(secret, payload) == <<secret, payload>>

(* payload: the expiry is cut to a whole second.                           *)
Payload(subject, expires) == <<subject, expires \div PerSecond>>

Issue(secret, subject, now) ==
  LET payload == Payload(subject, now + TTL)
  IN  Append(payload, Sign(secret, payload))

(* split: three parts, no more and no less.                                *)
Split(value) == Len(value) = 3

(* Verify: the signature, and then what it covers, and then the clock.     *)
Verify(secret, value, now) ==
  IF /\ Split(value)
     /\ value[3] # Garbled
     /\ value[3] = Sign(secret, <<value[1], value[2]>>)
     /\ value[1] # Garbled /\ value[2] # Garbled
     /\ now < value[2] * PerSecond
  THEN <<value[1]>> ELSE NoSubject

(* SetSession: the browser keeps the cookie this many seconds.             *)
MaxAge == TTL \div PerSecond

(* The middleware: a value that does not verify is cleared on the way past *)
(* and the request goes on without a subject.  An empty subject is none.   *)
Received(secret, value, now) ==
  LET subject == Verify(secret, value, now)
  IN  [subject |-> IF subject = <<"">> THEN NoSubject ELSE subject,
       cleared |-> subject = NoSubject]

-----------------------------------------------------------------------------
(* Properties.                                                             *)

(* Every value put together from the parts of values that were issued, by  *)
(* this key or another, and from garbage.                                  *)
Values(issued) ==
  LET parts == [i \in 1..3 |-> {v[i] : v \in issued} \cup {Garbled}]
  IN  {v \in parts[1] \X parts[2] \X parts[3] : TRUE}
        \cup {SubSeq(v, 1, n) : v \in issued, n \in 0..2}
        \cup {Append(v, part) : v \in issued, part \in parts[3]}

(* What a value opens for at a moment: the subject it was issued to, under *)
(* the key that issued it, and for its lifetime.  The last second may be   *)
(* cut short, and no moment is added.                                      *)
OpensFor(key, v, at, now) ==
  /\ Verify(key, v, now) # NoSubject =>
       \E s \in DOMAIN at :
         Verify(key, v, now) = <<s>> /\ v = Issue(key, s, at[s]) /\ now < at[s] + TTL
  /\ \A s \in DOMAIN at :
       v = Issue(key, s, at[s]) /\ now <= at[s] + TTL - PerSecond
         => Verify(key, v, now) = <<s>>
  /\ Received(key, v, now).cleared <=> Verify(key, v, now) = NoSubject

(* No edit, swap, cut or longer expiry opens a value it was not issued as. *)
OpensAsIssued(secrets, subjects, moments) ==
  (\A key \in secrets : Constructed(key, TTL)) =>
  \A at \in [subjects -> moments] :
    LET issued == {Issue(k, s, at[s]) : k \in secrets, s \in subjects}
    IN  \A key \in secrets, v \in Values(issued), now \in 0..(TTL + 2 * PerSecond) :
          OpensFor(key, v, at, now)

(* The browser lets go of a cookie within the last second of its lifetime. *)
KeptNoLonger == MaxAge * PerSecond \in (TTL - PerSecond + 1)..TTL
=============================================================================
