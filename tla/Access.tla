--------------------------------- MODULE Access ---------------------------------
(***************************************************************************)
(* What a request brings to be let in, and what it is let through: the     *)
(* session cookie (Session), the stored password hash (Passwords) and the  *)
(* chain of links and guards (Routes), over the keys, subjects, costs and  *)
(* passwords of an instance.  None of them reads a table, so the states    *)
(* before the first request are enough.                                    *)
(***************************************************************************)
EXTENDS Accounts, Session

CONSTANTS Current, Least, Most, SaltLen, MinSaltLen, KeyLen, MaxKeyLen, MinLen, MaxLen, Unread

CONSTANTS
  SigningKeys,   \* the keys a deployment has had
  Subjects,      \* the subjects sessions are issued to
  Moments,       \* the moments they are issued at
  Costs,         \* the costs a stored hash may name
  Lengths,       \* the lengths its salt and its key may have
  Plains         \* the passwords users hold

Hashes == INSTANCE Passwords

Chain == INSTANCE Routes

(* No signature that is issued is one that does not decode.                *)
SignedReadably(keys, subjects, moments) ==
  \A key \in keys, s \in subjects, n \in moments : Garbled # Issue(key, s, n)[3]

(* A part that does not decode is no subject, no second and no signature   *)
(* (session.go:63).                                                        *)
ASSUME CookieAssumption ==
  /\ PerSecond \in Nat \ {0} /\ TTL \in Int /\ Moments \subseteq Int
  /\ Garbled \notin Subjects /\ Garbled \notin Int
  /\ SignedReadably(SigningKeys, Subjects, Moments)

(* What is written today can be read: the costs and lengths of today lie   *)
(* in the range of those that are read (password.go:35), and a password    *)
(* the service makes is one the policy takes.                              *)
ASSUME CostAssumption ==
  LET parts == DOMAIN Current
  IN  /\ Current \in [parts -> Int] /\ Least \in [parts -> Int] /\ Most \in [parts -> Int]
      /\ \A part \in parts : Current[part] \in Least[part]..Most[part]
      /\ SaltLen \in Nat /\ MinSaltLen \in Nat /\ MinSaltLen <= SaltLen
      /\ KeyLen \in Nat /\ MaxKeyLen \in Nat /\ KeyLen <= MaxKeyLen
      /\ MinLen \in Nat /\ MaxLen \in Nat /\ Hashes!Generated \in MinLen..MaxLen
      /\ \A cost \in Costs : /\ DOMAIN cost = parts
                             /\ \A part \in parts : cost[part] \in Int \cup {Unread}

(* No part of a stored hash is one that does not read.                     *)
Readable(stored) == Unread # stored /\ Unread # stored.salt /\ Unread # stored.key

(* A part that does not read is no number, and no salt, key or hash that   *)
(* is written; the password Dummy was made of is nobody's.                 *)
ASSUME PasswordAssumption ==
  /\ Unread \notin Int /\ Hashes!Nobodys \notin Plains
  /\ \A plain \in Plains \cup {Hashes!Nobodys}, drawn \in {"d", "pilam.dummy.salt"} :
       Readable(Hashes!Hash(plain, drawn))

(* A session value opens for the user it was issued to and for as long, a  *)
(* stored hash for its password and at a cost that is in range.            *)
CookiesHold == OpensAsIssued(SigningKeys, Subjects, Moments) /\ KeptNoLonger

PasswordsHold == Hashes!HashesHold(Costs, Lengths, Plains)

SecretsHold == asked = 0 => CookiesHold /\ PasswordsHold

(* Every route sits under its guard, and the chain answers for it.         *)
RouteGuards == Chain!GuardsHold /\ Chain!SentOn /\ Chain!AnswersHold

RoutesGuarded == asked = 0 => RouteGuards
=============================================================================
