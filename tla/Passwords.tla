------------------------------- MODULE Passwords -------------------------------
(***************************************************************************)
(* Stored password hashes (internal/platform/password/password.go): what   *)
(* one says of its own cost, which of them are read, and when a login      *)
(* writes a new one.                                                       *)
(*                                                                         *)
(* The derivation is ideal: a key is the cost, the salt, the password and  *)
(* the length it was derived with.  A stored string is what decode reads   *)
(* of it, part by part; a part it cannot read is Unread.  Costs are small  *)
(* numbers in the order of the real ones.                                  *)
(***************************************************************************)
EXTENDS Integers

CONSTANTS
  Current,      \* the cost Hash writes today: a record of time, memory and threads
  Least, Most,  \* the least and the greatest cost that is read
  SaltLen,      \* the length of a salt that is written today
  MinSaltLen,   \* the shortest salt that is read
  KeyLen,       \* the length of a key that is written today, the shortest that is read
  MaxKeyLen,    \* the longest key that is read
  MinLen,       \* the shortest and the longest password, in characters
  MaxLen,
  Unread        \* a part that is no number, or no base64

Derive(cost, plain, salt, length) == <<cost, plain, salt, length>>

(* A salt is its length and what was drawn.                                *)
Encode(cost, salt, key) ==
  [algorithm |-> "argon2id", version |-> 19, cost |-> cost,
   salt |-> salt, length |-> key[4], key |-> key]

(* Hash: today's cost, under a salt that is drawn anew.                    *)
Hash(plain, drawn) ==
  LET salt == [length |-> SaltLen, drawn |-> drawn]
  IN  Encode(Current, salt, Derive(Current, plain, salt, KeyLen))

\* Mutant: a cost is not held to its range.
InRangeEver(cost) == TRUE

(* parseParams: no cost is derived outside of the range.                   *)
InRange(cost) ==
  \A part \in DOMAIN cost : cost[part] >= Least[part] /\ cost[part] <= Most[part]

(* field: the number of one part of the cost.                              *)
IsNumber(part) == part # Unread

(* decode: every failure is ErrInvalidHash.                                *)
Decodes(stored) ==
  /\ stored # Unread
  /\ stored.algorithm = "argon2id" /\ stored.version = 19
  /\ \A part \in DOMAIN stored.cost : IsNumber(stored.cost[part])
  /\ InRange(stored.cost)
  /\ stored.salt # Unread /\ stored.salt.length >= MinSaltLen
  /\ stored.key # Unread
  /\ stored.length >= KeyLen /\ stored.length <= MaxKeyLen

NeedsRehash(stored) ==
  stored.cost # Current \/ stored.salt.length # SaltLen \/ stored.length # KeyLen

(* Verify derives with the cost, the salt and the length that are stored.  *)
Verify(stored, plain) ==
  IF ~Decodes(stored) THEN [ok |-> FALSE, rehash |-> FALSE, err |-> TRUE]
  ELSE IF Derive(stored.cost, plain, stored.salt, stored.length) # stored.key
  THEN [ok |-> FALSE, rehash |-> FALSE, err |-> FALSE]
  ELSE [ok |-> TRUE, rehash |-> NeedsRehash(stored), err |-> FALSE]

(* Dummy: what is verified when the address names no user.                 *)
Nobodys == "no user holds this password"

Dummy == Hash(Nobodys, "pilam.dummy.salt")

(* Check: the length alone, in characters.                                 *)
Check(length) ==
  IF length < MinLen THEN {"too_short"} ELSE IF length > MaxLen THEN {"too_long"} ELSE {}

(* Generate: the characters of a password nobody picked.                   *)
Generated == 26

-----------------------------------------------------------------------------
(* Properties.                                                             *)

(* What an earlier release may have written, and what may be left of it:   *)
(* another version, and a salt that does not read.                         *)
Written(cost, saltLen, length, plain) ==
  LET salt == [length |-> saltLen, drawn |-> "s"]
  IN  Encode(cost, salt, Derive(cost, plain, salt, length))

OfVersion18(stored)  == [stored EXCEPT !.version = 18]
SaltUnread(stored)   == [stored EXCEPT !.salt = Unread]

(* What an earlier release may have stored, or somebody typed into the     *)
(* table: any cost and any lengths, and strings that do not read.          *)
Stored(costs, lengths, plain) ==
  LET written == {Written(cost, s, k, plain) : cost \in costs, s \in lengths, k \in lengths}
  IN  written \cup {OfVersion18(w) : w \in written} \cup {SaltUnread(w) : w \in written}
              \cup {Unread}

(* A hash is good for its password alone.  One of another cost is good     *)
(* too, once, and the login that finds it leaves one that needs no more;   *)
(* a cost out of range is an error for every password, so that a row       *)
(* nobody wrote derives nothing.                                           *)
LoginHolds(stored, plain, other) ==
  LET login == Verify(stored, other)
  IN  /\ login.ok => plain = other /\ InRange(stored.cost)
      /\ login.err <=> ~Verify(stored, plain).ok
      /\ login.err => ~login.rehash
      /\ login.rehash =>
           Verify(Hash(other, "d"), other) = [ok |-> TRUE, rehash |-> FALSE, err |-> FALSE]
      /\ ~login.err =>
           \A part \in DOMAIN stored.cost : stored.cost[part] \in Least[part]..Most[part]

(* Dummy stands for the hash of a user: its cost is the same, and no       *)
(* password opens it.                                                      *)
DummyHolds(plain) ==
  /\ Verify(Dummy, plain) = [ok |-> FALSE, rehash |-> FALSE, err |-> FALSE]
  /\ Dummy.cost = Hash(plain, "d").cost /\ Dummy.length = Hash(plain, "d").length

(* A password the service hands out is one it takes.                       *)
HashesHold(costs, lengths, plains) ==
  /\ \A plain, other \in plains :
       \A stored \in Stored(costs, lengths, plain) : LoginHolds(stored, plain, other)
  /\ \A plain \in plains : DummyHolds(plain)
  /\ Check(Generated) = {}
=============================================================================
