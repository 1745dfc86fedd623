-------------------------------- MODULE Startup --------------------------------
(***************************************************************************)
(* What stands before a server: the environment its configuration is       *)
(* loaded from (Config), the schema its database stands on, and what       *)
(* serve.go builds of the two before anything is served.                   *)
(***************************************************************************)
EXTENDS Server

CONSTANTS
  Blank,        \* no text
  Unread,       \* a text that does not parse
  MinSecret,    \* the least length of a signing key
  Latest,       \* the version of the last migration
  Settings      \* per variable, what it may be set to

Boot == INSTANCE Config

Cookie == INSTANCE Session WITH PerSecond <- 1, TTL <- 1, Garbled <- Unread

(* No default is blank or unreadable, and a key has a length.              *)
ASSUME StartAssumption ==
  /\ MinSecret \in Nat \ {0} /\ Latest \in Nat
  /\ \A key \in DOMAIN Boot!Default : Boot!Default[key] \notin {Blank, Unread}
  /\ "localhost" # Blank /\ "pilam" # Blank
  /\ \A secret \in Settings["secret"] \ {Blank} : secret.length \in Nat

(* A signing key that was set, or drawn, is as many bytes as its length.   *)
Bytes(secret) == [i \in 1..secret.length |-> secret.bytes]

(* serve: session.New panics on what a configuration should have           *)
(* refused.                                                                *)
SessionsBuilt(env) ==
  LET loaded == Boot!Load(env, "drawn", "/srv")
  IN  loaded.ok => Cookie!Constructed(Bytes(loaded.config["secret"]), loaded.config["ttl"])

-----------------------------------------------------------------------------
(* A process that starts was told enough, and one that does not start is   *)
(* told everything that is wrong; the schema it stands on is brought up by *)
(* migrate from wherever it is.  Neither reads the state of a process, so  *)
(* the states before the first start are enough.                           *)
BootHolds ==
  count["starts"] = 0 =>
    /\ Boot!LoadsWhole(Settings)
    /\ \A env \in Boot!Environments(Settings) : SessionsBuilt(env)
    /\ Boot!SchemaHolds
=============================================================================
