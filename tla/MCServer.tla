------------------------------- MODULE MCServer -------------------------------
(* A file of the greatest size that is stored, one beyond it, and one of   *)
(* another type; and the environments a process is started in.             *)
EXTENDS Startup, TLC

CONSTANTS k1, k2, k3

Sizes == k1 :> 2 @@ k2 :> 3 @@ k3 :> 1

\* What each variable may be set to, at the edges of what its parser takes.
SomeSettings ==
  LET url(scheme, host, path) == Boot!URL(scheme, host, path)
      lasts == {Blank, Unread, -1, 0, 1}
      key(length) == [length |-> length, bytes |-> "set"]
  IN  [addr   |-> {Blank, Unread, "host:port"}, grace |-> lasts, ttl |-> lasts,
       url    |-> {Blank, Unread, url("postgres", "db", "pilam"),
                   url("postgresql", "db", "pilam"), url("mysql", "db", "pilam"),
                   url("postgres", Blank, "pilam"), url("postgres", "db", Blank)},
       dir    |-> {Blank} \cup [absolute : BOOLEAN, path : {"media"}],
       secret |-> {Blank, key(31), key(32)},
       level  |-> {Blank, Unread, "debug"},
       format |-> {Blank, "TEXT", "json", "xml"},
       zone   |-> {Blank, Unread, "Local", "Asia/Almaty"}]
=============================================================================
