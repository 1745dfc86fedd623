------------------------------ MODULE SeasonChoice ------------------------------
(***************************************************************************)
(* CurrentSeason of internal/catalog/season.go: the season a screen opens  *)
(* on, in one pass over the list.  What the loop holds of a season is the  *)
(* set of it, empty while it holds the zero season.                        *)
(***************************************************************************)
EXTENDS Integers, Sequences

(* startOrder: a stands before b in the list.                              *)
StartsBefore(a, b) == a.day < b.day \/ (a.day = b.day /\ a.name < b.name)

\* Mutant: a season that starts today is yet to come.
StartedBefore(season, today) == season.day < today

Started(season, today) == season.day <= today

Latest(held, season) ==
  IF \A s \in held : StartsBefore(s, season) THEN {season} ELSE held

Earliest(held, season) ==
  IF \A s \in held : StartsBefore(season, s) THEN {season} ELSE held

(* One turn of the loop.                                                   *)
Consider(held, season, today) ==
  [newest  |-> Latest(held.newest, season),
   started |-> IF season.active /\ Started(season, today)
               THEN Latest(held.started, season) ELSE held.started,
   coming  |-> IF season.active /\ ~Started(season, today)
               THEN Earliest(held.coming, season) ELSE held.coming]

(* What the loop holds after each season of the list.                      *)
HeldUpTo(seasons, today) ==
  LET upTo[n \in 0..Len(seasons)] ==
        IF n = 0 THEN [newest |-> {}, started |-> {}, coming |-> {}]
        ELSE Consider(upTo[n - 1], seasons[n], today)
  IN  upTo

CurrentSeason(seasons, today) ==
  LET held == HeldUpTo(seasons, today)[Len(seasons)]
  IN  IF held.started # {} THEN held.started
      ELSE IF held.coming # {} THEN held.coming
      ELSE held.newest

(* What the comment of CurrentSeason says of the answer, season by season. *)
IsCurrent(season, seasons, today) ==
  LET inWork == {s \in seasons : s.active}
      begun  == {s \in inWork : s.day <= today}
  IN  IF begun # {}
      THEN season \in begun /\ \A s \in begun \ {season} : StartsBefore(s, season)
      ELSE IF inWork # {}
      THEN season \in inWork /\ \A s \in inWork \ {season} : StartsBefore(season, s)
      ELSE season \in seasons /\ \A s \in seasons \ {season} : StartsBefore(s, season)
=============================================================================
