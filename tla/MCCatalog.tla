------------------------------ MODULE MCCatalog ------------------------------
(* Instances of Catalog for TLC, and of what is chosen of its lists. *)
EXTENDS CatalogProofs, TLC

CONSTANTS s1, s2, d1, m1

Of(parent, name, day) == [name |-> name, day |-> day, active |-> TRUE, parent |-> parent]

(* Two seasons, and a drop with a model in the first of them.              *)
TwoSeasons ==
  s1 :> Of(None, 1, 1) @@ s2 :> Of(None, 2, 1) @@ d1 :> Of(s1, 1, 0) @@ m1 :> Of(d1, 1, 0)

(* Up to three seasons, equal start days and seasons out of work among     *)
(* them, in every order.                                                   *)
SomeSeasonLists ==
  UNION {{[i \in 1..n |-> [name |-> i, day |-> day[i], active |-> active[i]]] :
            day \in [1..n -> 1..3], active \in [1..n -> BOOLEAN]} : n \in 0..3}

(* Four entries of a model, of its steps, and of something else.           *)
SomeTrails ==
  {{[id |-> i, at |-> at[i], scope |-> of[i]] : i \in 1..4} :
     at \in [1..4 -> 1..2], of \in [1..4 -> {"model", "milestone", "type"}]}

SomeScopeLists == {<<"model">>, <<"model", "milestone">>}
=============================================================================
