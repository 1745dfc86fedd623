-------------------------------- MODULE Pickers --------------------------------
(***************************************************************************)
(* What the controls of a screen offer (http/models, http/milestones,      *)
(* http/drops, http/seasons), and what a screen makes of the values a      *)
(* request names.  A control is built from rows that are read again when   *)
(* the form it stands on is posted.                                        *)
(*                                                                         *)
(* Seasons, templates and types are sequences in the order the tables list *)
(* them; the drops are a function from the season that holds them.         *)
(***************************************************************************)
EXTENDS Forms, SeasonChoice, TLC

(* seasons.Active: what the drop form offers.                              *)
ActiveSeasons(seasons) == SelectSeq(seasons, LAMBDA s : s.active)

(* drops.BySeason: every season, and the drops of it.                      *)
BySeason(seasons, drops) ==
  [i \in DOMAIN seasons |-> [season |-> seasons[i], drops |-> drops[seasons[i].id]]]

(* offerDrops: the active drops of the active seasons, or of the chosen.   *)
OfferDrops(groups, box) ==
  LET chosen == ParsedID(box)
      kept   == {g \in ToSet(groups) : g.season.active /\ (chosen = NoID \/ g.season.id = chosen)}
  IN  {d \in UNION {g.drops : g \in kept} : d.active}

(* holdsDrop: whether the list leads to the create form.                   *)
HoldsDrop(groups) ==
  \E g \in ToSet(groups) : g.season.active /\ \E d \in g.drops : d.active

(* templateChoices: the active templates, each default one put in front.   *)
TemplateChoices(templates) ==
  LET put(choices, t) == IF ~t.active THEN choices
                         ELSE IF t.default THEN <<t.id>> \o choices ELSE Append(choices, t.id)
  IN  FoldLeft(put, <<>>, templates)

(* typeChoices: the active types that are not held yet.                    *)
TypeChoices(types, held) ==
  LET offered == SelectSeq(types, LAMBDA t : t.active /\ t.id \notin held)
  IN  [i \in DOMAIN offered |-> offered[i].id]

(* defaultTemplate: where a fresh form stands.                             *)
DefaultTemplate(templates) ==
  LET default == SelectSeq(templates, LAMBDA t : t.active /\ t.default)
  IN  IF default = <<>> THEN NoID ELSE default[1].id

(* offersTemplate: no calendar is a choice too.                            *)
OffersTemplate(choices, id) == id = NoID \/ id \in ToSet(choices)

-----------------------------------------------------------------------------
(* What a list keeps of its query.                                         *)

(* submittedFilter of the models: what does not parse filters nothing.     *)
SubmittedFilter(query) ==
  [season |-> IF ParsedID(query.season) = NoID THEN Blank ELSE query.season,
   drop   |-> IF ParsedID(query.drop) = NoID THEN Blank ELSE query.drop,
   active |-> IF FlagOf(query.active) = {} THEN Blank ELSE query.active]

(* chosenSeason: the season that is named, or the current one.             *)
ChosenSeason(box, seasons, today) ==
  LET named == {s \in ToSet(seasons) : s.id = ParsedID(box)}
  IN  IF named # {} THEN named ELSE CurrentSeason(seasons, today)

States == {"open", "all", "late", "due", "planned", "done"}

(* chosen: a value the control does not offer is the one it opens on.      *)
ChosenState(box) == IF box \in States THEN box ELSE "open"

(* StatesOf: every row, of the choice that names no state.                 *)
StatesOf(choice) ==
  CASE choice = "open" -> {"late", "due"}
    [] choice = "all"  -> {}
    [] OTHER           -> {choice}

(* submittedList: the drop of another season is no choice of this one.     *)
SubmittedList(query, seasons, drops, types, today) ==
  LET season == ChosenSeason(query.season, seasons, today)
      held   == UNION {drops[s.id] : s \in season}
  IN  [season |-> {s.id : s \in season},
       drop   |-> IF \E d \in held : d.id = ParsedID(query.drop) THEN query.drop ELSE Blank,
       type   |-> IF \E t \in ToSet(types) : t.id = ParsedID(query.type) THEN query.type ELSE Blank,
       state  |-> ChosenState(query.state)]

(* ListMilestones and ModelsWithoutCalendar ask for the steps and for the  *)
(* models of one scope.                                                    *)
Scope(filter) == [season |-> filter.season, drop |-> ParsedID(filter.drop)]

(* redirectDone, and cardNotice on the card it leads to: the step it names *)
(* when the model holds it.                                                *)
CardNotice(done, step, saved, held) ==
  CASE done = "fact"    -> IF step \in held THEN <<"fact", step>> ELSE <<"saved">>
    [] done = "retired" -> <<"retired">>
    [] OTHER            -> IF saved THEN <<"saved">> ELSE <<>>

-----------------------------------------------------------------------------
(* Properties.                                                             *)

(* Two seasons, each with up to two drops.                                 *)
SomeSeasons ==
  {<<[id |-> "s1", name |-> 1, day |-> 1, active |-> a], [id |-> "s2", name |-> 2, day |-> 2, active |-> b]>> :
     a, b \in BOOLEAN}

SomeDrops ==
  {("s1" :> x) @@ ("s2" :> y) :
     x \in SUBSET [id : {"d1"}, active : BOOLEAN], y \in SUBSET [id : {"d2"}, active : BOOLEAN]}

Boxes == {Blank, Garbled, "s1", "s2", "d1", "d2", "gone"}

(* The list leads to the create form exactly when that form offers a drop; *)
(* every drop it offers is in work and so is its season, and choosing a    *)
(* season narrows the offer to it and hides nothing of it.                 *)
DropsOffered ==
  \A seasons \in SomeSeasons, drops \in SomeDrops :
    LET groups == BySeason(seasons, drops)
        all    == OfferDrops(groups, Blank)
    IN  /\ HoldsDrop(groups) <=> all # {}
        /\ \A d \in all : \E s \in ToSet(seasons) : s.active /\ d.active /\ d \in drops[s.id]
        /\ \A s \in ToSet(seasons) :
             OfferDrops(groups, s.id) = IF s \in ToSet(ActiveSeasons(seasons))
                                        THEN all \cap drops[s.id] ELSE {}

(* A fresh form stands on a path it offers, the first, or on none while no *)
(* path is the default one; what it offers is what a new model may take,   *)
(* each path once, and a form that posts what it was given is accepted.    *)
TemplatesOffered ==
  \A active, default \in [1..3 -> BOOLEAN] :
    LET templates == [i \in 1..3 |-> [id |-> <<"t1", "t2", "t3">>[i],
                                      active |-> active[i], default |-> default[i]]]
        choices   == TemplateChoices(templates)
        fresh     == DefaultTemplate(templates)
        form(box) == [article |-> 1, drop_id |-> "d1", template |-> box]
    IN  Cardinality({i \in 1..3 : default[i]}) <= 1 =>
          /\ OffersTemplate(choices, fresh)
          /\ fresh # NoID => choices[1] = fresh
          /\ fresh = NoID <=> ~\E i \in 1..3 : active[i] /\ default[i]
          /\ IsInjective(choices)
          /\ ToSet(choices) = {templates[i].id : i \in {j \in 1..3 : active[j]}}
          /\ \A id \in {"t1", "t2", "t3"} :
               NewModel(form(id), ToSet(choices), "fine", "fine").status = 303 <=> id \in ToSet(choices)

(* The types that are offered are those the write accepts: active, and not *)
(* on the model or in the template.                                        *)
TypesOffered ==
  \A active \in [1..2 -> BOOLEAN], held \in SUBSET {"y1", "y2"} :
    LET types == [i \in 1..2 |-> [id |-> <<"y1", "y2">>[i], active |-> active[i]]]
        found(id) == IF id \in held THEN "taken"
                     ELSE IF \E t \in ToSet(types) : t.id = id /\ t.active THEN "fine" ELSE "gone"
    IN  \A id \in {"y1", "y2"} :
          id \in ToSet(TypeChoices(types, held)) <=>
            AddMilestone([type |-> id, plan_date |-> 1], found(id)).status = 303

(* The controls come back on what the list shows: asking for what they     *)
(* hold shows the same list again, and a drop that is asked for is one of  *)
(* the season on the screen.                                               *)
FiltersHold ==
  \A seasons \in SomeSeasons, drops \in SomeDrops, today \in 0..2,
     season \in Boxes, drop \in Boxes, state \in {Blank, "open", "all", "late", "gone"} :
    LET query == [season |-> season, drop |-> drop, type |-> Blank, state |-> state]
        held  == SubmittedList(query, seasons, drops, <<>>, today)
        again == [query EXCEPT !.season = CHOOSE id \in held.season : TRUE,
                               !.drop = held.drop, !.state = held.state]
    IN  /\ Cardinality(held.season) = 1
        /\ SubmittedList(again, seasons, drops, <<>>, today) = held
        /\ Scope(held).drop # NoID =>
             \E d \in UNION {drops[id] : id \in held.season} : d.id = Scope(held).drop
        /\ StatesOf(held.state) \subseteq {"late", "due", "planned", "done"}
        /\ \A active \in {Blank, Garbled, TRUE} :
             LET kept == SubmittedFilter([season |-> season, drop |-> drop, active |-> active])
             IN  /\ SubmittedFilter(kept) = kept
                 /\ ParsedID(kept.season) = ParsedID(season) /\ ParsedID(kept.drop) = ParsedID(drop)

PickersHold == DropsOffered /\ TemplatesOffered /\ TypesOffered /\ FiltersHold
=============================================================================
