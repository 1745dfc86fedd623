--------------------------------- MODULE Cards ---------------------------------
(***************************************************************************)
(* What a screen reads before it is shown (http/models, http/drops,        *)
(* http/seasons, http/users, http/milestones): the row its path names, the *)
(* rows that row refers to, and the lists beside it, each by a statement   *)
(* of its own, outside a transaction.  Between two of them other requests  *)
(* add rows.                                                               *)
(***************************************************************************)
EXTENDS Pickers

(* One read.  A row that is named may be gone, which is no failure; a row  *)
(* that is referred to may not; a list with nothing in it is there.        *)
Named(row)    == <<[of |-> row, gone |-> 404, finds |-> {"there", "gone", "broken"}]>>
Referred(row) == <<[of |-> row, gone |-> 500, finds |-> {"there", "gone", "broken"}]>>
Listed(rows)  == <<[of |-> rows, gone |-> 500, finds |-> {"there", "broken"}]>>

(* An identifier that does not parse names nothing.                        *)
PathID == <<[of |-> "path", gone |-> 404, finds |-> {"there", "gone"}]>>

(* milestoneOf and itemOf, of the second identifier of a path.             *)
RowID == <<[of |-> "row path", gone |-> 404, finds |-> {"there", "gone"}]>>

(* Each screen answers at the first read that does not find its row.       *)
Status(reads, found) ==
  LET stopped == {i \in DOMAIN reads : found[reads[i].of] # "there"}
      first   == reads[CHOOSE i \in stopped : \A j \in stopped : i <= j]
  IN  IF stopped = {} THEN 200
      ELSE IF found[first.of] = "gone" THEN first.gone ELSE 500

(* LoadTrailOf: the entries, and then the names of the actors.             *)
Trail == Listed("entries") \o Listed("actors")

(* The loadOne of each section.                                            *)
LoadSeason   == PathID \o Named("season")
LoadDrop     == PathID \o Named("drop") \o Referred("season")
LoadModel    == PathID \o Named("model") \o Referred("drop") \o Referred("season")
LoadUser     == PathID \o Named("user")
LoadType     == PathID \o Named("type")
LoadTemplate == PathID \o Named("template")

LoadCalendar == Listed("steps") \o Listed("types") \o Listed("templates")

FillEditor == Listed("items") \o Listed("types") \o Trail

SeasonCard == LoadSeason \o Trail
DropCard   == LoadDrop \o Trail
UserCard   == LoadUser \o Trail
TypeCard   == LoadType \o Trail
Editor     == LoadTemplate \o FillEditor
ModelCard  == LoadModel \o Listed("photos") \o LoadCalendar \o Trail

PhotosDialog    == LoadModel \o Listed("photos")
CalendarDialog  == LoadModel \o LoadCalendar
(* The step of the path is looked for on the card, not in the table.       *)
MilestoneDialog == LoadModel \o RowID \o LoadCalendar \o Named("step")

(* ListPage: a brand with no season shows an empty list, and reads no      *)
(* further.                                                                *)
ListPage(seasons) ==
  Listed("seasons") \o
    IF seasons = <<>> THEN <<>>
    ELSE Listed("drops") \o Listed("types") \o Listed("rows") \o Listed("counts")

(* PreviewPlan: a date the box cannot read, and one the service refuses,   *)
(* carry nothing, and that is shown.                                       *)
PreviewPlan(found, box, moves) ==
  LET loaded == Status(LoadModel \o RowID, found)
      shown  == [status |-> 200, carried |-> FALSE]
  IN  CASE loaded # 200             -> [shown EXCEPT !.status = loaded]
        [] PostedDay(box, "").value = NoDay -> shown
        [] moves = "gone"           -> [shown EXCEPT !.status = 404]
        [] moves = "refused"        -> shown
        [] moves = "broken"         -> [shown EXCEPT !.status = 500]
        [] OTHER -> [status |-> Status(LoadCalendar, found),
                     carried |-> Status(LoadCalendar, found) = 200]

(* refuse, refuseCalendar and refusePhotos: the screen is read again, and  *)
(* what cannot be read answers in place of the refusal.                    *)
RefusedOn(answer, reads, found) ==
  IF answer.status = 422 /\ Status(reads, found) # 200
  THEN [answer EXCEPT !.status = Status(reads, found), !.errors = <<>>]
  ELSE answer

-----------------------------------------------------------------------------
(* What the reads are put together to.  The tables stand as at[1] when the *)
(* first of them is read, at[2] when the second, and so on.                *)

(* loadCalendar.                                                           *)
Calendar(at) ==
  LET rows  == at[1].steps
      types == at[2].types
  IN  [rows    |-> rows,
       names   |-> [r \in rows |-> {t.name : t \in {u \in ToSet(types) : u.id = r.type}}],
       choices |-> TypeChoices(types, {r.type : r \in rows})]

(* modelRows, from the groups of drops that were read before the models.   *)
ModelRows(groups, models, covers) ==
  {[model  |-> m,
    season |-> {g.season.id : g \in {h \in ToSet(groups) : \E d \in h.drops : d.id = m.drop}},
    drop   |-> {d \in UNION {g.drops : g \in ToSet(groups)} : d.id = m.drop},
    photo  |-> IF m.id \in DOMAIN covers THEN {covers[m.id]} ELSE {}] : m \in models}

(* ReadLastChange: the first entry a step carries in the trail of the card.*)
LastChange(trail, step) ==
  LET told == SelectSeq(trail, LAMBDA e : e.scope = "milestone" /\ e.row = step)
  IN  IF told = <<>> THEN {} ELSE {told[1]}

(* Actors: the accounts the entries of a trail name, each read once; an    *)
(* actor who is nobody, or gone, has no name.                              *)
Actors(ids, users) ==
  [id \in {i \in ids : i # NoID /\ i \in DOMAIN users} |-> users[id]]

(* matches of internal/auth: each word of a search is part of the address  *)
(* or of one of the two names.  A field is the set of what is part of it.  *)
MatchesUser(user, terms) ==
  \A t \in terms : \E field \in {"email", "first_name", "last_name"} : t \in user[field]

(* List of internal/auth.                                                  *)
ListUsers(users, terms) == SelectSeq(users, LAMBDA u : MatchesUser(u, terms))

Log == INSTANCE AuditLog WITH DefaultLimit <- 2, MaxLimit <- 2

-----------------------------------------------------------------------------
(* Properties.                                                             *)

Screens == {SeasonCard, DropCard, UserCard, TypeCard, Editor, ModelCard,
            PhotosDialog, CalendarDialog, MilestoneDialog, ListPage(<<>>), ListPage(<<"s1">>)}

(* Everything the reads of a screen may find.                              *)
Findings(reads) ==
  LET finds(of) == UNION {reads[i].finds : i \in {j \in DOMAIN reads : reads[j].of = of}}
      names     == {reads[i].of : i \in DOMAIN reads}
  IN  {f \in [names -> {"there", "gone", "broken"}] : \A of \in names : f[of] \in finds(of)}

(* A screen is shown with everything that stands on it or not at all; it   *)
(* is not found only when what the path names is not there, and a row that *)
(* another refers to is never the reason.                                  *)
ScreensAnswer ==
  \A reads \in Screens : \A found \in Findings(reads) :
    LET status  == Status(reads, found)
        pointed == {"path", "row path", "step", reads[IF Len(reads) > 1 THEN 2 ELSE 1].of}
    IN  /\ status = 200 <=> \A of \in DOMAIN found : found[of] = "there"
        /\ status = 404 => \E of \in pointed \cap DOMAIN found : found[of] = "gone"
        /\ status = 500 => \/ \E of \in DOMAIN found : found[of] = "broken"
                           \/ \E of \in DOMAIN found \ pointed : found[of] = "gone"

(* A form that is refused on a screen that cannot be read still writes     *)
(* nothing, and never reads as a form that was refused or saved.           *)
RefusalsAnswer ==
  \A form \in SeasonForms : \A found \in Findings(SeasonCard) :
    LET answer == SeasonForm(form, "fine")
        told   == RefusedOn(answer, SeasonCard, found)
    IN  /\ told.wrote = answer.wrote
        /\ told.status = 303 <=> answer.status = 303
        /\ told.status = 422 => told.errors # <<>> /\ Status(SeasonCard, found) = 200

(* A preview that shows something is of a step the model holds and of a    *)
(* date somebody picked.                                                   *)
PreviewsAnswer ==
  \A found \in Findings(CalendarDialog \o RowID), box \in Days,
     moves \in {"fine", "gone", "refused", "broken"} :
    LET answer == PreviewPlan(found, box, moves)
    IN  /\ answer.carried => /\ answer.status = 200 /\ moves = "fine" /\ box \in {1, 2}
                             /\ Status(CalendarDialog \o RowID, found) = 200
        /\ box \notin {1, 2} => answer.status = Status(LoadModel \o RowID, found)

(* Whatever types and steps are added while a card is read, every step on  *)
(* it has the name of its type, and no type is offered that stands on it.  *)
CardsWhole ==
  LET type(y) == [id |-> y, name |-> <<"name", y>>, active |-> TRUE]
      Tables  == {[types |-> [i \in 1..n |-> type(<<"y1", "y2", "y3">>[i])], steps |-> steps] :
                    n \in 1..3, steps \in SUBSET [id : {"m1", "m2"}, type : {"y1", "y2", "y3"}]}
      Whole   == {t \in Tables : /\ \A m \in t.steps : \E y \in ToSet(t.types) : y.id = m.type
                                 /\ \A m, o \in t.steps : (m.id = o.id) = (m.type = o.type)}
  IN  \A before, after \in Whole :
        before.steps \subseteq after.steps /\ Len(before.types) <= Len(after.types) =>
          LET card == Calendar(<<before, after>>)
          IN  /\ \A m \in card.rows : card.names[m] = {<<"name", m.type>>}
              /\ ToSet(card.choices) \cap {m.type : m \in card.rows} = {}

(* Every row of the list of models that names a drop names its own, and    *)
(* the season that holds it.  A row names neither only when its drop was   *)
(* added after the drops were read.                                        *)
RowsNamed ==
  \A seasons \in SomeSeasons, then \in SomeDrops, new \in SUBSET {"d3"}, of \in {"d1", "d2", "d3"} :
    LET now(s) == {d.id : d \in then[s]} \cup IF s = "s1" THEN new ELSE {}
        groups == BySeason(seasons, then)
        holder == {s \in {"s1", "s2"} : of \in now(s)}
    IN  holder # {} =>
          \A row \in ModelRows(groups, {[id |-> "a", drop |-> of]}, <<>>) :
            /\ {d.id : d \in row.drop} \subseteq {of} /\ row.season \subseteq holder
            /\ row.drop = {} <=> row.season = {}
            /\ row.drop = {} => of \in new

(* A step of the card says when it was last changed, unless as many newer  *)
(* entries of the model and of its steps as the trail shows have pushed    *)
(* that one off it.                                                        *)
ChangesTold ==
  LET Rows    == {<<"model", "a">>, <<"milestone", "m1">>, <<"milestone", "m2">>}
      Trails  == [1..3 -> Rows]
      Newer(told, i) == Cardinality({j \in DOMAIN told : j > i})
  IN  \A told \in Trails :
        LET entries == {[at |-> i, id |-> i, scope |-> told[i][1], row |-> told[i][2]] : i \in 1..3}
            trail   == Log!Scopes(entries, 0, <<"model", "milestone">>)
        IN  \A step \in {"m1", "m2"} :
              LET own == {i \in 1..3 : told[i] = <<"milestone", step>>}
                  top == {i \in own : \A j \in own : j <= i}
              IN  {e.at : e \in LastChange(trail, step)} = {i \in top : Newer(told, i) < 2}

(* The trail names every actor it can: the users are read after the        *)
(* entries, and a user is never deleted, so an entry without a name is one *)
(* of nobody.                                                              *)
ActorsNamed ==
  \A written \in SUBSET {"u1", "u2"}, later \in SUBSET {"u1", "u2", "u3"},
     actors \in [1..3 -> {"u1", "u2", NoID}] :
    ToSet(actors) \subseteq written \cup {NoID} =>
      LET named == Actors(ToSet(actors), [u \in written \cup later |-> <<"name", u>>])
      IN  \A i \in 1..3 : actors[i] \notin DOMAIN named <=> actors[i] = NoID

(* A search of two words finds who both find, in whatever order they are   *)
(* typed and whichever of the three fields each is part of; an empty one   *)
(* hides nobody; and the order of the list stands.                         *)
SearchNarrows ==
  LET ada   == [email |-> {"a", "x"}, first_name |-> {"a"}, last_name |-> {"l"}]
      grace == [email |-> {"g", "x"}, first_name |-> {"g", "a"}, last_name |-> {"h"}]
      users == <<ada, grace>>
      Terms == SUBSET {"a", "g", "l", "h", "x", "?"}
  IN  /\ ListUsers(users, {}) = users
      /\ \A s, t \in Terms :
           ListUsers(users, s \cup t) = ListUsers(ListUsers(users, s), t)

CardsHold ==
  /\ ScreensAnswer /\ RefusalsAnswer /\ PreviewsAnswer
  /\ CardsWhole /\ RowsNamed /\ ChangesTold /\ ActorsNamed /\ SearchNarrows
=============================================================================
