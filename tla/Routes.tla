--------------------------------- MODULE Routes ---------------------------------
(***************************************************************************)
(* What stands between a request and its handler (internal/http/router.go  *)
(* and internal/http/middleware): the chain every request goes through,    *)
(* the routes, and the guard each of them sits under.                      *)
(*                                                                         *)
(* A request says how it arrived and how its handler ends; an answer is    *)
(* what the browser and the log are given.  The links of the chain are     *)
(* operators from a request to what they add, in the order of NewRouter.   *)
(***************************************************************************)
EXTENDS Naturals, SequencesExt

Card(section) ==
  {<<"GET", section, "list">>, <<"POST", section, "create">>, <<"GET", section, "new">>,
   <<"GET", section, "show">>, <<"POST", section, "save">>}

(* The routes above the guards.                                            *)
OpenRoutes ==
  {<<"GET", "static", "file">>, <<"GET", "healthz", "report">>, <<"GET", "media", "file">>,
   <<"GET", "login", "show">>, <<"POST", "login", "submit">>, <<"POST", "logout", "submit">>}

ChangeScreen == {<<"GET", "password", "show">>, <<"POST", "password", "submit">>}

(* Under guard: every user with a password that is not expired.            *)
GuardedRoutes ==
  ChangeScreen \cup Card("models")
    \cup {<<"GET", "root", "redirect">>, <<"GET", "models", "edit">>,
          <<"GET", "models", "edit photos">>, <<"POST", "models", "add photos">>,
          <<"POST", "models", "order photos">>, <<"POST", "models", "remove photo">>,
          <<"POST", "models", "apply template">>, <<"POST", "models", "add milestone">>,
          <<"POST", "models", "save milestone">>, <<"GET", "models", "edit calendar">>,
          <<"GET", "models", "edit milestone">>, <<"GET", "models", "preview plan">>,
          <<"GET", "milestones", "list">>}

(* Under guard and RequireRole(root).                                      *)
RootRoutes ==
  Card("users") \cup {<<"POST", "users", "reset password">>}
    \cup Card("seasons") \cup Card("drops")
    \cup {<<"GET", "milestones", "section">>}
    \cup {route \in Card("types") \cup Card("templates") : route[3] # "list"}
    \cup {<<"POST", "templates", "add item">>, <<"POST", "templates", "order items">>,
          <<"POST", "templates", "save item">>, <<"POST", "templates", "remove item">>}

NoRoute == <<"GET", "", "">>

Routes == OpenRoutes \cup GuardedRoutes \cup RootRoutes \cup {NoRoute}

(* The cookie is missing, does not verify, names nobody who may be here    *)
(* (Resolve also fails on a database that does not answer), or a user.     *)
Request ==
  [route : Routes, cookie : {"none", "bad", "unresolved", "user"},
   role : {"member", "root"}, expired : BOOLEAN, cross : BOOLEAN, htmx : BOOLEAN,
   ends : {"answers", "signs in", "fails", "panics", "panics late", "aborts"}]

Anonymous == {}

(* Identity: the user the session names, if it names one.                  *)
Identity(r) == IF r.cookie = "user" THEN {r.role} ELSE Anonymous

(* CSRF: a write another origin asked for goes no further.                 *)
Denied(r) == r.cross /\ r.route[1] = "POST"

(* SendTo: htmx follows a header of a whole answer, and a browser a 303.   *)
SendTo(r, path) ==
  IF r.htmx THEN [status |-> 200, to |-> path] ELSE [status |-> 303, to |-> path]

Refuse(status) == [status |-> status, to |-> ""]

RequireIdentity(r) == IF Identity(r) = Anonymous THEN {SendTo(r, "login")} ELSE {}

RequirePasswordChange(r) ==
  IF Identity(r) # Anonymous /\ r.expired /\ r.route \notin ChangeScreen
  THEN {SendTo(r, "password")} ELSE {}

(* Allows: a root covers every role.                                       *)
RequireRole(r) == IF "root" \in Identity(r) THEN {} ELSE {Refuse(403)}

First(a, b) == IF a # {} THEN a ELSE b

Guard(r) == First(RequireIdentity(r), RequirePasswordChange(r))

\* Mutant: the sections of a root sit under the role alone.
ShutOutByRole(r) ==
  IF r.route = NoRoute THEN {Refuse(404)}
  ELSE IF r.route \in RootRoutes THEN RequireRole(r)
  ELSE IF r.route \in GuardedRoutes THEN Guard(r) ELSE {}

(* What the mux and the guards answer in place of the handler, if they do. *)
ShutOut(r) ==
  IF r.route = NoRoute THEN {Refuse(404)}
  ELSE IF r.route \in RootRoutes THEN First(Guard(r), RequireRole(r))
  ELSE IF r.route \in GuardedRoutes THEN Guard(r) ELSE {}

-----------------------------------------------------------------------------
(* The statuses a handler writes before it returns or panics.              *)
Writes(r) ==
  CASE r.ends \in {"answers", "panics late"} -> <<200>>
    [] r.ends = "signs in" -> <<303>>
    [] r.ends = "fails" -> <<500>>
    [] r.ends \in {"panics", "aborts"} -> <<>>

(* The recorder keeps the first status; one nobody writes is a 200.        *)
Recorded(statuses) == IF statuses = <<>> THEN 200 ELSE Head(statuses)

(* Recover: a panic answers 500 unless a status is on its way already, and *)
(* a handler that aborts takes the connection with it.                     *)
Recover(r, statuses) ==
  IF r.ends = "panics" /\ statuses = <<>> THEN <<500>> ELSE statuses

(* levelFor.                                                               *)
LevelFor(status) == IF status >= 500 THEN "error" ELSE "info"

\* Mutant: the logger is entered inside of the link that recovers.
ChainLoggerInside ==
  <<"request id", "recover", "logger", "session", "identity", "csrf", "htmx">>

(* The chain of NewRouter, outermost first.                                *)
Chain == <<"request id", "logger", "recover", "session", "identity", "csrf", "htmx">>

(* What a request carries on its way in: the links it is inside of, its    *)
(* identifier, the subject of its session, its user, and whether a guard   *)
(* will find that htmx sent it; with the answer of a link that ends the    *)
(* way, what is set on the answer, and the lines of the log.               *)
Arrived ==
  [inside |-> <<>>, id |-> FALSE, subject |-> FALSE, actor |-> Anonymous, htmx |-> FALSE,
   answer |-> {}, cookies |-> <<>>, lines |-> <<>>]

(* One link on the way in, unless an earlier one has answered.             *)
Through(r, ctx, link) ==
  LET in == [ctx EXCEPT !.inside = Append(@, link)]
  IN  IF ctx.answer # {} THEN ctx ELSE
      CASE link = "request id" -> [in EXCEPT !.id = TRUE]
        [] link = "session"    -> IF r.cookie = "bad" THEN [in EXCEPT !.cookies = <<"clear">>]
                                  ELSE [in EXCEPT !.subject = r.cookie # "none"]
        [] link = "identity"   -> IF ctx.subject /\ r.cookie = "unresolved"
                                  THEN [in EXCEPT !.cookies = <<"clear">>]
                                  ELSE [in EXCEPT !.actor = IF ctx.subject THEN Identity(r) ELSE @]
        [] link = "csrf"       -> IF Denied(r)
                                  THEN [in EXCEPT !.answer = {Refuse(403)},
                                                  !.lines = <<[id |-> ctx.id, actor |-> ctx.actor]>>]
                                  ELSE in
        [] link = "htmx"       -> [in EXCEPT !.htmx = r.htmx]
        [] OTHER               -> in

(* Chain: a request enters the links from the first to the last.           *)
Arrive(r) ==
  LET way[n \in 0..Len(Chain)] ==
        IF n = 0 THEN Arrived ELSE Through(r, way[n - 1], Chain[n])
  IN  way[Len(Chain)]

(* How far in a link lies, of the links a request is inside of.            *)
Place(inside, link) == SelectInSeq(inside, LAMBDA l : l = link)

(* The request a guard is handed: its user is the one the chain found.     *)
Handed(r, ctx) ==
  [r EXCEPT !.cookie = IF ctx.actor = Anonymous THEN "none" ELSE "user", !.htmx = ctx.htmx]

(* What answers in place of the handler: a link, the mux or a guard.       *)
Barred(r, ctx) == First(ctx.answer, ShutOut(Handed(r, ctx)))

(* The request through the chain, its guard and its handler, and what the  *)
(* logger sees of it on the way out: the statuses that were written by the *)
(* time it is left, a panic that is still under way having written none.   *)
Serve(r) ==
  LET ctx   == Arrive(r)
      shut  == Barred(r, ctx)
      ran   == shut = {}
      wrote == IF ran THEN Writes(r) ELSE <<(CHOOSE a \in shut : TRUE).status>>
      at(link) == Place(ctx.inside, link)
      out      == IF at("recover") > 0 THEN Recover(r, wrote) ELSE wrote
      seen     == IF at("recover") > at("logger") THEN out ELSE wrote
  IN  [status  |-> IF ran THEN Recorded(IF r.ends = "aborts" THEN <<0>> ELSE out) ELSE Head(wrote),
       to      |-> IF ~ran THEN (CHOOSE a \in shut : TRUE).to
                   ELSE IF r.ends = "signs in" THEN "models" ELSE "",
       ran     |-> ran,
       cookies |-> ctx.cookies \o (IF ran /\ r.ends = "signs in" THEN <<"set">> ELSE <<>>),
       refused |-> ctx.lines,
       level   |-> LevelFor(IF ran THEN Recorded(seen) ELSE Head(wrote))]

-----------------------------------------------------------------------------
(* Properties.                                                             *)

Runs(r) == Serve(r).ran

Asking == {r \in Request : r.ends = "answers"}

(* Who reaches what, however it is asked for: a handler runs for nobody    *)
(* who is not logged in but for the open routes; a user with an expired    *)
(* password reaches the change screen and logout and nothing else behind   *)
(* the login; a member reaches no route of the sections of a root, the     *)
(* list of milestones being no part of them; and no handler runs a write   *)
(* that came from elsewhere.                                               *)
GuardsHold ==
  \A r \in Asking : Runs(r) =>
    /\ r.route \in OpenRoutes \/ r.cookie = "user"
    /\ r.cookie = "user" /\ r.expired => r.route \in OpenRoutes \cup ChangeScreen
    /\ r.route[2] \in {"users", "seasons", "drops", "types", "templates", "milestones"}
         => r.role = "root" \/ r.route = <<"GET", "milestones", "list">>
    /\ ~(r.cross /\ r.route[1] = "POST")

(* Nobody is sent in a circle: where a guard sends a user, that user gets. *)
SentOn ==
  \A r \in Asking : ~Runs(r) /\ Serve(r).to # "" /\ ~r.cross =>
    \E there \in Routes :
      there[1] = "GET" /\ there[2] = Serve(r).to /\ Runs([r EXCEPT !.route = there])

(* The requests a browser sends: the sign-in alone signs in.               *)
Requests == {r \in Request : r.ends = "signs in" => r.route = <<"POST", "login", "submit">>}

(* A cookie that leads nowhere is not sent again, unless this very answer  *)
(* brings a new one; a request that answers 500 ends in a line that says   *)
(* so, and a panic answers nothing else unless it came too late; a write   *)
(* from elsewhere is logged with the user in whose name it came; and htmx  *)
(* is never sent a redirect by a guard that it would follow on its own.    *)
AnswersHold ==
  \A r \in Requests :
    LET a    == Serve(r)
        last == a.cookies[Len(a.cookies)]
    IN  /\ r.cookie \in {"bad", "unresolved"} =>
              /\ a.cookies # <<>>
              /\ last = "set" <=> a.ran /\ r.ends = "signs in"
        /\ r.cookie = "user" /\ a.cookies # <<>> => last = "set"
        /\ a.level = "error" <=> a.status = 500
        /\ a.ran /\ r.ends = "panics" => a.status = 500
        /\ Denied(r) => a.refused = <<[id |-> TRUE, actor |-> Identity(r)]>>
        /\ a.status = 303 /\ ~a.ran => ~r.htmx
=============================================================================
