---------------------------- MODULE AccountsProofs ----------------------------
(***************************************************************************)
(* What holds of the accounts for every number of browsers, users and      *)
(* requests, as long as no two requests are open at a time: somebody can   *)
(* open the users section, a session that ended stays ended, and the trail *)
(* agrees with the rows.  Overlapping requests break each of these, as     *)
(* every write puts back the whole row it read.                            *)
(*                                                                         *)
(* And what holds of the throttle in front of a login, for every number of *)
(* keys and attempts: a wait stands, the map grows past its limit only     *)
(* with keys that failed recently, and attempts one after the other wait   *)
(* their windows out.                                                      *)
(***************************************************************************)
EXTENDS Access, Throttle, PositionsProofs, FiniteSetTheorems, SequenceTheorems,
        WellFoundedInduction, TLAPS

(* A principal the server issued: its user exists, its epoch is not ahead  *)
(* of the row's, and is behind it once the user is inactive.               *)
Sound(p) ==
  /\ p.user \in DOMAIN users
  /\ p.epoch <= users[p.user].epoch
  /\ ~users[p.user].active => p.epoch < users[p.user].epoch

IsRoot(row) == row.active /\ row.role = "root"

(* What is known of a request between two of its steps: no user is ever    *)
(* removed.                                                                *)
Held(r) == r.step \in {"rehash", "change", "write"} => r.at \in DOMAIN users

(* What is known of a row about to be written while nobody else writes: it *)
(* keeps a root, moves the epoch forward where it ends sessions, and names *)
(* the fields it changes.                                                  *)
WriteFits(r) ==
  /\ users[r.at].epoch <= r.row.epoch
  /\ "passwd" \in r.fields => users[r.at].epoch < r.row.epoch
  /\ users[r.at].active /\ ~r.row.active => users[r.at].epoch < r.row.epoch
  /\ users[r.at].role # r.row.role => "role" \in r.fields
  /\ users[r.at].active # r.row.active => "active" \in r.fields
  /\ r.renew => r.row.active
  /\ IsRoot(r.row) \/ \E u \in DOMAIN users \ {r.at} : IsRoot(users[u])

Fits(r) ==
  /\ r.step = "change" => users[r.at].active
  /\ r.step = "rehash" => r.row = users[r.at] /\ r.row.active
  /\ r.step = "edit" => r.actor \in DOMAIN users /\ IsRoot(users[r.actor])
  /\ r.step = "write" => WriteFits(r)
  /\ r.step = "cookie" => Sound(r.principal)

(* As long as no two requests were open at a time.                         *)
OneAtATime ==
  alone =>
    /\ \A c, d \in Clients : ~At(c, "idle") /\ ~At(d, "idle") => c = d
    /\ \E u \in DOMAIN users : IsRoot(users[u])
    /\ \A u \in DOMAIN users : told[u] = [role |-> users[u].role, active |-> users[u].active]
    /\ \A c \in DOMAIN cookies : Sound(cookies[c])
    /\ \A c \in Clients : Fits(req[c])

(* The inductive invariant.                                                *)
IInv ==
  /\ TypeOK
  /\ \A c \in Clients : Held(req[c])
  /\ OneAtATime

-----------------------------------------------------------------------------
(* Steps that write no row.                                                *)

(* What is known of a request survives a new row.                          *)
LEMMA SurvivesNewRows ==
  ASSUME DOMAIN users \subseteq DOMAIN users',
         \A u \in DOMAIN users : users'[u] = users[u]
  PROVE  /\ \A p : Sound(p) => Sound(p)'
         /\ \A r : Held(r) => Held(r)'
         /\ \A r : Held(r) /\ Fits(r) => Fits(r)'
<1>1. \A p : Sound(p) => Sound(p)'
  BY DEF Sound
<1>2. \A r : Held(r) => Held(r)'
  BY DEF Held
<1>3. ASSUME NEW r, Held(r), Fits(r) PROVE Fits(r)'
  <2>1. CASE r.step = "change"
    BY <1>3, <2>1 DEF Held, Fits
  <2>2. CASE r.step = "rehash"
    BY <1>3, <2>2 DEF Held, Fits
  <2>3. CASE r.step = "edit"
    BY <1>3, <2>3 DEF Held, Fits, IsRoot
  <2>4. CASE r.step = "write"
    <3>1. r.at \in DOMAIN users /\ WriteFits(r)
      BY <1>3, <2>4 DEF Held, Fits
    <3>2. WriteFits(r)'
      BY <3>1 DEF WriteFits, IsRoot
    <3> QED BY <2>4, <3>2 DEF Fits
  <2>5. CASE r.step = "cookie"
    BY <1>1, <1>3, <2>5 DEF Fits
  <2> QED BY <2>1, <2>2, <2>3, <2>4, <2>5 DEF Fits
<1> QED BY <1>1, <1>2, <1>3

(* A step that keeps the rows there are.                                   *)
LEMMA KeepsRows ==
  ASSUME IInv,
         DOMAIN users \subseteq DOMAIN users', DOMAIN users' \subseteq Users,
         DOMAIN told' = DOMAIN users',
         \A u \in DOMAIN users : users'[u] = users[u] /\ told'[u] = told[u],
         \A u \in DOMAIN users' \ DOMAIN users :
           users'[u] \in Row /\ told'[u] = [role |-> users'[u].role, active |-> users'[u].active],
         DOMAIN cookies' \subseteq Clients,
         \A c \in DOMAIN cookies' : cookies'[c] \in Principal /\ (alone => Sound(cookies'[c])),
         DOMAIN req' = Clients,
         \A c \in Clients : \/ req'[c] = req[c]
                            \/ RequestOK(req'[c]) /\ Held(req'[c]) /\ (alone => Fits(req'[c])),
         alone' => alone,
         alone' => \A c, d \in Clients : ~At(c, "idle")' /\ ~At(d, "idle")' => c = d,
         asked' \in 0..MaxRequests, alone' \in BOOLEAN
  PROVE  IInv'
<1>1. /\ \A p : Sound(p) => Sound(p)'
      /\ \A r : Held(r) => Held(r)'
      /\ \A r : Held(r) /\ Fits(r) => Fits(r)'
  BY SurvivesNewRows
<1>2. TypeOK'
  <2>1. \A u \in DOMAIN users' : users'[u] \in Row
    BY DEF IInv, TypeOK
  <2>2. \A u \in DOMAIN told' : told'[u] \in Told
    <3>1. \A row \in Row : [role |-> row.role, active |-> row.active] \in Told
      BY DEF Row, Told
    <3> QED BY <2>1, <3>1 DEF IInv, TypeOK
  <2>3. \A c \in Clients : RequestOK(req'[c])
    BY DEF IInv, TypeOK
  <2> QED BY <2>1, <2>2, <2>3 DEF TypeOK, RequestOK
<1>3. \A c \in Clients : Held(req'[c])
  BY DEF IInv
<1>4. \A c \in Clients : Held(req[c])'
  BY <1>1, <1>3
<1>5. ASSUME alone' PROVE OneAtATime'
  <2>1. alone
    BY <1>5
  <2>2. \A c \in Clients : Fits(req'[c])
    BY <2>1 DEF IInv, OneAtATime
  <2>3. \A c \in Clients : Fits(req[c])'
    BY <1>1, <1>3, <2>2
  <2>4. \A c \in DOMAIN cookies' : Sound(cookies[c])'
    BY <1>1, <2>1
  <2>5. (\E u \in DOMAIN users : IsRoot(users[u]))'
    BY <2>1 DEF IInv, OneAtATime, IsRoot
  <2>6. (\A u \in DOMAIN users : told[u] = [role |-> users[u].role, active |-> users[u].active])'
    BY <2>1 DEF IInv, OneAtATime
  <2> QED BY <1>5, <2>3, <2>4, <2>5, <2>6 DEF OneAtATime
<1> QED BY <1>2, <1>4, <1>5 DEF IInv, OneAtATime

(* One request goes on, and the others stay where they are.                *)
LEMMA OthersKept ==
  ASSUME IInv, NEW c \in Clients, NEW next, Goto(c, next)
  PROVE  /\ DOMAIN req' = Clients /\ req'[c] = next
         /\ \A d \in Clients \ {c} : req'[d] = req[d]
BY DEF IInv, TypeOK, Goto

(* A request that was open, and goes on, is still the only one.            *)
LEMMA OnlyOpen ==
  ASSUME IInv, NEW c \in Clients, ~At(c, "idle"), NEW next, Goto(c, next), alone
  PROVE  /\ \A d \in Clients \ {c} : At(d, "idle")
         /\ \A d, e \in Clients : ~At(d, "idle")' /\ ~At(e, "idle")' => d = e
<1>1. \A d \in Clients \ {c} : At(d, "idle")
  BY DEF IInv, OneAtATime
<1>2. \A d \in Clients \ {c} : req'[d] = req[d]
  BY OthersKept
<1>3. \A d \in Clients \ {c} : At(d, "idle")'
  BY <1>1, <1>2 DEF At
<1> QED BY <1>1, <1>3

(* A request goes on, and the cookies may change.                          *)
LEMMA GoesOn ==
  ASSUME IInv, NEW c \in Clients, ~At(c, "idle"), NEW next, Goto(c, next),
         UNCHANGED <<users, told, asked, alone>>,
         DOMAIN cookies' \subseteq Clients,
         \A d \in DOMAIN cookies' : cookies'[d] \in Principal /\ (alone => Sound(cookies'[d])),
         RequestOK(next), Held(next), alone => Fits(next)
  PROVE  IInv'
<1>1. /\ DOMAIN req' = Clients /\ req'[c] = next
      /\ \A d \in Clients \ {c} : req'[d] = req[d]
  BY OthersKept
<1>2. \A d \in Clients : \/ req'[d] = req[d]
                         \/ RequestOK(req'[d]) /\ Held(req'[d]) /\ (alone => Fits(req'[d]))
  BY <1>1
<1>3. /\ DOMAIN users \subseteq Users /\ DOMAIN told = DOMAIN users
      /\ asked \in 0..MaxRequests /\ alone \in BOOLEAN
  BY DEF IInv, TypeOK
<1>4. alone => \A d, e \in Clients : ~At(d, "idle")' /\ ~At(e, "idle")' => d = e
  BY OnlyOpen
<1> QED BY <1>1, <1>2, <1>3, <1>4, KeepsRows

(* A read, or an end, of one request.                                      *)
LEMMA Reads ==
  ASSUME IInv, NEW c \in Clients, ~At(c, "idle"), NEW next, Goto(c, next),
         UNCHANGED <<users, told, cookies, asked, alone>>,
         RequestOK(next), Held(next), alone => Fits(next)
  PROVE  IInv'
<1>1. DOMAIN cookies \subseteq Clients /\ \A d \in DOMAIN cookies : cookies[d] \in Principal
  BY DEF IInv, TypeOK
<1>2. alone => \A d \in DOMAIN cookies : Sound(cookies[d])
  BY DEF IInv, OneAtATime
<1> QED BY <1>1, <1>2, GoesOn

(* An answer holds nothing.                                                *)
LEMMA AnswersHoldNothing ==
  ASSUME NEW answer \in Answers
  PROVE  /\ RequestOK([step |-> "idle", answer |-> answer])
         /\ Held([step |-> "idle", answer |-> answer])
         /\ Fits([step |-> "idle", answer |-> answer])
BY DEF RequestOK, Held, Fits

(* A request ends, with nothing changed.                                   *)
LEMMA Ends ==
  ASSUME IInv, NEW c \in Clients, ~At(c, "idle"), NEW answer \in Answers, Answer(c, answer),
         UNCHANGED <<users, told, cookies, asked, alone>>
  PROVE  IInv'
<1> DEFINE next == [step |-> "idle", answer |-> answer]
<1>1. RequestOK(next) /\ Held(next) /\ Fits(next)
  BY AnswersHoldNothing
<1>2. Goto(c, next)
  BY DEF Answer
<1> HIDE DEF next
<1> QED BY <1>1, <1>2, Reads

(* A request begins, and may drop its own cookie.                          *)
LEMMA Asks ==
  ASSUME IInv, NEW c \in Clients, Ask(c), NEW next, UNCHANGED <<users, told>>,
         DOMAIN req' = Clients, req'[c] = next, \A d \in Clients \ {c} : req'[d] = req[d],
         DOMAIN cookies' \subseteq DOMAIN cookies,
         \A d \in DOMAIN cookies' : cookies'[d] = cookies[d],
         RequestOK(next), next.step \in {"idle", "verify", "gate"}
  PROVE  IInv'
<1>1. /\ DOMAIN req' = Clients /\ req'[c] = next
      /\ \A d \in Clients \ {c} : req'[d] = req[d]
  OBVIOUS
<1>2. /\ asked < MaxRequests /\ asked' = asked + 1
      /\ alone' = (alone /\ \A d \in Clients : At(d, "idle"))
  BY DEF Ask
<1>3. /\ DOMAIN users \subseteq Users /\ DOMAIN told = DOMAIN users
      /\ asked' \in 0..MaxRequests /\ alone' \in BOOLEAN
  BY <1>2, AccountsAssumption DEF IInv, TypeOK
<1>4. Held(next) /\ Fits(next)
  BY DEF Held, Fits
<1>5. \A d \in Clients : \/ req'[d] = req[d]
                         \/ RequestOK(req'[d]) /\ Held(req'[d]) /\ (alone => Fits(req'[d]))
  BY <1>1, <1>4
<1>6. ASSUME alone' PROVE \A d, e \in Clients : ~At(d, "idle")' /\ ~At(e, "idle")' => d = e
  <2>1. \A d \in Clients \ {c} : At(d, "idle")'
    BY <1>1, <1>2, <1>6 DEF At
  <2> QED BY <2>1
<1>7. /\ DOMAIN cookies' \subseteq Clients
      /\ \A d \in DOMAIN cookies' : cookies'[d] \in Principal /\ (alone => Sound(cookies'[d]))
  BY DEF IInv, TypeOK, OneAtATime
<1> QED BY <1>1, <1>2, <1>3, <1>5, <1>6, <1>7, KeepsRows

(* A user is created.                                                      *)
LEMMA Creates ==
  ASSUME IInv, Invite, UNCHANGED cookies, DOMAIN req' = Clients,
         \A c \in Clients : req'[c] = req[c] \/ req'[c] = [step |-> "idle", answer |-> "saved"],
         alone' = alone, asked' \in 0..MaxRequests
  PROVE  IInv'
<1>1. PICK role \in Roles : Create(NewUser(role, TRUE))
  BY DEF Invite
<1>2. PICK row : row = NewUser(role, TRUE)
  OBVIOUS
<1>3. row \in Row
  BY <1>2 DEF NewUser, Row, Epochs
<1>4. PICK u \in Users \ DOMAIN users :
        /\ users' = [v \in DOMAIN users \cup {u} |-> IF v = u THEN row ELSE users[v]]
        /\ told' = [v \in DOMAIN told \cup {u} |->
                      IF v = u THEN [role |-> row.role, active |-> row.active] ELSE told[v]]
  BY <1>1, <1>2 DEF Create
<1>5. /\ DOMAIN users \subseteq Users /\ DOMAIN told = DOMAIN users
      /\ DOMAIN cookies \subseteq Clients /\ alone \in BOOLEAN
      /\ \A c \in DOMAIN cookies : cookies[c] \in Principal
      /\ alone => \A c \in DOMAIN cookies : Sound(cookies[c])
  BY DEF IInv, TypeOK, OneAtATime
<1>6. /\ DOMAIN users' = DOMAIN users \cup {u} /\ DOMAIN told' = DOMAIN users'
      /\ \A v \in DOMAIN users : users'[v] = users[v] /\ told'[v] = told[v]
      /\ users'[u] = row /\ told'[u] = [role |-> row.role, active |-> row.active]
  BY <1>4, <1>5
<1>7. \A c \in Clients : \/ req'[c] = req[c]
                         \/ RequestOK(req'[c]) /\ Held(req'[c]) /\ (alone => Fits(req'[c]))
  <2>1. "saved" \in Answers
    BY DEF Answers
  <2> QED BY <2>1, AnswersHoldNothing
<1>8. ASSUME alone PROVE \A c, d \in Clients : ~At(c, "idle")' /\ ~At(d, "idle")' => c = d
  <2>1. \A c \in Clients : ~At(c, "idle")' => ~At(c, "idle")
    BY DEF At
  <2> QED BY <1>8, <2>1 DEF IInv, OneAtATime
<1> QED BY <1>3, <1>5, <1>6, <1>7, <1>8, KeepsRows

-----------------------------------------------------------------------------
(* The steps of a login.                                                   *)

(* The cookie a row is good for.                                           *)
LEMMA RowsGiveCookies ==
  ASSUME TypeOK, NEW u \in DOMAIN users
  PROVE  /\ PrincipalOf(u, users[u]) \in Principal
         /\ users[u].active => Sound(PrincipalOf(u, users[u]))
<1>1. u \in Users /\ users[u] \in Row
  BY DEF TypeOK
<1>2. users[u].epoch \in Epochs /\ users[u].epoch <= users[u].epoch
  BY <1>1 DEF Row, Epochs
<1> QED BY <1>1, <1>2 DEF PrincipalOf, Principal, Sound

(* A password that is right leads to the row, or to its cookie.            *)
LEMMA Verifies ==
  ASSUME IInv, NEW c \in Clients, VerifyLogin(c)
  PROVE  IInv'
<1>1. PICK u : u = req[c].at
  OBVIOUS
<1>2. ~At(c, "idle") /\ u \in Users /\ UNCHANGED <<users, told, cookies, asked, alone>>
  BY <1>1 DEF VerifyLogin, At, IInv, TypeOK, RequestOK
<1>3. ASSUME Answer(c, "refused") PROVE IInv'
  BY <1>2, <1>3, Ends DEF Answers
<1>4. ASSUME u \in DOMAIN users, users[u].active,
             Goto(c, [step |-> "rehash", at |-> u, row |-> users[u]])
      PROVE  IInv'
  <2> DEFINE next == [step |-> "rehash", at |-> u, row |-> users[u]]
  <2>1. users[u] \in Row
    BY <1>4 DEF IInv, TypeOK
  <2>2. RequestOK(next) /\ Held(next) /\ Fits(next)
    BY <1>2, <1>4, <2>1 DEF RequestOK, Held, Fits
  <2> HIDE DEF next
  <2> QED BY <1>2, <1>4, <2>2, Reads DEF next
<1>5. ASSUME u \in DOMAIN users, users[u].active,
             Goto(c, [step |-> "cookie", principal |-> PrincipalOf(u, users[u])])
      PROVE  IInv'
  <2>1. PICK p : p = PrincipalOf(u, users[u])
    OBVIOUS
  <2> DEFINE next == [step |-> "cookie", principal |-> p]
  <2>2. p \in Principal /\ Sound(p)
    BY <1>5, <2>1, RowsGiveCookies DEF IInv
  <2>3. RequestOK(next) /\ Held(next) /\ Fits(next)
    BY <2>2 DEF RequestOK, Held, Fits
  <2>4. Goto(c, next)
    BY <1>5, <2>1
  <2> HIDE DEF next
  <2> QED BY <1>2, <2>3, <2>4, Reads
<1> QED BY <1>1, <1>2, <1>3, <1>4, <1>5 DEF VerifyLogin, ByEmail

(* The browser takes the cookie of the answer.                             *)
LEMMA Sets ==
  ASSUME IInv, NEW c \in Clients, SetSession(c)
  PROVE  IInv'
<1>1. PICK p : p = req[c].principal
  OBVIOUS
<1> DEFINE next == [step |-> "idle", answer |-> "saved"]
<1>2. /\ ~At(c, "idle") /\ p \in Principal /\ (alone => Sound(p))
      /\ cookies' = [d \in DOMAIN cookies \cup {c} |-> IF d = c THEN p ELSE cookies[d]]
      /\ Goto(c, next) /\ UNCHANGED <<users, told, asked, alone>>
  BY <1>1 DEF SetSession, Answer, At, IInv, TypeOK, RequestOK, OneAtATime, Fits
<1>3. /\ DOMAIN cookies \subseteq Clients /\ \A d \in DOMAIN cookies : cookies[d] \in Principal
      /\ alone => \A d \in DOMAIN cookies : Sound(cookies[d])
  BY DEF IInv, TypeOK, OneAtATime
<1>4. RequestOK(next) /\ Held(next) /\ Fits(next)
  BY AnswersHoldNothing DEF Answers
<1>5. /\ DOMAIN cookies' \subseteq Clients
      /\ \A d \in DOMAIN cookies' : cookies'[d] \in Principal /\ (alone => Sound(cookies'[d]))
  <2>1. DOMAIN cookies' = DOMAIN cookies \cup {c}
    BY <1>2
  <2>2. ASSUME NEW d \in DOMAIN cookies' PROVE cookies'[d] \in Principal /\ (alone => Sound(cookies'[d]))
    <3>1. CASE d = c
      <4>1. cookies'[d] = p
        BY <1>2, <3>1
      <4> QED BY <1>2, <4>1
    <3>2. CASE d # c
      <4>1. cookies'[d] = cookies[d] /\ d \in DOMAIN cookies
        BY <1>2, <2>1, <3>2
      <4> QED BY <1>3, <4>1
    <3> QED BY <3>1, <3>2
  <2> QED BY <1>3, <2>1, <2>2
<1>6. Goto(c, next) /\ UNCHANGED <<users, told, asked, alone>> /\ ~At(c, "idle")
  BY <1>2
<1> HIDE DEF next
<1> QED BY <1>4, <1>5, <1>6, GoesOn

(* The guards lead a browser on with the row its cookie names.             *)
LEMMA Gates ==
  ASSUME IInv, NEW c \in Clients, Gate(c)
  PROVE  IInv'
<1>1. ~At(c, "idle") /\ UNCHANGED <<users, told, asked, alone>>
  BY DEF Gate, At
<1>2. ASSUME TurnAway(c) PROVE IInv'
  <2> DEFINE next == [step |-> "idle", answer |-> "login"]
  <2>1. Goto(c, next) /\ cookies' = [d \in DOMAIN cookies \ {c} |-> cookies[d]]
    BY <1>2 DEF TurnAway, Answer, WithoutCookie
  <2>2. /\ DOMAIN cookies' \subseteq Clients
        /\ \A d \in DOMAIN cookies' : cookies'[d] \in Principal /\ (alone => Sound(cookies'[d]))
    BY <2>1 DEF IInv, TypeOK, OneAtATime
  <2>3. RequestOK(next) /\ Held(next) /\ Fits(next)
    BY AnswersHoldNothing DEF Answers
  <2> HIDE DEF next
  <2> QED BY <1>1, <2>1, <2>2, <2>3, GoesOn
<1>3. ASSUME c \in DOMAIN cookies, Resolves(cookies[c], users), UNCHANGED cookies,
             Enter(c, cookies[c].user, users[cookies[c].user])
      PROVE  IInv'
  <2>1. PICK actor : actor = cookies[c].user
    OBVIOUS
  <2>2. actor \in Users /\ actor \in DOMAIN users /\ users[actor].active
    BY <1>3, <2>1 DEF Resolves, IInv, TypeOK, Principal
  <2>3. ASSUME Goto(c, [step |-> "change", at |-> actor]) PROVE IInv'
    <3> DEFINE next == [step |-> "change", at |-> actor]
    <3>1. RequestOK(next) /\ Held(next) /\ Fits(next)
      BY <2>2 DEF RequestOK, Held, Fits
    <3> HIDE DEF next
    <3> QED BY <1>1, <1>3, <2>3, <3>1, Reads DEF next
  <2>4. ASSUME Answer(c, "expired") \/ Answer(c, "forbidden") PROVE IInv'
    BY <1>1, <1>3, <2>4, Ends DEF Answers
  <2>5. ASSUME Goto(c, [step |-> "create"]) PROVE IInv'
    <3> DEFINE next == [step |-> "create"]
    <3>1. RequestOK(next) /\ Held(next) /\ Fits(next)
      BY DEF RequestOK, Held, Fits
    <3> HIDE DEF next
    <3> QED BY <1>1, <1>3, <2>5, <3>1, Reads DEF next
  <2>6. ASSUME NEW u \in Users, Covered(users[actor]),
               Goto(c, [step |-> "edit", at |-> u, actor |-> actor])
        PROVE  IInv'
    <3> DEFINE next == [step |-> "edit", at |-> u, actor |-> actor]
    <3>1. RequestOK(next) /\ Held(next) /\ Fits(next)
      BY <2>2, <2>6 DEF RequestOK, Held, Fits, IsRoot, Covered
    <3> HIDE DEF next
    <3> QED BY <1>1, <1>3, <2>6, <3>1, Reads DEF next
  <2>7. ASSUME NEW u \in Users, Goto(c, [step |-> "reset", at |-> u]) PROVE IInv'
    <3> DEFINE next == [step |-> "reset", at |-> u]
    <3>1. RequestOK(next) /\ Held(next) /\ Fits(next)
      BY DEF RequestOK, Held, Fits
    <3> HIDE DEF next
    <3> QED BY <1>1, <1>3, <2>7, <3>1, Reads DEF next
  <2> QED BY <1>3, <2>1, <2>3, <2>4, <2>5, <2>6, <2>7 DEF Enter
<1> QED BY <1>2, <1>3 DEF Gate

-----------------------------------------------------------------------------
(* The steps that hold a row to write.                                     *)

(* A row about to be written.                                              *)
LEMMA HoldsRow ==
  ASSUME IInv, NEW c \in Clients, ~At(c, "idle"),
         UNCHANGED <<users, told, cookies, asked, alone>>,
         NEW u \in DOMAIN users, NEW row \in Row, NEW fields \in SUBSET Fields,
         NEW renew \in BOOLEAN, Goto(c, Write(u, row, fields, renew)),
         alone => WriteFits(Write(u, row, fields, renew))
  PROVE  IInv'
<1> DEFINE next == Write(u, row, fields, renew)
<1>1. u \in Users
  BY DEF IInv, TypeOK
<1>2. RequestOK(next) /\ Held(next)
  BY <1>1 DEF Write, RequestOK, Held
<1>3. alone => Fits(next)
  BY DEF Write, Fits
<1> HIDE DEF next
<1> QED BY <1>2, <1>3, Reads DEF next

(* A row that keeps its role and its flag keeps a root.                    *)
LEMMA KeepsRoot ==
  ASSUME IInv, alone, NEW u \in DOMAIN users, NEW row,
         row.role = users[u].role, row.active = users[u].active
  PROVE  IsRoot(row) \/ \E v \in DOMAIN users \ {u} : IsRoot(users[v])
BY DEF IInv, OneAtATime, IsRoot

(* A new password moves the epoch, and keeps the role and the flag.        *)
LEMMA NewPassword ==
  ASSUME IInv, NEW u \in DOMAIN users, NEW expired \in BOOLEAN, NEW renew \in BOOLEAN,
         renew => users[u].active
  PROVE  LET row == [users[u] EXCEPT !.expired = expired, !.epoch = @ + 1]
         IN  /\ row \in Row
             /\ alone => WriteFits(Write(u, row, {"passwd"}, renew))
<1> DEFINE row == [users[u] EXCEPT !.expired = expired, !.epoch = @ + 1]
<1>1. PICK old : old = users[u]
  OBVIOUS
<1>2. /\ row \in Row /\ row.role = users[u].role /\ row.active = users[u].active
      /\ row.epoch = users[u].epoch + 1 /\ users[u].epoch \in Nat
  <2>1. old \in Row
    BY <1>1 DEF IInv, TypeOK
  <2> DEFINE aged == [old EXCEPT !.expired = expired]
  <2>2. /\ aged \in Row /\ aged.role = old.role /\ aged.active = old.active
        /\ aged.epoch = old.epoch /\ old.epoch \in Nat
    BY <2>1 DEF Row, Epochs
  <2>3. row = [aged EXCEPT !.epoch = old.epoch + 1]
    BY <1>1
  <2> HIDE DEF aged, row
  <2>4. old.epoch + 1 \in Epochs
    BY <2>2 DEF Epochs
  <2>5. row \in Row /\ row.role = old.role /\ row.active = old.active /\ row.epoch = old.epoch + 1
    BY <2>2, <2>3, <2>4 DEF Row
  <2> QED BY <1>1, <2>2, <2>5
<1> HIDE DEF row
<1>3. alone => IsRoot(row) \/ \E v \in DOMAIN users \ {u} : IsRoot(users[v])
  BY <1>2, KeepsRoot
<1>4. alone => WriteFits(Write(u, row, {"passwd"}, renew))
  BY <1>2, <1>3 DEF WriteFits, Write
<1> QED BY <1>2, <1>4 DEF row

(* A user changes their own password.                                      *)
LEMMA Changes ==
  ASSUME IInv, NEW c \in Clients, HoldChange(c)
  PROVE  IInv'
<1>1. PICK u : u = req[c].at
  OBVIOUS
<1>2. /\ ~At(c, "idle") /\ u \in DOMAIN users
      /\ UNCHANGED <<users, told, cookies, asked, alone>>
  BY <1>1 DEF HoldChange, At, IInv, Held
<1>3. alone => users[u].active
  BY <1>1 DEF HoldChange, At, IInv, OneAtATime, Fits
<1>4. ASSUME Answer(c, "refused") PROVE IInv'
  BY <1>2, <1>4, Ends DEF Answers
<1> DEFINE row == [users[u] EXCEPT !.expired = FALSE, !.epoch = @ + 1]
<1>5. ASSUME Goto(c, Write(u, row, {"passwd"}, TRUE)) PROVE IInv'
  <2>1. row \in Row /\ (alone => WriteFits(Write(u, row, {"passwd"}, TRUE)))
    <3>1. CASE ~alone
      BY <1>2, <3>1, NewPassword
    <3>2. CASE alone
      <4>1. users[u].active
        BY <1>3, <3>2
      <4> QED BY <1>2, <4>1, NewPassword
    <3> QED BY <3>1, <3>2
  <2>2. {"passwd"} \in SUBSET Fields
    BY DEF Fields
  <2> HIDE DEF row
  <2> QED BY <1>2, <1>5, <2>1, <2>2, HoldsRow
<1> QED BY <1>1, <1>4, <1>5 DEF HoldChange

(* A root resets the password of a user.                                   *)
LEMMA Resets ==
  ASSUME IInv, NEW c \in Clients, HoldReset(c)
  PROVE  IInv'
<1>1. PICK u : u = req[c].at
  OBVIOUS
<1>2. ~At(c, "idle") /\ UNCHANGED <<users, told, cookies, asked, alone>>
  BY DEF HoldReset, At
<1>3. CASE u \notin DOMAIN users
  <2>1. Answer(c, "missing")
    BY <1>1, <1>3 DEF HoldReset, ByID
  <2> QED BY <1>2, <2>1, Ends DEF Answers
<1>4. CASE u \in DOMAIN users
  <2> DEFINE row == [users[u] EXCEPT !.expired = TRUE, !.epoch = @ + 1]
  <2>1. Goto(c, Write(u, row, {"passwd"}, FALSE))
    BY <1>1, <1>4 DEF HoldReset, ByID
  <2>2. row \in Row /\ (alone => WriteFits(Write(u, row, {"passwd"}, FALSE)))
    BY <1>4, NewPassword
  <2>3. {"passwd"} \in SUBSET Fields
    BY DEF Fields
  <2> HIDE DEF row
  <2> QED BY <1>2, <1>4, <2>1, <2>2, <2>3, HoldsRow
<1> QED BY <1>3, <1>4

(* An edit by a root who does not lock themselves out keeps a root, and    *)
(* names what it changes.                                                  *)
LEMMA EditFits ==
  ASSUME IInv, NEW u \in DOMAIN users, NEW actor, NEW role \in Roles, NEW active \in BOOLEAN,
         ~LocksOut(actor, u, role, active),
         alone => actor \in DOMAIN users /\ IsRoot(users[actor])
  PROVE  LET row    == Edited(users[u], role, active)
             fields == {f \in {"role", "active"} : row[f] # users[u][f]}
         IN  row \in Row /\ (alone => WriteFits(Write(u, row, fields, FALSE)))
<1> DEFINE row    == Edited(users[u], role, active)
           fields == {f \in {"role", "active"} : row[f] # users[u][f]}
<1>1. PICK old : old = users[u]
  OBVIOUS
<1>2. /\ row \in Row /\ row.role = role /\ row.active = active
      /\ row.epoch = IF old.active /\ ~active THEN old.epoch + 1 ELSE old.epoch
      /\ old.epoch \in Nat
  <2>1. old \in Row
    BY <1>1 DEF IInv, TypeOK
  <2> DEFINE given  == [old EXCEPT !.role = role]
             opened == [given EXCEPT !.active = active]
             epoch  == IF old.active /\ ~active THEN old.epoch + 1 ELSE old.epoch
  <2>2. given \in Row /\ given.role = role /\ given.epoch = old.epoch
    BY <2>1 DEF Row
  <2> HIDE DEF given
  <2>3. opened \in Row /\ opened.role = role /\ opened.active = active /\ opened.epoch = old.epoch
    BY <2>2 DEF Row
  <2>4. row = [opened EXCEPT !.epoch = epoch]
    BY <1>1, <2>1 DEF Edited, given, Row
  <2>5. old.epoch \in Nat /\ epoch \in Epochs
    BY <2>1 DEF Row, Epochs
  <2> HIDE DEF opened, epoch, row
  <2>6. row \in Row /\ row.role = role /\ row.active = active /\ row.epoch = epoch
    BY <2>3, <2>4, <2>5 DEF Row
  <2> QED BY <2>5, <2>6 DEF epoch
<1>3. /\ role # old.role => "role" \in fields
      /\ active # old.active => "active" \in fields
      /\ "passwd" \notin fields
  BY <1>1, <1>2
<1>4. alone => IsRoot(row) \/ \E v \in DOMAIN users \ {u} : IsRoot(users[v])
  BY <1>2 DEF LocksOut, IsRoot
<1> HIDE DEF row, fields
<1>5. ASSUME alone PROVE WriteFits(Write(u, row, fields, FALSE))
  <2>1. /\ old.epoch <= row.epoch
        /\ old.active /\ ~row.active => old.epoch < row.epoch
    BY <1>2
  <2> QED BY <1>1, <1>2, <1>3, <1>4, <1>5, <2>1 DEF WriteFits, Write
<1> QED BY <1>2, <1>5 DEF row, fields

(* A root edits a user: the row, if the edit changes it.                   *)
LEMMA Edits ==
  ASSUME IInv, NEW c \in Clients, HoldEdit(c)
  PROVE  IInv'
<1>1. PICK u, actor : u = req[c].at /\ actor = req[c].actor
  OBVIOUS
<1>2. /\ ~At(c, "idle") /\ UNCHANGED <<users, told, cookies, asked, alone>>
      /\ alone => actor \in DOMAIN users /\ IsRoot(users[actor])
  BY <1>1 DEF HoldEdit, At, IInv, OneAtATime, Fits
<1>3. ASSUME NEW answer \in {"refused", "missing", "lockout", "saved"}, Answer(c, answer)
      PROVE  IInv'
  <2>1. answer \in Answers
    BY DEF Answers
  <2> QED BY <1>2, <1>3, <2>1, Ends
<1>4. ASSUME NEW role \in Roles, NEW active \in BOOLEAN, u \in DOMAIN users,
             ~LocksOut(actor, u, role, active),
             LET row    == Edited(users[u], role, active)
                 fields == {f \in {"role", "active"} : row[f] # users[u][f]}
             IN  Goto(c, Write(u, row, fields, FALSE))
      PROVE  IInv'
  <2> DEFINE row    == Edited(users[u], role, active)
             fields == {f \in {"role", "active"} : row[f] # users[u][f]}
  <2>1. row \in Row /\ (alone => WriteFits(Write(u, row, fields, FALSE)))
    BY <1>2, <1>4, EditFits
  <2>2. fields \in SUBSET Fields
    BY DEF Fields
  <2>3. Goto(c, Write(u, row, fields, FALSE))
    BY <1>4
  <2> HIDE DEF row, fields
  <2> QED BY <1>2, <1>4, <2>1, <2>2, <2>3, HoldsRow
<1>5. \/ \E answer \in {"refused", "missing", "lockout", "saved"} : Answer(c, answer)
      \/ \E role \in Roles, active \in BOOLEAN :
           /\ u \in DOMAIN users /\ ~LocksOut(actor, u, role, active)
           /\ LET row    == Edited(users[u], role, active)
                  fields == {f \in {"role", "active"} : row[f] # users[u][f]}
              IN  Goto(c, Write(u, row, fields, FALSE))
  <2>1. CASE Answer(c, "refused")
    BY <2>1
  <2>2. ASSUME NEW role \in Roles, NEW active \in BOOLEAN, NEW renamed \in BOOLEAN,
               LET row    == Edited(users[u], role, active)
                   fields == {f \in {"role", "active"} : row[f] # users[u][f]}
               IN  IF ~ByID(u) THEN Answer(c, "missing")
                   ELSE IF LocksOut(actor, u, role, active) THEN Answer(c, "lockout")
                   ELSE IF fields = {} /\ ~renamed THEN Answer(c, "saved")
                   ELSE Goto(c, Write(u, row, fields, FALSE))
        PROVE  \/ \E answer \in {"refused", "missing", "lockout", "saved"} : Answer(c, answer)
               \/ /\ u \in DOMAIN users /\ ~LocksOut(actor, u, role, active)
                  /\ LET row    == Edited(users[u], role, active)
                         fields == {f \in {"role", "active"} : row[f] # users[u][f]}
                     IN  Goto(c, Write(u, row, fields, FALSE))
    BY <2>2 DEF ByID
  <2> QED BY ZenonT(60), <1>1, <2>1, <2>2 DEF HoldEdit
<1> QED BY <1>3, <1>4, <1>5

-----------------------------------------------------------------------------
(* The steps that write a row.                                             *)

(* A row that fits keeps what the cookies are good for.                    *)
LEMMA CookiesStand ==
  ASSUME TypeOK, NEW u \in DOMAIN users, NEW row \in Row, NEW fields, NEW renew,
         WriteFits(Write(u, row, fields, renew)), users' = Updated(u, row),
         NEW p \in Principal, Sound(p)
  PROVE  Sound(p)'
<1>1. /\ DOMAIN users' = DOMAIN users /\ users'[u] = row
      /\ \A v \in DOMAIN users \ {u} : users'[v] = users[v]
  BY DEF Updated
<1>2. CASE p.user # u
  BY <1>1, <1>2 DEF Sound
<1>3. CASE p.user = u
  <2>1. users[u] \in Row
    BY DEF TypeOK
  <2>2. p.epoch \in Nat /\ users[u].epoch \in Nat /\ row.epoch \in Nat
    BY <2>1 DEF Row, Principal, Epochs
  <2>3. /\ p.epoch <= users[u].epoch
        /\ ~users[u].active => p.epoch < users[u].epoch
        /\ users[u].epoch <= row.epoch
        /\ users[u].active /\ ~row.active => users[u].epoch < row.epoch
    BY <1>3 DEF Sound, WriteFits, Write
  <2>4. /\ p.epoch <= row.epoch
        /\ ~row.active => p.epoch < row.epoch
    BY <2>2, <2>3
  <2> QED BY <1>1, <1>3, <2>4 DEF Sound
<1> QED BY <1>2, <1>3

(* The whole row is written, with the entries of what it changes.          *)
LEMMA Writes ==
  ASSUME IInv, NEW c \in Clients, WriteUser(c)
  PROVE  IInv'
<1>1. PICK u, row, fields, renew :
        u = req[c].at /\ row = req[c].row /\ fields = req[c].fields /\ renew = req[c].renew
  OBVIOUS
<1>2. /\ ~At(c, "idle") /\ req[c].step = "write" /\ row \in Row /\ u \in DOMAIN users
      /\ fields \subseteq Fields /\ renew \in BOOLEAN
      /\ UNCHANGED <<cookies, asked, alone>>
      /\ users' = Updated(u, row) /\ told' = Tell(u, row, fields)
  BY <1>1 DEF WriteUser, At, IInv, TypeOK, RequestOK, Held
<1>3. alone => WriteFits(Write(u, row, fields, renew))
  BY <1>1, <1>2 DEF IInv, OneAtATime, Fits, WriteFits, Write
<1>4. /\ DOMAIN users' = DOMAIN users /\ users'[u] = row
      /\ \A v \in DOMAIN users \ {u} : users'[v] = users[v]
  BY <1>2 DEF Updated
<1>5. /\ DOMAIN told' = DOMAIN told
      /\ \A v \in DOMAIN users \ {u} : told'[v] = told[v]
      /\ told'[u] \in Told
      /\ told'[u].role = IF "role" \in fields THEN row.role ELSE told[u].role
      /\ told'[u].active = IF "active" \in fields THEN row.active ELSE told[u].active
  <2>1. DOMAIN told = DOMAIN users /\ told[u] \in Told
    BY <1>2 DEF IInv, TypeOK
  <2>2. PICK old : old = told[u]
    OBVIOUS
  <2> DEFINE role   == IF "role" \in fields THEN row.role ELSE old.role
             active == IF "active" \in fields THEN row.active ELSE old.active
             given  == [old EXCEPT !.role = role]
  <2>3. role \in Roles /\ active \in BOOLEAN
    BY <1>2, <2>1, <2>2 DEF Row, Told
  <2>4. told' = [told EXCEPT ![u] = [given EXCEPT !.active = active]]
    BY <1>2, <2>1, <2>2 DEF Tell, Told
  <2>5. given \in Told /\ given.role = role
    BY <2>1, <2>2, <2>3 DEF Told
  <2> HIDE DEF given
  <2>6. [given EXCEPT !.active = active] \in Told /\ [given EXCEPT !.active = active].role = role
        /\ [given EXCEPT !.active = active].active = active
    BY <2>3, <2>5 DEF Told
  <2> HIDE DEF role, active
  <2>7. PICK new : new = [given EXCEPT !.active = active]
    OBVIOUS
  <2>8. new \in Told /\ new.role = role /\ new.active = active
    BY <2>6, <2>7
  <2>9. /\ DOMAIN told' = DOMAIN told /\ told'[u] = new
        /\ \A v \in DOMAIN users \ {u} : told'[v] = told[v]
    BY <1>2, <2>1, <2>4, <2>7
  <2>10. told'[u].role = role /\ told'[u].active = active
    BY <2>8, <2>9, Zenon
  <2>11. role = IF "role" \in fields THEN row.role ELSE told[u].role
    BY <2>2 DEF role
  <2>12. active = IF "active" \in fields THEN row.active ELSE told[u].active
    BY <2>2, Zenon DEF active
  <2> QED BY <2>8, <2>9, <2>10, <2>11, <2>12, Zenon
<1>6. PICK next : /\ Goto(c, next)
                  /\ \/ /\ renew = TRUE
                        /\ next = [step |-> "cookie", principal |-> PrincipalOf(u, row)]
                     \/ next = [step |-> "idle", answer |-> "saved"]
  BY <1>1, <1>2 DEF WriteUser, Answer
<1>7. /\ DOMAIN req' = Clients /\ req'[c] = next
      /\ \A d \in Clients \ {c} : req'[d] = req[d]
  BY <1>6, OthersKept
<1>8. RequestOK(next) /\ next.step \in {"idle", "cookie"}
  <2>1. PrincipalOf(u, row) \in Principal
    BY <1>2 DEF PrincipalOf, Principal, Row, IInv, TypeOK
  <2> QED BY <1>6, <2>1 DEF RequestOK, Answers
<1>9. TypeOK'
  <2>1. DOMAIN users \subseteq Users /\ DOMAIN told = DOMAIN users
    BY DEF IInv, TypeOK
  <2>2. \A v \in DOMAIN users' : users'[v] \in Row
    BY <1>2, <1>4 DEF IInv, TypeOK
  <2>3. \A v \in DOMAIN told' : told'[v] \in Told
    BY <1>5, <2>1 DEF IInv, TypeOK
  <2>4. \A d \in Clients : RequestOK(req'[d])
    BY <1>7, <1>8 DEF IInv, TypeOK
  <2>5. /\ DOMAIN cookies' \subseteq Clients /\ \A d \in DOMAIN cookies' : cookies'[d] \in Principal
        /\ asked' \in 0..MaxRequests /\ alone' \in BOOLEAN
    BY <1>2 DEF IInv, TypeOK
  <2> QED BY <1>4, <1>5, <1>7, <2>1, <2>2, <2>3, <2>4, <2>5 DEF TypeOK, RequestOK
<1>10. \A d \in Clients : Held(req[d])'
  BY <1>4, <1>7, <1>8 DEF IInv, Held
<1>11. ASSUME alone PROVE OneAtATime'
  <2>1. /\ \A d \in Clients \ {c} : At(d, "idle")
        /\ \A d, e \in Clients : ~At(d, "idle")' /\ ~At(e, "idle")' => d = e
    BY <1>2, <1>6, <1>11, OnlyOpen
  <2>2. WriteFits(Write(u, row, fields, renew))
    BY <1>3, <1>11
  <2>3. (\E v \in DOMAIN users : IsRoot(users[v]))'
    BY <1>2, <1>4, <2>2 DEF WriteFits, Write, IsRoot
  <2>4. (\A v \in DOMAIN users : told[v] = [role |-> users[v].role, active |-> users[v].active])'
    <3>1. \A v \in DOMAIN users : told[v] = [role |-> users[v].role, active |-> users[v].active]
      BY <1>11 DEF IInv, OneAtATime
    <3>2. told'[u].role = row.role /\ told'[u].active = row.active
      <4>1. told[u] = [role |-> users[u].role, active |-> users[u].active]
        BY <1>2, <3>1
      <4>2. told[u].role = users[u].role /\ told[u].active = users[u].active
        BY <4>1
      <4>3. /\ users[u].role # row.role => "role" \in fields
            /\ users[u].active # row.active => "active" \in fields
        BY <2>2, Zenon DEF WriteFits, Write
      <4>4. told'[u].role = row.role
        BY <1>5, <4>2, <4>3, Zenon
      <4>5. told'[u].active = row.active
        BY <1>5, <4>2, <4>3, Zenon
      <4> QED BY <4>4, <4>5
    <3>3. told'[u] = [role |-> row.role, active |-> row.active]
      BY <1>5, <3>2 DEF Told
    <3> QED BY <1>2, <1>4, <1>5, <3>1, <3>3
  <2>5. (\A d \in DOMAIN cookies : Sound(cookies[d]))'
    <3>1. \A d \in DOMAIN cookies : cookies[d] \in Principal /\ Sound(cookies[d])
      BY <1>11 DEF IInv, TypeOK, OneAtATime
    <3>2. \A p \in Principal : Sound(p) => Sound(p)'
      BY <1>2, <2>2, CookiesStand DEF IInv
    <3> QED BY <1>2, <3>1, <3>2
  <2>6. Fits(next)'
    <3>1. CASE next = [step |-> "idle", answer |-> "saved"]
      BY <3>1 DEF Fits
    <3>2. CASE renew = TRUE /\ next = [step |-> "cookie", principal |-> PrincipalOf(u, row)]
      <4>1. row.active /\ row.epoch \in Nat
        BY <1>2, <2>2, <3>2 DEF WriteFits, Write, Row, Epochs
      <4>2. Sound(PrincipalOf(u, row))'
        BY <1>2, <1>4, <4>1 DEF Sound, PrincipalOf
      <4> QED BY <3>2, <4>2 DEF Fits, PrincipalOf
    <3> QED BY <1>6, <3>1, <3>2
  <2>7. \A d \in Clients : Fits(req[d])'
    <3>1. ASSUME NEW d \in Clients \ {c} PROVE Fits(req[d])'
      BY <1>7, <2>1 DEF At, Fits
    <3>2. Fits(req[c])'
      BY <1>7, <2>6 DEF Fits
    <3> QED BY <3>1, <3>2
  <2> QED BY <2>1, <2>3, <2>4, <2>5, <2>7 DEF OneAtATime
<1> QED BY <1>2, <1>9, <1>10, <1>11 DEF IInv, OneAtATime

(* A login that renews a hash writes the row it read: a fresh one, unless  *)
(* somebody wrote in between.                                              *)
LEMMA Rehashes ==
  ASSUME IInv, NEW c \in Clients, Rehash(c)
  PROVE  IInv'
<1>1. PICK u, row : u = req[c].at /\ row = req[c].row
  OBVIOUS
<1> DEFINE next == [step |-> "cookie", principal |-> PrincipalOf(u, row)]
<1>2. /\ ~At(c, "idle") /\ req[c].step = "rehash" /\ row \in Row
      /\ u \in Users /\ u \in DOMAIN users
      /\ users' \in {users, Updated(u, row)} /\ Goto(c, next)
      /\ UNCHANGED <<told, cookies, asked, alone>>
  BY <1>1 DEF Rehash, At, IInv, TypeOK, RequestOK, Held
<1>3. alone => row = users[u] /\ row.active
  BY <1>1, <1>2 DEF IInv, OneAtATime, Fits
<1>4. RequestOK(next) /\ next.step = "cookie"
  BY <1>2 DEF RequestOK, PrincipalOf, Principal, Row
<1>5. alone => Fits(next)
  <2>1. alone => Sound(PrincipalOf(u, row))
    BY <1>2, <1>3, RowsGiveCookies DEF IInv
  <2> QED BY <2>1 DEF Fits
<1>6. Held(next)
  BY DEF Held
<1> HIDE DEF next
<1>7. ASSUME \A v \in DOMAIN users : users'[v] = users[v] PROVE IInv'
  <2>1. /\ DOMAIN users' = DOMAIN users /\ DOMAIN users \subseteq Users
        /\ DOMAIN told = DOMAIN users /\ DOMAIN cookies \subseteq Clients
        /\ asked \in 0..MaxRequests /\ alone \in BOOLEAN
    BY <1>2 DEF Updated, IInv, TypeOK
  <2>2. \A d \in DOMAIN cookies : cookies[d] \in Principal /\ (alone => Sound(cookies[d]))
    BY DEF IInv, TypeOK, OneAtATime
  <2>3. /\ DOMAIN req' = Clients /\ req'[c] = next
        /\ \A d \in Clients \ {c} : req'[d] = req[d]
    BY <1>2, OthersKept
  <2>4. \A d \in Clients : \/ req'[d] = req[d]
                           \/ RequestOK(req'[d]) /\ Held(req'[d]) /\ (alone => Fits(req'[d]))
    BY <1>4, <1>5, <1>6, <2>3
  <2>5. alone => \A d, e \in Clients : ~At(d, "idle")' /\ ~At(e, "idle")' => d = e
    BY <1>2, OnlyOpen
  <2> QED BY <1>2, <1>7, <2>1, <2>2, <2>3, <2>4, <2>5, KeepsRows
<1>8. CASE users' = users \/ alone
  <2>1. \A v \in DOMAIN users : users'[v] = users[v]
    BY <1>2, <1>3, <1>8 DEF Updated
  <2> QED BY <1>7, <2>1
<1>9. CASE users' = Updated(u, row) /\ ~alone
  <2>1. /\ DOMAIN users' = DOMAIN users /\ users'[u] = row
        /\ \A v \in DOMAIN users \ {u} : users'[v] = users[v]
    BY <1>2, <1>9 DEF Updated
  <2>2. /\ DOMAIN req' = Clients /\ req'[c] = next
        /\ \A d \in Clients \ {c} : req'[d] = req[d]
    BY <1>2, OthersKept
  <2>3. \A d \in Clients : RequestOK(req'[d])
    BY <1>4, <2>2 DEF IInv, TypeOK
  <2>4. \A v \in DOMAIN users' : users'[v] \in Row
    BY <1>2, <2>1 DEF IInv, TypeOK
  <2>5. TypeOK'
    BY <1>2, <2>1, <2>2, <2>3, <2>4 DEF IInv, TypeOK, RequestOK
  <2>6. \A d \in Clients : Held(req[d])'
    BY <1>4, <2>1, <2>2 DEF IInv, Held
  <2>7. OneAtATime'
    BY <1>2, <1>9 DEF OneAtATime
  <2> QED BY <2>5, <2>6, <2>7 DEF IInv
<1> QED BY <1>2, <1>8, <1>9

(* The section creates a user, or refuses to.                              *)
LEMMA SectionCreates ==
  ASSUME IInv, NEW c \in Clients, CreateUser(c)
  PROVE  IInv'
<1>1. ~At(c, "idle") /\ UNCHANGED <<cookies, asked, alone>>
  BY DEF CreateUser, At
<1>2. ASSUME Invite, Answer(c, "saved") PROVE IInv'
  <2> DEFINE next == [step |-> "idle", answer |-> "saved"]
  <2>1. Goto(c, next)
    BY <1>2 DEF Answer
  <2>2. /\ DOMAIN req' = Clients
        /\ \A d \in Clients : req'[d] = req[d] \/ req'[d] = next
    BY <2>1, OthersKept
  <2>3. asked' \in 0..MaxRequests /\ alone' = alone
    BY <1>1 DEF IInv, TypeOK
  <2> QED BY <1>1, <1>2, <2>2, <2>3, Creates
<1>3. ASSUME Answer(c, "refused"), UNCHANGED <<users, told>> PROVE IInv'
  BY <1>1, <1>3, Ends DEF Answers
<1> QED BY <1>2, <1>3 DEF CreateUser

(* The invariant is inductive.                                             *)
LEMMA Inductive ==
  ASSUME IInv, [Next]_vars
  PROVE  IInv'
<1>1. CASE UNCHANGED vars
  BY SMTT(30), <1>1 DEF vars, IInv, TypeOK, Held, OneAtATime, Fits, WriteFits, Sound, At
<1>2. ASSUME NEW c \in Clients, Fail(c) PROVE IInv'
  BY <1>2, Ends DEF Fail, Answers
<1>3. CASE UserAdd
  <2>1. /\ asked' \in 0..MaxRequests /\ DOMAIN req' = Clients
        /\ alone' = alone /\ UNCHANGED <<cookies, req>> /\ Invite
    BY <1>3, AccountsAssumption DEF UserAdd, IInv, TypeOK
  <2>2. \A c \in Clients : req'[c] = req[c]
    BY <2>1
  <2> QED BY <2>1, <2>2, Creates
<1>4. ASSUME NEW c \in Clients, SubmitLogin(c) PROVE IInv'
  <2>1. ASSUME NEW u \in Users, Begin(c, [step |-> "verify", at |-> u]) PROVE IInv'
    <3>1. RequestOK([step |-> "verify", at |-> u])
      BY DEF RequestOK
    <3> QED BY <2>1, <3>1, OthersKept, Asks DEF Begin
  <2>2. ASSUME Begin(c, [step |-> "idle", answer |-> "refused"]) PROVE IInv'
    <3>1. RequestOK([step |-> "idle", answer |-> "refused"])
      BY AnswersHoldNothing DEF Answers
    <3> QED BY <2>2, <3>1, OthersKept, Asks DEF Begin
  <2> QED BY <1>4, <2>1, <2>2 DEF SubmitLogin
<1>5. ASSUME NEW c \in Clients, SendRequest(c) PROVE IInv'
  <2>1. RequestOK([step |-> "gate"])
    BY DEF RequestOK
  <2> QED BY <1>5, <2>1, OthersKept, Asks DEF SendRequest, Begin
<1>6. ASSUME NEW c \in Clients, DropSession(c) PROVE IInv'
  <2>1. PICK next : next = req[c]
    OBVIOUS
  <2>2. /\ RequestOK(next) /\ next.step = "idle"
        /\ DOMAIN req' = Clients /\ req'[c] = next
        /\ \A d \in Clients \ {c} : req'[d] = req[d]
    BY <1>6, <2>1 DEF DropSession, Ask, At, IInv, TypeOK
  <2>3. /\ DOMAIN cookies' \subseteq DOMAIN cookies
        /\ \A d \in DOMAIN cookies' : cookies'[d] = cookies[d]
    BY <1>6 DEF DropSession, WithoutCookie
  <2> QED BY <1>6, <2>2, <2>3, Asks DEF DropSession
<1> QED BY <1>1, <1>2, <1>3, <1>4, <1>5, <1>6, Verifies, Rehashes, Sets, Gates,
           SectionCreates, Changes, Resets, Edits, Writes DEF Next, Step

(* The users are new, nobody asks for anything, and a cookie is of one of  *)
(* them.                                                                   *)
LEMMA Initial == Init => IInv
<1> SUFFICES ASSUME Init PROVE IInv
  OBVIOUS
<1>1. PICK S \in SUBSET Users :
        \E role \in [S -> Roles], expired \in [S -> BOOLEAN] :
          users = [u \in S |-> [role |-> role[u], active |-> TRUE,
                                epoch |-> 1, expired |-> expired[u]]]
  BY DEF Init
<1>2. PICK role \in [S -> Roles], expired \in [S -> BOOLEAN] :
        users = [u \in S |-> [role |-> role[u], active |-> TRUE,
                              epoch |-> 1, expired |-> expired[u]]]
  BY <1>1
<1>3. /\ DOMAIN users \subseteq Users
      /\ \A u \in DOMAIN users : /\ users[u] \in Row
                                 /\ users[u].active = TRUE /\ users[u].epoch = 1
  BY <1>2 DEF Row, Epochs
<1>4. /\ DOMAIN told = DOMAIN users
      /\ \A u \in DOMAIN users : told[u] = [role |-> users[u].role, active |-> TRUE]
  BY DEF Init
<1>5. \A u \in DOMAIN users : told[u] = [role |-> users[u].role, active |-> users[u].active]
  BY <1>3, <1>4
<1>6. \A u \in DOMAIN users : told[u] \in Told
  <2>1. \A u \in DOMAIN users : users[u].role \in Roles
    BY <1>3 DEF Row
  <2>2. \A r \in Roles : [role |-> r, active |-> TRUE] \in Told
    BY DEF Told
  <2> QED BY <1>4, <2>1, <2>2
<1>7. PICK B \in SUBSET Clients : \E user \in [B -> DOMAIN users] :
        cookies = [c \in B |-> [user |-> user[c], epoch |-> 1]]
  BY DEF Init
<1>8. PICK user \in [B -> DOMAIN users] : cookies = [c \in B |-> [user |-> user[c], epoch |-> 1]]
  BY <1>7
<1>9. /\ DOMAIN cookies \subseteq Clients
      /\ \A c \in DOMAIN cookies : cookies[c] \in Principal /\ Sound(cookies[c])
  BY <1>3, <1>8 DEF Principal, Epochs, Sound
<1>10. /\ req = [c \in Clients |-> [step |-> "idle", answer |-> "none"]]
       /\ asked = 0 /\ alone = TRUE /\ ActiveRoots(users) # {}
  BY DEF Init
<1>11. \A c \in Clients : RequestOK(req[c]) /\ Held(req[c]) /\ Fits(req[c]) /\ At(c, "idle")
  BY <1>10, AnswersHoldNothing DEF Answers, At
<1>12. TypeOK
  BY <1>3, <1>4, <1>6, <1>9, <1>10, <1>11, AccountsAssumption DEF TypeOK
<1>13. OneAtATime
  BY <1>5, <1>9, <1>10, <1>11 DEF OneAtATime, ActiveRoots, IsRoot
<1> QED BY <1>11, <1>12, <1>13 DEF IInv

(* The invariant holds of every behaviour.                                 *)
THEOREM Invariance == Spec => []IInv
BY Initial, Inductive, PTL DEF Spec

-----------------------------------------------------------------------------
(* The rows keep their types, and as long as requests come one after the   *)
(* other the trail agrees on the role and on who is active (Update of      *)
(* internal/auth/auth.go).                                                 *)
THEOREM TrailAgreesAlone == Spec => []UsersTold
<1>1. IInv => UsersTold
  BY DEF IInv, OneAtATime, UsersTold, TrailTellsAlone
<1> QED BY <1>1, Invariance, PTL

(* As long as requests come one after the other, somebody can open the     *)
(* users section: a root who edits themselves keeps it (locksOut of        *)
(* internal/auth/auth.go).                                                 *)
THEOREM RootStaysAlone == Spec => []RootRemainsAlone
<1>1. IInv => RootRemainsAlone
  BY DEF IInv, OneAtATime, RootRemainsAlone, RootRemains, ActiveRoots, IsRoot
<1> QED BY <1>1, Invariance, PTL

(* A write of a row, as long as nobody else writes: a cookie that stood    *)
(* for nobody stands for nobody, and a closed account or a new password    *)
(* leaves no cookie of its user.                                           *)
LEMMA WriteEnds ==
  ASSUME IInv, alone, NEW c \in Clients, WriteUser(c), NEW p \in Principal, Sound(p)
  PROVE  /\ ~Resolves(p, users) => ~Resolves(p, users')
         /\ /\ "passwd" \in req[c].fields \/ ~req[c].row.active
            /\ p.user = req[c].at
            => ~Resolves(p, users')
<1>1. PICK u, row, fields, renew :
        u = req[c].at /\ row = req[c].row /\ fields = req[c].fields /\ renew = req[c].renew
  OBVIOUS
<1>2. /\ req[c].step = "write" /\ row \in Row /\ u \in DOMAIN users /\ users[u] \in Row
      /\ users' = Updated(u, row)
  BY <1>1 DEF WriteUser, At, IInv, TypeOK, RequestOK, Held
<1>3. WriteFits(Write(u, row, fields, renew))
  BY <1>1, <1>2 DEF IInv, OneAtATime, Fits, WriteFits, Write
<1>4. /\ DOMAIN users' = DOMAIN users /\ users'[u] = row
      /\ \A v \in DOMAIN users \ {u} : users'[v] = users[v]
  BY <1>2 DEF Updated
<1>5. CASE p.user # u
  BY <1>1, <1>4, <1>5 DEF Resolves, Sound
<1>6. CASE p.user = u
  <2>1. p.epoch \in Nat /\ users[u].epoch \in Nat /\ row.epoch \in Nat
    BY <1>2 DEF Row, Principal, Epochs
  <2>2. /\ p.epoch <= users[u].epoch
        /\ ~users[u].active => p.epoch < users[u].epoch
    BY <1>6 DEF Sound
  <2>3. /\ users[u].epoch <= row.epoch
        /\ "passwd" \in fields => users[u].epoch < row.epoch
    BY <1>3 DEF WriteFits, Write
  <2>4. ASSUME ~Resolves(p, users) PROVE ~Resolves(p, users')
    <3>1. ~users[u].active \/ users[u].epoch # p.epoch
      BY <1>2, <1>6, <2>4 DEF Resolves
    <3>2. p.epoch < row.epoch
      BY <2>1, <2>2, <2>3, <3>1
    <3>3. row.epoch # p.epoch
      BY <2>1, <3>2
    <3> QED BY <1>4, <1>6, <3>3 DEF Resolves
  <2>5. ASSUME "passwd" \in fields \/ ~row.active PROVE ~Resolves(p, users')
    <3>1. CASE "passwd" \in fields
      <4>1. row.epoch # p.epoch
        BY <2>1, <2>2, <2>3, <3>1
      <4> QED BY <1>4, <1>6, <4>1 DEF Resolves
    <3>2. CASE ~row.active
      BY <1>4, <1>6, <3>2 DEF Resolves
    <3> QED BY <2>5, <3>1, <3>2
  <2> QED BY <1>1, <2>4, <2>5
<1> QED BY <1>5, <1>6

(* No other step writes a row there is while nobody else writes.           *)
LEMMA OnlyWrites ==
  ASSUME IInv, alone, Next, NEW u \in DOMAIN users
  PROVE  \/ \E c \in Clients : WriteUser(c)
         \/ u \in DOMAIN users' /\ users'[u] = users[u]
<1>1. ASSUME NEW c \in Clients, Rehash(c) PROVE u \in DOMAIN users' /\ users'[u] = users[u]
  <2>1. PICK v, row : v = req[c].at /\ row = req[c].row
    OBVIOUS
  <2>2. row = users[v]
    BY <1>1, <2>1 DEF Rehash, At, IInv, OneAtATime, Fits
  <2>3. users' \in {users, Updated(v, row)}
    BY <1>1, <2>1 DEF Rehash
  <2> QED BY <2>2, <2>3 DEF Updated
<1>2. ASSUME Invite PROVE u \in DOMAIN users' /\ users'[u] = users[u]
  BY <1>2 DEF Invite, Create
<1>3. ASSUME NEW c \in Clients,
             \/ SubmitLogin(c) \/ VerifyLogin(c) \/ SetSession(c) \/ DropSession(c)
             \/ SendRequest(c) \/ Gate(c) \/ HoldChange(c) \/ HoldReset(c) \/ HoldEdit(c)
             \/ Fail(c)
      PROVE  users' = users
  BY <1>3 DEF SubmitLogin, VerifyLogin, SetSession, DropSession, SendRequest, Gate,
              HoldChange, HoldReset, HoldEdit, Fail, Begin
<1> QED BY <1>1, <1>2, <1>3 DEF Next, Step, UserAdd, CreateUser

(* As long as requests come one after the other, a session that ended      *)
(* stays ended, and a closed account or a new password ends the sessions   *)
(* of every device (Resolve compares the epochs, internal/auth/auth.go).   *)
THEOREM SessionsEndForGood == Spec => SessionsEndAlone
<1> DEFINE Ended  == alone' => \A c \in DOMAIN cookies \cap DOMAIN cookies' :
                       cookies'[c] = cookies[c] /\ ~Resolves(cookies[c], users)
                         => ~Resolves(cookies[c], users')
           Writing == \A c \in Clients :
                       /\ alone' /\ WriteUser(c)
                       /\ "passwd" \in req[c].fields \/ ~req[c].row.active
                       => \A d \in DOMAIN cookies' :
                            cookies'[d].user = req[c].at => ~Resolves(cookies'[d], users')
<1>1. ASSUME IInv, [Next]_vars, alone' PROVE alone
  BY <1>1 DEF vars, Next, Step, UserAdd, SubmitLogin, VerifyLogin, Rehash, SetSession,
              DropSession, SendRequest, Gate, CreateUser, HoldChange, HoldReset, HoldEdit,
              WriteUser, Fail, Begin, Ask
<1>2. ASSUME IInv, [Next]_vars PROVE Ended
  <2> SUFFICES ASSUME alone, NEW c \in DOMAIN cookies, ~Resolves(cookies[c], users)
               PROVE  ~Resolves(cookies[c], users')
    BY <1>1, <1>2
  <2>1. PICK p \in Principal : p = cookies[c]
    BY <1>2 DEF IInv, TypeOK
  <2>2. Sound(p)
    BY <1>2, <2>1 DEF IInv, OneAtATime
  <2>3. CASE users' = users
    BY <2>3
  <2>4. CASE Next
    <3>1. \/ \E d \in Clients : WriteUser(d)
          \/ p.user \in DOMAIN users' /\ users'[p.user] = users[p.user]
      BY <1>2, <2>2, <2>4, OnlyWrites DEF Sound
    <3>2. ASSUME NEW d \in Clients, WriteUser(d) PROVE ~Resolves(p, users')
      BY <1>2, <2>1, <2>2, <3>2, WriteEnds
    <3>3. CASE p.user \in DOMAIN users' /\ users'[p.user] = users[p.user]
      BY <2>1, <2>2, <3>3 DEF Resolves, Sound
    <3> QED BY <2>1, <3>1, <3>2, <3>3
  <2> QED BY <1>2, <2>3, <2>4 DEF vars
<1>3. ASSUME IInv, [Next]_vars PROVE Writing
  <2> SUFFICES ASSUME alone, NEW c \in Clients, WriteUser(c),
                      "passwd" \in req[c].fields \/ ~req[c].row.active,
                      NEW d \in DOMAIN cookies', cookies'[d].user = req[c].at
               PROVE  ~Resolves(cookies'[d], users')
    BY <1>1, <1>3
  <2>1. cookies' = cookies
    BY DEF WriteUser
  <2>2. PICK p \in Principal : p = cookies[d]
    BY <1>3, <2>1 DEF IInv, TypeOK
  <2>3. Sound(p) /\ p.user = req[c].at
    BY <1>3, <2>1, <2>2 DEF IInv, OneAtATime
  <2>4. ~Resolves(p, users')
    BY <1>3, <2>3, WriteEnds
  <2> QED BY <2>1, <2>2, <2>4
<1>4. ASSUME IInv, [Next]_vars PROVE [Ended]_vars /\ [Writing]_vars
  BY <1>2, <1>3, <1>4
<1> HIDE DEF Ended, Writing
<1>5. Spec => [][Ended]_vars /\ [][Writing]_vars
  BY <1>4, Invariance, PTL DEF Spec
<1> QED BY <1>5 DEF SessionsEndAlone, EndedStaysEndedAlone, WriteEndsSessionsAlone, Ended, Writing
-----------------------------------------------------------------------------
(* The throttle.                                                           *)

(* A record as Fail leaves it: seen before now, waiting by its attempts.   *)
Kempt(record) ==
  /\ record.seen <= now
  /\ record.until = IF record.attempts >= Free
                    THEN record.seen + Window(record.attempts) ELSE 0

(* The inductive invariant: with the moment of a failure no later than     *)
(* now, its window ends before the sweep would take it.                    *)
Orderly ==
  /\ ThrottleTypeOK
  /\ IsFiniteSet(DOMAIN failed)
  /\ \A k \in DOMAIN failed : Kempt(failed[k])

(* The failures of a key, as its record counts them, and the attempts at   *)
(* it that are open.                                                       *)
Count(k) == IF k \in DOMAIN failed THEN failed[k].attempts ELSE 0

OpenOn(k) == {c \in Attempts : open[c] = k}

(* No more failures are counted, or may be yet, than attempts were made.   *)
Counted == \A k \in Keys : Count(k) + Cardinality(OpenOn(k)) <= tries

-----------------------------------------------------------------------------
(* Arithmetic, and the window.                                             *)

(* Powers of two grow.                                                     *)
LEMMA PowersGrow ==
  ASSUME NEW n \in 0..(Width + MaxTries)
  PROVE  /\ 2^n \in Nat \ {0} /\ 2^(n + 1) \in Nat \ {0}
         /\ 2^(n + 1) = 2 * 2^n
         /\ \A m \in 0..n : 2^m <= 2^n
<1> DEFINE Good == {m \in Nat : 2^m \in Nat \ {0} /\ \A i \in 0..m : 2^i <= 2^m}
<1>1. 0 \in Good
  <2>1. 2^0 = 1
    BY Powers
  <2>2. 2^0 \in Nat \ {0} /\ 2^0 <= 2^0
    BY <2>1
  <2>3. \A i \in 0..0 : 2^i = 2^0
    <3>1. \A i \in 0..0 : i = 0
      OBVIOUS
    <3> QED BY <3>1, Zenon
  <2>4. \A i \in 0..0 : 2^i <= 2^0
    BY <2>2, <2>3, Zenon
  <2> QED BY <2>2, <2>4, Zenon
<1>2. ASSUME NEW m \in 0..(Width + MaxTries), m \in Good PROVE m + 1 \in Good
  <2>1. 2^(m + 1) = 2 * 2^m
    BY Powers
  <2>2. 2^m \in Nat \ {0} /\ \A i \in 0..m : 2^i <= 2^m
    BY <1>2
  <2>3. ASSUME NEW i \in 0..(m + 1) PROVE 2^i <= 2^(m + 1)
    <3>1. CASE i = m + 1
      BY <2>1, <2>2, <3>1
    <3>2. CASE i \in 0..m
      <4>1. 2^i \in Int
        BY <3>2
      <4> QED BY <2>1, <2>2, <3>2, <4>1
    <3> QED BY <3>1, <3>2
  <2> QED BY <2>1, <2>2, <2>3
<1>3. PICK limit \in Nat : limit = Width + MaxTries
  BY ThrottleAssumption
<1> HIDE DEF Good
<1>4. 0..(limit + 1) \subseteq Good
  BY <1>1, <1>2, <1>3, UpTo
<1>5. n \in Good /\ n + 1 \in Good
  BY <1>3, <1>4
<1> QED BY <1>5, Powers DEF Good

(* A shift within MaxShift is an integer, and the product itself while it  *)
(* is below Half.                                                          *)
LEMMA ShiftIs ==
  ASSUME NEW over \in 0..MaxShift
  PROVE  /\ Shifted(over) \in Int
         /\ Base * 2^over \in Nat \ {0}
         /\ Base * 2^over < Half => Shifted(over) = Base * 2^over
<1>1. over \in 0..(Width + MaxTries) /\ Width - 1 \in 0..(Width + MaxTries)
  BY ThrottleAssumption DEF MaxShift
<1>2. 2^over \in Nat \ {0} /\ Half \in Nat \ {0}
  BY <1>1, PowersGrow DEF Half
<1>3. Base \in Nat \ {0}
  BY ThrottleAssumption
<1>4. PICK n : n = Base * 2^over
  OBVIOUS
<1>5. n \in Nat \ {0}
  BY <1>2, <1>3, <1>4
<1>6. Wrap(n) \in Int /\ (n < Half => Wrap(n) = n)
  BY <1>2, <1>5 DEF Wrap
<1> QED BY <1>4, <1>5, <1>6 DEF Shifted

(* A window is a duration no longer than the longest.                      *)
LEMMA WindowBound ==
  ASSUME NEW n \in Nat
  PROVE  Window(n) \in 0..Longest
<1>1. \A over \in 0..MaxShift : Shifted(over) \in Int
  BY ShiftIs
<1>2. Free \in Nat /\ Longest \in Nat /\ MaxShift \in Nat
  BY ThrottleAssumption DEF MaxShift
<1>3. CASE n - Free \in 0..MaxShift
  BY <1>1, <1>2, <1>3 DEF Window
<1>4. CASE n - Free \notin 0..MaxShift
  BY <1>2, <1>4 DEF Window
<1> QED BY <1>3, <1>4

(* The wait of a window in integers, which do not wrap.                    *)
Capped(waits) == IF waits > Longest THEN Longest ELSE waits

(* The window in machine integers is the wait in integers: below Half the  *)
(* shift is the product, from there on to MaxShift a shift that wraps is   *)
(* never taken for a window, and past MaxShift the product is too long.    *)
LEMMA WindowDoubles ==
  ASSUME NEW over \in 0..MaxTries
  PROVE  Window(Free + over) = Capped(Base * 2^over)
<1>1. /\ Free \in Nat /\ Longest \in Nat /\ MaxShift \in Nat /\ Longest < Half
      /\ Base \in Nat \ {0} /\ over \in 0..(Width + MaxTries) /\ Width \in Nat \ {0, 1}
  BY ThrottleAssumption DEF MaxShift
<1>2. (Free + over) - Free = over
  BY <1>1
<1>3. CASE over \in 0..MaxShift
  <2>1. PICK n : n = Base * 2^over
    OBVIOUS
  <2>2. PICK s : s = Shifted(over)
    OBVIOUS
  <2>3. Window(Free + over) = IF s > Longest \/ s <= 0 THEN Longest ELSE s
    BY <1>1, <1>2, <1>3, <2>2 DEF Window
  <2>4. s \in Int /\ n \in Nat \ {0} /\ (n < Half => s = n)
    BY <1>3, <2>1, <2>2, ShiftIs
  <2>5. n >= Half => s \notin 1..Longest
    BY <1>3, <2>1, <2>2, ShiftsWrapOut
  <2>6. Half \in Nat
    BY <1>1, PowersGrow DEF Half
  <2>7. Window(Free + over) = Capped(n)
    BY <1>1, <2>3, <2>4, <2>5, <2>6 DEF Capped
  <2> QED BY <2>1, <2>7
<1>4. CASE over > MaxShift
  <2>1. Window(Free + over) = Longest
    BY <1>1, <1>2, <1>4 DEF Window
  <2>2. Width - 1 \in 0..over
    BY <1>1, <1>4 DEF MaxShift
  <2>3. 2^over \in Nat /\ Half <= 2^over /\ Half \in Nat
    BY <1>1, <2>2, PowersGrow DEF Half
  <2>4. PICK p : p = 2^over
    OBVIOUS
  <2>5. p \in Nat /\ Longest < p
    BY <1>1, <2>3, <2>4
  <2>6. Base * p > Longest
    <3>1. Base * p >= p
      BY <1>1, <2>5
    <3> QED BY <1>1, <2>5, <3>1
  <2> QED BY <2>1, <2>4, <2>6 DEF Capped
<1> QED BY <1>1, <1>3, <1>4

(* One more attempt never shortens a window.                               *)
LEMMA WindowGrows ==
  ASSUME NEW n \in Nat, n + 1 <= MaxTries
  PROVE  Window(n) <= Window(n + 1)
<1>1. Free \in Nat /\ Longest \in Nat /\ MaxTries \in Nat /\ Base \in Nat \ {0}
  BY ThrottleAssumption
<1>2. Window(n) \in 0..Longest /\ Window(n + 1) \in 0..Longest
  BY WindowBound
<1>3. CASE n < Free
  <2>1. Window(n) = 0
    BY <1>1, <1>3 DEF Window
  <2> QED BY <2>1, <1>1, <1>2
<1>4. CASE n >= Free
  <2>1. PICK over \in 0..MaxTries : n = Free + over /\ over + 1 \in 0..MaxTries
    BY <1>1, <1>4
  <2>2. n + 1 = Free + (over + 1)
    BY <1>1, <2>1
  <2>3. Window(n) = Capped(Base * 2^over) /\ Window(n + 1) = Capped(Base * 2^(over + 1))
    BY <2>1, <2>2, WindowDoubles
  <2>4. over \in 0..(Width + MaxTries)
    BY <2>1, ThrottleAssumption
  <2>5. 2^over \in Nat \ {0} /\ 2^(over + 1) = 2 * 2^over
    BY <2>4, PowersGrow
  <2>6. PICK p : p = 2^over
    OBVIOUS
  <2>7. Base * p \in Nat /\ Base * (2 * p) = 2 * (Base * p)
    BY <1>1, <2>5, <2>6
  <2>8. Capped(Base * p) <= Capped(2 * (Base * p))
    BY <1>1, <2>7 DEF Capped
  <2> QED BY <2>3, <2>5, <2>6, <2>7, <2>8
<1> QED BY <1>1, <1>3, <1>4

(* What Fail leaves in the map: kempt records, and no more keys than those *)
(* it kept and its own.                                                    *)
LEMMA FailKeeps ==
  ASSUME Orderly, NEW k \in Keys, FailKey(k)
  PROVE  /\ DOMAIN failed' = Kept(k) \cup {k}
         /\ \A j \in DOMAIN failed' : /\ failed'[j] \in Record
                                      /\ Kempt(failed'[j])
         /\ \A j \in DOMAIN failed' \ {k} : failed'[j] = failed[j]
         /\ failed'[k].seen = now
         /\ DOMAIN failed' \subseteq Keys
         /\ IsFiniteSet(DOMAIN failed')
<1> DEFINE attempts == IF k \in DOMAIN failed THEN failed[k].attempts + 1 ELSE 1
           until    == IF attempts >= Free THEN now + Window(attempts) ELSE 0
<1>1. failed' = [j \in Kept(k) \cup {k} |->
                   IF j = k THEN [attempts |-> attempts, until |-> until, seen |-> now]
                   ELSE failed[j]]
  BY DEF FailKey
<1>2. Kept(k) \subseteq DOMAIN failed
  BY DEF Kept
<1>3. attempts \in Nat \ {0} /\ now \in Nat
  BY DEF Orderly, ThrottleTypeOK, Record
<1>4. Window(attempts) \in Nat
  <2>1. Window(attempts) \in 0..Longest
    BY <1>3, WindowBound
  <2> QED BY <2>1, ThrottleAssumption
<1>5. until \in Nat
  BY <1>3, <1>4
<1> HIDE DEF attempts
<1>6. failed'[k] = [attempts |-> attempts, until |-> until, seen |-> now]
  BY <1>1
<1>7. failed'[k] \in Record /\ Kempt(failed'[k])
  <2>1. failed'[k] \in Record
    BY <1>3, <1>5, <1>6 DEF Record
  <2>2. Kempt(failed'[k])
    BY <1>3, <1>6 DEF Kempt
  <2> QED BY <2>1, <2>2
<1>8. \A j \in DOMAIN failed' \ {k} : j \in DOMAIN failed /\ failed'[j] = failed[j]
  BY <1>1, <1>2
<1>9. DOMAIN failed' = Kept(k) \cup {k}
  BY <1>1
<1>10. IsFiniteSet(DOMAIN failed')
  <2>1. IsFiniteSet(Kept(k))
    BY <1>2, FS_Subset DEF Orderly
  <2> QED BY <2>1, <1>9, FS_AddElement
<1>11. DOMAIN failed' \subseteq Keys
  BY <1>2, <1>9 DEF Orderly, ThrottleTypeOK
<1>12. \A j \in DOMAIN failed' : failed'[j] \in Record /\ Kempt(failed'[j])
  BY <1>7, <1>8 DEF Orderly, ThrottleTypeOK
<1> QED BY <1>6, <1>8, <1>9, <1>10, <1>11, <1>12

(* Every step keeps the records kempt.                                     *)
LEMMA StaysOrderly ==
  ASSUME Orderly, [ThrottleNext]_throttleVars
  PROVE  Orderly'
<1>1. CASE UNCHANGED throttleVars
  BY <1>1 DEF Orderly, ThrottleTypeOK, Kempt, throttleVars
<1>2. CASE Tick
  <2>1. now' \in Nat /\ now <= now'
    BY <1>2, ThrottleAssumption DEF Tick, Orderly, ThrottleTypeOK
  <2>2. UNCHANGED <<failed, open, tries, single>>
    BY <1>2 DEF Tick
  <2>3. \A k \in DOMAIN failed : failed[k].seen \in Nat
    BY DEF Orderly, ThrottleTypeOK, Record
  <2>4. now \in Nat
    BY DEF Orderly, ThrottleTypeOK
  <2>5. ThrottleTypeOK'
    BY <2>1, <2>2 DEF Orderly, ThrottleTypeOK
  <2>6. \A k \in DOMAIN failed' : Kempt(failed[k])'
    BY <2>1, <2>2, <2>3, <2>4 DEF Orderly, Kempt
  <2> QED BY <2>2, <2>5, <2>6 DEF Orderly
<1>3. ASSUME NEW k \in Keys, ResetKey(k), UNCHANGED now,
             open' \in [Attempts -> {"idle"} \cup Keys], UNCHANGED <<tries, single>>
      PROVE  Orderly'
  <2>1. /\ DOMAIN failed' = DOMAIN failed \ {k}
        /\ \A j \in DOMAIN failed' : failed'[j] = failed[j]
    BY <1>3 DEF ResetKey
  <2>2. IsFiniteSet(DOMAIN failed')
    BY <2>1, FS_Subset DEF Orderly
  <2> QED BY <1>3, <2>1, <2>2 DEF Orderly, ThrottleTypeOK, Kempt
<1>4. ASSUME NEW k \in Keys, Forgive(k)
      PROVE  Orderly'
  <2>1. open' \in [Attempts -> {"idle"} \cup Keys]
    BY <1>4 DEF Forgive, Orderly, ThrottleTypeOK
  <2> QED BY <1>3, <1>4, <2>1 DEF Forgive
<1>5. ASSUME NEW c \in Attempts, NEW k \in Keys, Try(c, k)
      PROVE  Orderly'
  <2>1. tries' \in 0..MaxTries
    BY <1>5, ThrottleAssumption DEF Try, Orderly, ThrottleTypeOK
  <2>2. single' \in BOOLEAN
    <3>1. single \in BOOLEAN
      BY DEF Orderly, ThrottleTypeOK
    <3>2. single' = (single /\ \A d \in Attempts : open[d] = "idle")
      BY <1>5 DEF Try
    <3> QED BY <3>1, <3>2, Zenon
  <2>3. open' \in [Attempts -> {"idle"} \cup Keys]
    BY <1>5 DEF Try, Orderly, ThrottleTypeOK
  <2>4. UNCHANGED <<failed, now>>
    BY <1>5 DEF Try
  <2> QED BY <2>1, <2>2, <2>3, <2>4 DEF Orderly, ThrottleTypeOK, Kempt
<1>6. ASSUME NEW c \in Attempts, Wrong(c)
      PROVE  Orderly'
  <2>1. open[c] \in Keys /\ FailKey(open[c])
    BY <1>6 DEF Wrong, Orderly, ThrottleTypeOK
  <2>2. open' \in [Attempts -> {"idle"} \cup Keys] /\ UNCHANGED <<now, tries, single>>
    BY <1>6 DEF Wrong, Orderly, ThrottleTypeOK
  <2>3. /\ DOMAIN failed' \subseteq Keys /\ IsFiniteSet(DOMAIN failed')
        /\ \A j \in DOMAIN failed' : failed'[j] \in Record /\ Kempt(failed'[j])
    BY <2>1, FailKeeps
  <2>4. ThrottleTypeOK'
    BY <2>2, <2>3 DEF Orderly, ThrottleTypeOK
  <2>5. \A j \in DOMAIN failed' : Kempt(failed[j])'
    BY <2>2, <2>3 DEF Kempt
  <2> QED BY <2>3, <2>4, <2>5 DEF Orderly
<1>7. ASSUME NEW c \in Attempts, Right(c)
      PROVE  Orderly'
  <2>1. open[c] \in Keys /\ open' \in [Attempts -> {"idle"} \cup Keys]
    BY <1>7 DEF Right, Orderly, ThrottleTypeOK
  <2> QED BY <1>3, <1>7, <2>1 DEF Right
<1>8. ASSUME NEW c \in Attempts, GiveUp(c)
      PROVE  Orderly'
  <2>1. open' \in [Attempts -> {"idle"} \cup Keys] /\ UNCHANGED <<failed, now, tries, single>>
    BY <1>8 DEF GiveUp, Orderly, ThrottleTypeOK
  <2> QED BY <2>1 DEF Orderly, ThrottleTypeOK, Kempt
<1> QED BY <1>1, <1>2, <1>4, <1>5, <1>6, <1>7, <1>8 DEF ThrottleNext

(* The attempts open on a key are finitely many.                           *)
LEMMA OpenOnIsFinite ==
  ASSUME NEW k
  PROVE  IsFiniteSet(OpenOn(k)) /\ Cardinality(OpenOn(k)) \in Nat
<1>1. OpenOn(k) \subseteq Attempts
  BY DEF OpenOn
<1> QED BY <1>1, ThrottleAssumption, FS_Subset, FS_CardinalityType

(* A step that counts no failure of a key and opens no attempt at it.      *)
LEMMA CountsLess ==
  ASSUME Orderly, Counted, NEW k \in Keys, Count(k)' \in Nat, Count(k)' <= Count(k),
         OpenOn(k)' \subseteq OpenOn(k), tries' \in Nat, tries <= tries'
  PROVE  Count(k)' + Cardinality(OpenOn(k)') <= tries'
<1>1. /\ Cardinality(OpenOn(k)) \in Nat
      /\ Cardinality(OpenOn(k)') \in Nat /\ Cardinality(OpenOn(k)') <= Cardinality(OpenOn(k))
  BY OpenOnIsFinite, FS_Subset, FS_CardinalityType
<1>2. Count(k) \in Nat /\ tries \in Nat
  BY ThrottleAssumption DEF Count, Orderly, ThrottleTypeOK, Record
<1>3. Count(k) + Cardinality(OpenOn(k)) <= tries
  BY DEF Counted
<1> QED BY <1>1, <1>2, <1>3

(* An attempt is counted when it begins, and its failure in its place.     *)
LEMMA StaysCounted ==
  ASSUME Orderly, Counted, [ThrottleNext]_throttleVars
  PROVE  Counted'
<1>1. tries \in Nat /\ \A k : Count(k) \in Nat
  BY ThrottleAssumption DEF Count, Orderly, ThrottleTypeOK, Record
<1>2. ASSUME UNCHANGED <<failed, open, tries>> PROVE Counted'
  BY <1>2 DEF Counted, Count, OpenOn
<1>3. ASSUME NEW j \in Keys, ResetKey(j), UNCHANGED tries,
             \A k \in Keys : OpenOn(k)' \subseteq OpenOn(k)
      PROVE  Counted'
  <2>1. ASSUME NEW k \in Keys PROVE Count(k)' \in Nat /\ Count(k)' <= Count(k)
    <3>1. Count(k)' \in {0, Count(k)}
      BY <1>3 DEF ResetKey, Count
    <3> QED BY <1>1, <3>1
  <2> QED BY <1>1, <1>3, <2>1, CountsLess DEF Counted
<1>4. ASSUME NEW c \in Attempts, NEW j \in Keys, Try(c, j) PROVE Counted'
  <2>1. UNCHANGED failed /\ tries' = tries + 1
    BY <1>4 DEF Try
  <2>2. \A k : Count(k)' = Count(k)
    BY <2>1 DEF Count
  <2>3. \A k : OpenOn(k)' \subseteq OpenOn(k) \cup {c}
    BY <1>4 DEF Try, OpenOn, Orderly, ThrottleTypeOK
  <2>4. ASSUME NEW k \in Keys PROVE Count(k)' + Cardinality(OpenOn(k)') <= tries'
    <3>1. /\ IsFiniteSet(OpenOn(k) \cup {c})
          /\ Cardinality(OpenOn(k) \cup {c}) \in Nat
          /\ Cardinality(OpenOn(k) \cup {c}) <= Cardinality(OpenOn(k)) + 1
          /\ Cardinality(OpenOn(k)) \in Nat
      <4>1. IsFiniteSet(OpenOn(k)) /\ Cardinality(OpenOn(k)) \in Nat
        BY OpenOnIsFinite
      <4>2. /\ IsFiniteSet(OpenOn(k) \cup {c})
            /\ Cardinality(OpenOn(k) \cup {c}) \in {Cardinality(OpenOn(k)), Cardinality(OpenOn(k)) + 1}
        BY <4>1, FS_AddElement
      <4> QED BY <4>1, <4>2
    <3>2. /\ Cardinality(OpenOn(k)') \in Nat
          /\ Cardinality(OpenOn(k)') <= Cardinality(OpenOn(k) \cup {c})
      BY <2>3, <3>1, FS_Subset, FS_CardinalityType
    <3>3. Count(k) + Cardinality(OpenOn(k)) <= tries
      BY DEF Counted
    <3> QED BY <1>1, <2>1, <2>2, <3>1, <3>2, <3>3
  <2> QED BY <2>4 DEF Counted
<1>5. ASSUME NEW c \in Attempts, open[c] # "idle", open' = [open EXCEPT ![c] = "idle"]
      PROVE  /\ open[c] \in Keys
             /\ \A k \in Keys : OpenOn(k)' = OpenOn(k) \ {c}
             /\ \A k \in Keys : c \in OpenOn(k) => k = open[c]
             /\ c \in OpenOn(open[c])
  BY <1>5, ThrottleAssumption DEF OpenOn, Orderly, ThrottleTypeOK
<1>6. ASSUME NEW c \in Attempts, Right(c) \/ GiveUp(c) PROVE Counted'
  <2>1. open[c] \in Keys /\ \A k \in Keys : OpenOn(k)' \subseteq OpenOn(k)
    BY <1>5, <1>6 DEF Right, GiveUp
  <2>2. CASE Right(c)
    BY <1>3, <2>1, <2>2 DEF Right
  <2>3. CASE GiveUp(c)
    <3>1. UNCHANGED <<failed, tries>>
      BY <2>3 DEF GiveUp
    <3>2. \A k \in Keys : Count(k)' = Count(k)
      BY <3>1 DEF Count
    <3> QED BY <1>1, <2>1, <3>1, <3>2, CountsLess DEF Counted
  <2> QED BY <1>6, <2>2, <2>3
<1>7. ASSUME NEW c \in Attempts, Wrong(c) PROVE Counted'
  <2>1. /\ open[c] \in Keys /\ FailKey(open[c]) /\ UNCHANGED tries
        /\ \A k \in Keys : OpenOn(k)' = OpenOn(k) \ {c}
        /\ c \in OpenOn(open[c])
    BY <1>5, <1>7 DEF Wrong
  <2>2. PICK j \in Keys : j = open[c]
    BY <2>1
  <2>3. Count(j)' = Count(j) + 1
    BY <2>1, <2>2 DEF FailKey, Count
  <2>4. ASSUME NEW k \in Keys, k # j PROVE Count(k)' \in {0, Count(k)}
    BY <2>1, <2>2, <2>4 DEF FailKey, Kept, Count
  <2>5. ASSUME NEW k \in Keys PROVE Count(k)' + Cardinality(OpenOn(k)') <= tries'
    <3>1. CASE k # j
      <4>1. Count(k)' \in Nat /\ Count(k)' <= Count(k)
        BY <1>1, <2>4, <3>1
      <4> QED BY <1>1, <2>1, <4>1, CountsLess
    <3>2. CASE k = j
      <4>1. /\ Cardinality(OpenOn(j)) \in Nat
            /\ Cardinality(OpenOn(j)') = Cardinality(OpenOn(j)) - 1
        BY <2>1, <2>2, OpenOnIsFinite, FS_RemoveElement
      <4>2. Count(j) + Cardinality(OpenOn(j)) <= tries
        BY DEF Counted
      <4> QED BY <1>1, <2>1, <2>3, <3>2, <4>1, <4>2
    <3> QED BY <3>1, <3>2
  <2> QED BY <2>5 DEF Counted
<1>8. CASE Tick
  BY <1>2, <1>8 DEF Tick
<1>9. ASSUME NEW k \in Keys, Forgive(k) PROVE Counted'
  BY <1>3, <1>9 DEF Forgive, OpenOn
<1>10. CASE UNCHANGED throttleVars
  BY <1>2, <1>10 DEF throttleVars
<1> QED BY <1>4, <1>6, <1>7, <1>8, <1>9, <1>10 DEF ThrottleNext

(* A failure that is counted leaves a count the bound on attempts covers.  *)
LEMMA FailsWithin ==
  ASSUME Orderly, Counted, NEW c \in Attempts, Wrong(c)
  PROVE  open[c] \in Keys /\ Count(open[c]) + 1 <= MaxTries
<1>1. open[c] \in Keys
  BY DEF Wrong, Orderly, ThrottleTypeOK
<1>2. c \in OpenOn(open[c])
  BY DEF OpenOn
<1>3. Cardinality(OpenOn(open[c])) \in Nat /\ Cardinality(OpenOn(open[c])) # 0
  BY <1>2, OpenOnIsFinite, FS_EmptySet
<1>4. Count(open[c]) + Cardinality(OpenOn(open[c])) <= tries
  BY <1>1 DEF Counted
<1>5. Count(open[c]) \in Nat /\ tries \in Nat /\ tries <= MaxTries /\ MaxTries \in Nat
  BY ThrottleAssumption DEF Count, Orderly, ThrottleTypeOK, Record
<1> QED BY <1>1, <1>3, <1>4, <1>5

(* The invariant holds of every state.                                     *)
THEOREM ThrottleInvariance == ThrottleSpec => [](Orderly /\ Counted)
<1>1. NewThrottle => Orderly /\ Counted
  <2> SUFFICES ASSUME NewThrottle PROVE Orderly /\ Counted
    OBVIOUS
  <2>1. DOMAIN failed = {}
    BY DEF NewThrottle
  <2>2. IsFiniteSet(DOMAIN failed)
    BY <2>1, FS_EmptySet
  <2>3. ThrottleTypeOK
    BY <2>1, ThrottleAssumption DEF NewThrottle, ThrottleTypeOK
  <2>4. \A k \in Keys : OpenOn(k) = {} /\ Count(k) = 0
    BY <2>1, ThrottleAssumption DEF NewThrottle, OpenOn, Count
  <2>5. Counted
    <3>1. \A k \in Keys : Cardinality(OpenOn(k)) = 0 /\ Count(k) = 0
      BY <2>4, FS_EmptySet
    <3>2. tries = 0
      BY DEF NewThrottle
    <3> QED BY <3>1, <3>2 DEF Counted
  <2> QED BY <2>1, <2>2, <2>3, <2>5 DEF Orderly
<1>2. Orderly /\ Counted /\ [ThrottleNext]_throttleVars => (Orderly /\ Counted)'
  BY StaysOrderly, StaysCounted
<1> QED BY <1>1, <1>2, PTL DEF ThrottleSpec

-----------------------------------------------------------------------------
(* Every record waits by its number of attempts: the shift of a machine    *)
(* integer, its overflow and the cap come to the product of the first      *)
(* window and a power of two, or to the longest window (window of          *)
(* throttle.go).                                                           *)
THEOREM WaitsDouble == ThrottleSpec => []RecordsDouble
<1>1. Orderly /\ Counted => RecordsDouble
  <2> SUFFICES ASSUME Orderly, Counted, NEW k \in DOMAIN failed, failed[k].attempts >= Free
               PROVE  failed[k].until =
                        failed[k].seen + Capped(Base * 2^(failed[k].attempts - Free))
    BY DEF RecordsDouble, Doubles, Orderly, Capped
  <2>1. k \in Keys /\ failed[k].attempts \in Nat
    BY DEF Orderly, ThrottleTypeOK, Record
  <2>2. Cardinality(OpenOn(k)) \in Nat /\ Count(k) = failed[k].attempts
    BY OpenOnIsFinite DEF Count
  <2>3. failed[k].attempts <= MaxTries
    <3>1. tries \in Nat /\ tries <= MaxTries /\ MaxTries \in Nat
      BY ThrottleAssumption DEF Orderly, ThrottleTypeOK
    <3>2. Count(k) + Cardinality(OpenOn(k)) <= tries
      BY <2>1 DEF Counted
    <3> QED BY <2>1, <2>2, <3>1, <3>2
  <2>4. PICK over \in 0..MaxTries : failed[k].attempts = Free + over
    <3> DEFINE past == failed[k].attempts - Free
    <3>1. Free \in Nat /\ MaxTries \in Nat
      BY ThrottleAssumption
    <3>2. past \in 0..MaxTries /\ failed[k].attempts = Free + past
      BY <2>1, <2>3, <3>1
    <3> HIDE DEF past
    <3> QED BY <3>2
  <2>5. failed[k].attempts - Free = over
    BY <2>4, ThrottleAssumption
  <2>6. failed[k].until = failed[k].seen + Window(Free + over)
    BY <2>4 DEF Orderly, Kempt
  <2> QED BY <2>5, <2>6, WindowDoubles
<1> QED BY <1>1, ThrottleInvariance, PTL

(* A key that waits goes on waiting to the end of its window at least: no  *)
(* failure shortens it and no sweep takes it away.                         *)
THEOREM WaitsStand == ThrottleSpec => WaitStands
<1> DEFINE Stands(k) ==
      Waiting(k) => \/ ResetKey(k)
                    \/ /\ k \in DOMAIN failed'
                       /\ failed'[k].until >= failed[k].until
<1>1. ASSUME Orderly, Counted, [ThrottleNext]_throttleVars, NEW k \in Keys, Waiting(k),
             ~ResetKey(k)
      PROVE  k \in DOMAIN failed' /\ failed'[k].until >= failed[k].until
  <2>1. /\ k \in DOMAIN failed /\ now < failed[k].until
        /\ failed[k] \in Record /\ Kempt(failed[k]) /\ now \in Nat
    BY <1>1 DEF Waiting, Orderly, ThrottleTypeOK
  <2>2. failed[k].attempts \in Nat /\ failed[k].until \in Nat /\ failed[k].seen \in Nat
    BY <2>1 DEF Record
  <2>3. /\ failed[k].attempts >= Free
        /\ failed[k].until = failed[k].seen + Window(failed[k].attempts)
        /\ failed[k].seen <= now
    BY <2>1, <2>2 DEF Kempt
  <2>4. Window(failed[k].attempts) \in 0..Longest /\ Longest \in Nat
    BY <2>2, WindowBound, ThrottleAssumption
  <2>5. ~(now - failed[k].seen > Longest)
    BY <2>1, <2>2, <2>3, <2>4
  <2>6. ASSUME NEW j \in Keys, ResetKey(j)
        PROVE  k \in DOMAIN failed' /\ failed'[k].until >= failed[k].until
    <3>1. j # k
      BY <1>1, <2>6
    <3>2. k \in DOMAIN failed' /\ failed'[k] = failed[k]
      BY <2>1, <2>6, <3>1 DEF ResetKey
    <3> QED BY <2>2, <3>2
  <2>7. ASSUME NEW j \in Keys, FailKey(j), Count(j) + 1 <= MaxTries
        PROVE  k \in DOMAIN failed' /\ failed'[k].until >= failed[k].until
    <3>1. k \in Kept(j)
      BY <2>1, <2>5 DEF Kept, Swept
    <3>2. CASE j # k
      <4>1. k \in DOMAIN failed' /\ failed'[k] = failed[k]
        BY <1>1, <2>7, <3>1, <3>2, FailKeeps
      <4> QED BY <2>2, <4>1
    <3>3. CASE j = k
      <4>1. failed'[k].until = now + Window(failed[k].attempts + 1)
        <5>1. /\ k \in DOMAIN failed'
              /\ failed'[k].until =
                   IF failed[k].attempts + 1 >= Free
                   THEN now + Window(failed[k].attempts + 1) ELSE 0
          BY <2>1, <2>7, <3>3 DEF FailKey
        <5> QED BY <5>1, <2>2, <2>3, ThrottleAssumption
      <4>2. Window(failed[k].attempts) <= Window(failed[k].attempts + 1)
        BY <2>1, <2>2, <2>7, <3>3, WindowGrows DEF Count
      <4>3. Window(failed[k].attempts + 1) \in 0..Longest
        BY <2>2, WindowBound
      <4>4. k \in DOMAIN failed'
        BY <2>7, <3>3 DEF FailKey
      <4> QED BY <2>1, <2>2, <2>3, <2>4, <4>1, <4>2, <4>3, <4>4
    <3> QED BY <3>2, <3>3
  <2>8. CASE UNCHANGED failed
    BY <2>1, <2>2, <2>8
  <2>9. \/ UNCHANGED failed
        \/ \E j \in Keys : ResetKey(j)
        \/ \E c \in Attempts : Wrong(c)
    BY <1>1 DEF ThrottleNext, Tick, Forgive, Try, Right, GiveUp, throttleVars, Orderly,
                ThrottleTypeOK
  <2>10. ASSUME NEW c \in Attempts, Wrong(c)
         PROVE  k \in DOMAIN failed' /\ failed'[k].until >= failed[k].until
    <3>1. PICK j \in Keys : j = open[c] /\ Count(j) + 1 <= MaxTries
      BY <1>1, <2>10, FailsWithin
    <3>2. FailKey(j)
      BY <2>10, <3>1 DEF Wrong
    <3> QED BY <2>7, <3>1, <3>2
  <2> QED BY <2>6, <2>8, <2>9, <2>10
<1>2. Orderly /\ Counted /\ [ThrottleNext]_throttleVars
        => [\A k \in Keys : Stands(k)]_throttleVars
  BY <1>1
<1>3. ThrottleSpec => [](Orderly /\ Counted)
  BY ThrottleInvariance
<1> QED BY <1>2, <1>3, PTL DEF ThrottleSpec, WaitStands

(* The map grows past SweepAt only while every key in it failed within the *)
(* longest window.                                                         *)
THEOREM FullIsRecent == ThrottleSpec => RecentWhenFull
<1> DEFINE Recent ==
      Cardinality(DOMAIN failed') > Cardinality(DOMAIN failed)
        /\ Cardinality(DOMAIN failed') > SweepAt
      => \A k \in DOMAIN failed' : now - failed'[k].seen <= Longest
<1>1. ASSUME Orderly, [ThrottleNext]_throttleVars,
             Cardinality(DOMAIN failed') > Cardinality(DOMAIN failed),
             Cardinality(DOMAIN failed') > SweepAt,
             NEW k \in DOMAIN failed'
      PROVE  now - failed'[k].seen <= Longest
  <2>1. IsFiniteSet(DOMAIN failed) /\ Cardinality(DOMAIN failed) \in Nat
    BY <1>1, FS_CardinalityType DEF Orderly
  <2>2. ASSUME NEW j \in Keys, ResetKey(j)
        PROVE  FALSE
    <3>1. DOMAIN failed' \subseteq DOMAIN failed
      BY <2>2 DEF ResetKey
    <3>2. Cardinality(DOMAIN failed') <= Cardinality(DOMAIN failed)
      BY <2>1, <3>1, FS_Subset
    <3>3. Cardinality(DOMAIN failed') \in Nat
      BY <2>1, <3>1, FS_Subset, FS_CardinalityType
    <3> QED BY <1>1, <2>1, <3>2, <3>3
  <2>3. PICK j \in Keys : FailKey(j)
    BY <1>1, <2>1, <2>2
    DEF ThrottleNext, Tick, Forgive, Try, Wrong, Right, GiveUp, throttleVars, Orderly, ThrottleTypeOK
  <2>4. /\ DOMAIN failed' = Kept(j) \cup {j}
        /\ \A i \in DOMAIN failed' \ {j} : failed'[i] = failed[i]
        /\ failed'[j].seen = now
    BY <1>1, <2>3, FailKeeps
  <2>5. j \notin DOMAIN failed
    <3> SUFFICES ASSUME j \in DOMAIN failed PROVE FALSE
      OBVIOUS
    <3>1. DOMAIN failed' = DOMAIN failed
      BY <2>4 DEF Kept
    <3> QED BY <1>1, <2>1, <3>1
  <2>6. Cardinality(DOMAIN failed) >= SweepAt
    <3> SUFFICES ASSUME ~(Cardinality(DOMAIN failed) >= SweepAt) PROVE FALSE
      OBVIOUS
    <3>1. DOMAIN failed' = DOMAIN failed \cup {j}
      BY <2>4 DEF Kept
    <3>2. Cardinality(DOMAIN failed') = Cardinality(DOMAIN failed) + 1
      BY <2>1, <2>5, <3>1, FS_AddElement
    <3> QED BY <1>1, <2>1, <3>2, ThrottleAssumption
  <2>7. CASE k = j
    BY <2>4, <2>7, <1>1, ThrottleAssumption DEF Orderly, ThrottleTypeOK
  <2>8. CASE k # j
    <3>1. k \in DOMAIN failed \ Swept(failed) /\ failed'[k] = failed[k]
      BY <1>1, <2>4, <2>5, <2>6, <2>8 DEF Kept
    <3>2. failed[k].seen \in Nat /\ now \in Nat /\ Longest \in Nat
      BY <1>1, <3>1, ThrottleAssumption DEF Orderly, ThrottleTypeOK, Record
    <3>3. ~(now - failed[k].seen > Longest)
      BY <3>1 DEF Swept
    <3> QED BY <3>1, <3>2, <3>3
  <2> QED BY <2>7, <2>8
<1>2. Orderly /\ [ThrottleNext]_throttleVars => [Recent]_throttleVars
  BY <1>1
<1>3. ThrottleSpec => [](Orderly /\ Counted)
  BY ThrottleInvariance
<1> QED BY <1>2, <1>3, PTL DEF ThrottleSpec, RecentWhenFull
-----------------------------------------------------------------------------
(* As long as no two attempts were open at a time, one is open at most,    *)
(* and the key it tries does not wait: Allow said so, and nobody has       *)
(* failed since.                                                           *)
OneTryAtATime ==
  single =>
    /\ \A c, d \in Attempts : open[c] # "idle" /\ open[d] # "idle" => c = d
    /\ \A c \in Attempts : open[c] # "idle" => ~Waiting(open[c])

(* An attempt that ends leaves none open, whatever it left in the map.     *)
LEMMA EndsAlone ==
  ASSUME Orderly, OneTryAtATime, NEW c \in Attempts, open[c] # "idle",
         open' = [open EXCEPT ![c] = "idle"], UNCHANGED single
  PROVE  OneTryAtATime'
<1>1. ASSUME single PROVE \A d \in Attempts : open'[d] = "idle"
  BY <1>1 DEF OneTryAtATime, Orderly, ThrottleTypeOK
<1> QED BY <1>1 DEF OneTryAtATime

(* Every step keeps that: an attempt begins while the others are idle, a   *)
(* night of the clock ends waits, and a key that is forgiven waits no more.*)
LEMMA StaysAlone ==
  ASSUME Orderly, OneTryAtATime, [ThrottleNext]_throttleVars
  PROVE  OneTryAtATime'
<1>1. CASE UNCHANGED throttleVars
  BY <1>1 DEF OneTryAtATime, Waiting, throttleVars
<1>2. CASE Tick
  <2>1. now \in Nat /\ now' \in Nat /\ now <= now'
    BY <1>2, ThrottleAssumption DEF Tick, Orderly, ThrottleTypeOK
  <2>2. \A k \in DOMAIN failed : failed[k].until \in Nat
    BY DEF Orderly, ThrottleTypeOK, Record
  <2>3. \A k : ~Waiting(k) => ~Waiting(k)'
    BY <1>2, <2>1, <2>2 DEF Tick, Waiting
  <2> QED BY <1>2, <2>3 DEF Tick, OneTryAtATime
<1>3. ASSUME NEW k \in Keys, Forgive(k) PROVE OneTryAtATime'
  <2>1. \A j : ~Waiting(j) => ~Waiting(j)'
    BY <1>3 DEF Forgive, ResetKey, Waiting
  <2> QED BY <1>3, <2>1 DEF Forgive, OneTryAtATime
<1>4. ASSUME NEW c \in Attempts, NEW k \in Keys, Try(c, k) PROVE OneTryAtATime'
  <2>1. \A j : Waiting(j)' <=> Waiting(j)
    BY <1>4 DEF Try, Waiting
  <2>2. single' => \A d \in Attempts : open[d] = "idle"
    BY <1>4, Zenon DEF Try
  <2>3. \A d \in Attempts : open'[d] # open[d] => d = c /\ open'[d] = k /\ ~Waiting(k)
    BY <1>4 DEF Try, Allowed, Orderly, ThrottleTypeOK
  <2> QED BY <2>1, <2>2, <2>3 DEF OneTryAtATime
<1>5. ASSUME NEW c \in Attempts, Wrong(c) \/ Right(c) \/ GiveUp(c) PROVE OneTryAtATime'
  BY <1>5, EndsAlone DEF Wrong, Right, GiveUp
<1> QED BY <1>1, <1>2, <1>3, <1>4, <1>5 DEF ThrottleNext

(* While attempts come one after the other, a key is tried again only when *)
(* its window has ended, so that its attempts are as far apart as the      *)
(* windows say (Authenticate of auth.go calls Allow before the password    *)
(* and Fail after it, with the mutex free in between).                     *)
THEOREM TriesAreApart == ThrottleSpec => TriesWaitAlone
<1> DEFINE Apart ==
      single' => \A k \in DOMAIN failed \cap DOMAIN failed' :
        failed'[k].attempts > failed[k].attempts => now >= failed[k].until
<1>1. NewThrottle => OneTryAtATime
  BY DEF NewThrottle, OneTryAtATime
<1>2. Orderly /\ OneTryAtATime /\ [ThrottleNext]_throttleVars => OneTryAtATime'
  BY StaysAlone
<1>3. ASSUME Orderly, OneTryAtATime, [ThrottleNext]_throttleVars, single',
             NEW k \in DOMAIN failed \cap DOMAIN failed',
             failed'[k].attempts > failed[k].attempts
      PROVE  now >= failed[k].until
  <2>1. /\ failed[k].attempts \in Nat /\ failed[k].until \in Nat /\ now \in Nat
        /\ k \in Keys
    BY <1>3 DEF Orderly, ThrottleTypeOK, Record
  <2>2. failed'[k] # failed[k]
    BY <1>3, <2>1
  <2>3. PICK c \in Attempts : Wrong(c)
    BY <1>3, <2>2
    DEF ThrottleNext, Tick, Forgive, Try, Right, GiveUp, ResetKey, throttleVars
  <2>4. open[c] = k /\ single
    BY <1>3, <2>2, <2>3 DEF Wrong, FailKey
  <2>5. ~Waiting(k)
    BY <1>3, <2>3, <2>4 DEF OneTryAtATime, Wrong
  <2> QED BY <2>1, <2>5 DEF Waiting
<1>4. Orderly /\ OneTryAtATime /\ [ThrottleNext]_throttleVars => [Apart]_throttleVars
  BY <1>3
<1>5. ThrottleSpec => [](Orderly /\ Counted)
  BY ThrottleInvariance
<1> QED BY <1>1, <1>2, <1>4, <1>5, PTL DEF ThrottleSpec, TriesWaitAlone

-----------------------------------------------------------------------------
(* The session cookie.                                                     *)

(* A number of seconds is cut short by less than one of them.              *)
LEMMA CutToSeconds ==
  ASSUME NEW n \in Int, NEW second \in Nat \ {0}
  PROVE  /\ n \div second \in Int
         /\ (n \div second) * second <= n
         /\ n < (n \div second) * second + second
OBVIOUS

(* Two parts and one more are three parts.                                 *)
LEMMA AppendToTwo ==
  ASSUME NEW a, NEW b, NEW c
  PROVE  Append(<<a, b>>, c) = <<a, b, c>>
<1> DEFINE S == {a, b, c}
<1>1. <<a, b>> \in Seq(S) /\ <<a, b, c>> \in Seq(S) /\ c \in S
  OBVIOUS
<1>2. /\ Append(<<a, b>>, c) \in Seq(S) /\ Len(Append(<<a, b>>, c)) = 3
      /\ Append(<<a, b>>, c)[1] = a /\ Append(<<a, b>>, c)[2] = b
      /\ Append(<<a, b>>, c)[3] = c
  <2> HIDE DEF S
  <2> QED BY <1>1, AppendProperties
<1> DEFINE s == Append(<<a, b>>, c)
           t == <<a, b, c>>
<1>3. s \in Seq(S) /\ t \in Seq(S) /\ Len(s) = Len(t)
  BY <1>1, <1>2
<1>4. \A i \in 1..Len(s) : s[i] = t[i]
  BY <1>2
<1> HIDE DEF S, s, t
<1>5. s = t
  BY <1>3, <1>4, SeqEqual
<1> QED BY <1>5 DEF s, t

(* What an issued value is, part by part.                                  *)
LEMMA IssuedParts ==
  ASSUME NEW key, NEW s, NEW n
  PROVE  Issue(key, s, n) =
           <<s, (n + TTL) \div PerSecond, Sign(key, Payload(s, n + TTL))>>
<1> DEFINE payload == Payload(s, n + TTL)
<1>1. Issue(key, s, n) = Append(payload, Sign(key, payload))
  BY DEF Issue
<1>2. payload = <<s, (n + TTL) \div PerSecond>>
  BY DEF Payload
<1> QED BY <1>1, <1>2, AppendToTwo

(* The middleware clears the values that open for nobody.                  *)
LEMMA ClearedTells ==
  ASSUME NEW key, NEW v, NEW moment
  PROVE  Received(key, v, moment).cleared <=> Verify(key, v, moment) = NoSubject
BY Zenon DEF Received

(* The signature of an issued value is one that decodes.                   *)
LEMMA SignatureDecodes ==
  ASSUME NEW secrets, NEW subjects, NEW moments, SignedReadably(secrets, subjects, moments),
         NEW key \in secrets, NEW s \in subjects, NEW n \in moments
  PROVE  Garbled # Issue(key, s, n)[3]
BY Zenon DEF SignedReadably

(* However many keys, subjects and moments there are: a cookie opens for   *)
(* the subject it was issued to, under the key that issued it and for its  *)
(* lifetime, and nothing put together from the parts of others opens.      *)
(* Garbled is no subject, no number and no signature (session.go:63).      *)
THEOREM CookiesOpenAsIssued ==
  ASSUME PerSecond \in Nat \ {0}, TTL \in Int,
         NEW secrets, NEW subjects, NEW moments \in SUBSET Int,
         Garbled \notin subjects, Garbled \notin Int,
         SignedReadably(secrets, subjects, moments)
  PROVE  OpensAsIssued(secrets, subjects, moments)
<1>0. ASSUME NEW at \in [subjects -> moments], NEW s \in subjects PROVE at[s] \in Int
  <2>1. at[s] \in moments
    BY <1>0
  <2> QED BY <2>1
<1> SUFFICES ASSUME NEW at \in [subjects -> moments]
             PROVE  LET issued == {Issue(k, s, at[s]) : k \in secrets, s \in subjects}
                    IN  \A key \in secrets, v \in Values(issued), moment \in 0..(TTL + 2 * PerSecond) :
                          OpensFor(key, v, at, moment)
  BY DEF OpensAsIssued
<1> DEFINE issued == {Issue(k, s, at[s]) : k \in secrets, s \in subjects}
<1> HIDE DEF issued
<1> SUFFICES ASSUME NEW key \in secrets, NEW v \in Values(issued),
                    NEW moment \in 0..(TTL + 2 * PerSecond)
             PROVE  OpensFor(key, v, at, moment)
  BY DEF issued
<1> USE DEF issued
<1>1. \A s \in subjects : at[s] \in Int
  BY <1>0
<1>2. moment \in Int
  OBVIOUS
<1>3. ASSUME Verify(key, v, moment) # NoSubject
      PROVE  \E s \in subjects :
               /\ Verify(key, v, moment) = <<s>>
               /\ v = Issue(key, s, at[s]) /\ moment < at[s] + TTL
  <2>1. Len(v) = 3 /\ v[3] # Garbled
    BY <1>3 DEF Verify, Split
  <2>2. CASE \E a, b, c : v = <<a, b, c>> /\ c \in {w[3] : w \in issued} \cup {Garbled}
    <3>1. PICK a, b, c : v = <<a, b, c>> /\ c \in {w[3] : w \in issued} \cup {Garbled}
      BY <2>2
    <3>2. c # Garbled
      BY <2>1, <3>1
    <3>3. PICK k \in secrets, s \in subjects : c = Issue(k, s, at[s])[3]
      BY <3>1, <3>2
    <3>4. c = <<k, <<s, (at[s] + TTL) \div PerSecond>>>>
      BY <3>3, IssuedParts DEF Sign, Payload
    <3>5. c = <<key, <<a, b>>>> /\ moment < b * PerSecond /\ Verify(key, v, moment) = <<a>>
      BY <1>3, <3>1 DEF Verify, Sign
    <3>6. key = k /\ a = s /\ b = (at[s] + TTL) \div PerSecond
      BY <3>4, <3>5
    <3>7. Issue(k, s, at[s]) = <<s, b, c>>
      BY <3>6, <3>3, IssuedParts
    <3>8. /\ key = k /\ b = (at[s] + TTL) \div PerSecond
          /\ Verify(key, v, moment) = <<s>> /\ v = Issue(k, s, at[s])
          /\ moment < b * PerSecond
      BY <3>1, <3>5, <3>6, <3>7
    <3>9. b * PerSecond <= at[s] + TTL /\ b \in Int
      <4>1. at[s] + TTL \in Int
        BY <1>1
      <4> QED BY <3>8, <4>1, CutToSeconds
    <3>10. b * PerSecond \in Int
      BY <3>9
    <3>11. moment < at[s] + TTL
      BY <1>1, <1>2, <3>8, <3>9, <3>10
    <3> QED BY <3>8, <3>11
  <2>3. CASE \E w \in issued, n \in 0..2 : v = SubSeq(w, 1, n)
    <3>1. PICK k \in secrets, s \in subjects, n \in 0..2 :
            v = SubSeq(Issue(k, s, at[s]), 1, n)
      BY <2>3
    <3>2. PICK x, y, z : Issue(k, s, at[s]) = <<x, y, z>>
      BY IssuedParts
    <3>3. <<x, y, z>> \in Seq({x, y, z}) /\ Len(<<x, y, z>>) = 3
      OBVIOUS
    <3>4. Len(SubSeq(<<x, y, z>>, 1, n)) = n
      BY <3>3, SubSeqProperties
    <3> QED BY <2>1, <3>1, <3>2, <3>4
  <2>4. CASE \E w \in issued : \E part : v = Append(w, part)
    <3>1. PICK k \in secrets, s \in subjects : \E part : v = Append(Issue(k, s, at[s]), part)
      BY <2>4
    <3>2. PICK part : v = Append(Issue(k, s, at[s]), part)
      BY <3>1
    <3>3. PICK x, y, z : Issue(k, s, at[s]) = <<x, y, z>>
      BY IssuedParts
    <3>4. <<x, y, z>> \in Seq({x, y, z, part}) /\ Len(<<x, y, z>>) = 3
      OBVIOUS
    <3>5. Len(Append(<<x, y, z>>, part)) = 4
      BY <3>4, AppendProperties
    <3> QED BY <2>1, <3>2, <3>3, <3>5
  <2>5. \/ \E a, b, c : v = <<a, b, c>> /\ c \in {w[3] : w \in issued} \cup {Garbled}
        \/ \E w \in issued, n \in 0..2 : v = SubSeq(w, 1, n)
        \/ \E w \in issued : \E part : v = Append(w, part)
    BY DEF Values
  <2> QED BY <2>2, <2>3, <2>4, <2>5
<1>4. ASSUME NEW s \in subjects, v = Issue(key, s, at[s]), moment <= at[s] + TTL - PerSecond
      PROVE  Verify(key, v, moment) = <<s>>
  <2> DEFINE e == (at[s] + TTL) \div PerSecond
  <2>1. e \in Int /\ at[s] + TTL < e * PerSecond + PerSecond
    <3> DEFINE n == at[s] + TTL
    <3>1. n \in Int
      BY <1>1
    <3> HIDE DEF n
    <3>2. n \div PerSecond \in Int /\ n < (n \div PerSecond) * PerSecond + PerSecond
      BY <3>1, CutToSeconds
    <3> QED BY <3>2 DEF n
  <2>2. v = <<s, e, Sign(key, <<s, e>>)>>
    BY <1>4, IssuedParts DEF Payload
  <2> HIDE DEF e
  <2>3. e * PerSecond \in Int
    BY <2>1
  <2>4. moment < e * PerSecond
    BY <1>1, <1>2, <1>4, <2>1, <2>3
  <2>5. s # Garbled /\ e # Garbled /\ Sign(key, <<s, e>>) # Garbled
    <3>1. at[s] \in moments
      OBVIOUS
    <3>2. Garbled # Issue(key, s, at[s])[3]
      BY <3>1, SignatureDecodes
    <3> QED BY <1>4, <2>1, <2>2, <3>2
  <2> QED BY <2>2, <2>4, <2>5 DEF Verify, Split
<1>5. Received(key, v, moment).cleared <=> Verify(key, v, moment) = NoSubject
  BY ClearedTells
<1> QED BY <1>3, <1>4, <1>5 DEF OpensFor

(* The browser lets go of a cookie within the last second of its lifetime, *)
(* and never keeps it longer (http/middleware/session.go:72).              *)
THEOREM BrowserKeepsNoLonger ==
  ASSUME PerSecond \in Nat \ {0}, TTL \in Int
  PROVE  KeptNoLonger
<1>1. /\ TTL \div PerSecond \in Int
      /\ (TTL \div PerSecond) * PerSecond <= TTL
      /\ TTL < (TTL \div PerSecond) * PerSecond + PerSecond
  BY CutToSeconds
<1> DEFINE age == TTL \div PerSecond
<1>2. age * PerSecond \in Int
  BY <1>1
<1> QED BY <1>1, <1>2 DEF KeptNoLonger, MaxAge

-----------------------------------------------------------------------------
(* The stored passwords.                                                   *)

(* A hash of today decodes, opens for its password and needs no other.     *)
LEMMA HashOpens ==
  ASSUME NEW plain, NEW drawn, Readable(Hashes!Hash(plain, drawn))
  PROVE  /\ Hashes!Decodes(Hashes!Hash(plain, drawn))
         /\ Hashes!Verify(Hashes!Hash(plain, drawn), plain) =
              [ok |-> TRUE, rehash |-> FALSE, err |-> FALSE]
<1> DEFINE salt == [length |-> SaltLen, drawn |-> drawn]
           key  == Hashes!Derive(Current, plain, salt, KeyLen)
           stored == Hashes!Encode(Current, salt, key)
<1>1. Hashes!Hash(plain, drawn) = stored
  BY DEF Hashes!Hash
<1>2. key = <<Current, plain, salt, KeyLen>>
  BY DEF Hashes!Derive
<1>4. salt.length = SaltLen /\ key[4] = KeyLen
  BY <1>2
<1> HIDE DEF salt, key
<1>5. /\ stored.algorithm = "argon2id" /\ stored.version = 19 /\ stored.cost = Current
      /\ stored.salt = salt /\ stored.length = KeyLen /\ stored.key = key
  BY <1>4 DEF Hashes!Encode
<1> HIDE DEF stored
<1>3. key # Unread /\ salt # Unread /\ stored # Unread
  BY <1>1, <1>5 DEF Readable
<1>6. Hashes!InRange(Current)
  BY CostAssumption DEF Hashes!InRange
<1>7. \A part \in DOMAIN Current : Hashes!IsNumber(Current[part])
  BY CostAssumption, PasswordAssumption DEF Hashes!IsNumber
<1>8. MinSaltLen <= SaltLen /\ KeyLen <= KeyLen /\ KeyLen <= MaxKeyLen
      /\ SaltLen \in Nat /\ MinSaltLen \in Nat /\ KeyLen \in Nat /\ MaxKeyLen \in Nat
  BY CostAssumption
<1>9. Hashes!Decodes(stored)
  BY <1>3, <1>4, <1>5, <1>6, <1>7, <1>8 DEF Hashes!Decodes
<1>10. Hashes!Derive(stored.cost, plain, stored.salt, stored.length) = stored.key
  BY <1>5 DEF key
<1>11. Hashes!NeedsRehash(stored) = FALSE
  BY <1>4, <1>5 DEF Hashes!NeedsRehash
<1>12. Hashes!Verify(stored, plain) =
         [ok |-> TRUE, rehash |-> Hashes!NeedsRehash(stored), err |-> FALSE]
  BY <1>9, <1>10 DEF Hashes!Verify
<1> QED BY <1>1, <1>9, <1>11, <1>12

(* A stored hash that reads was derived from its password at the cost, the *)
(* salt and the length that stand in it.                                   *)
LEMMA ReadsAsDerived ==
  ASSUME NEW costs, NEW lengths, NEW plain,
         NEW stored \in Hashes!Stored(costs, lengths, plain), Hashes!Decodes(stored)
  PROVE  /\ stored.cost \in costs
         /\ stored.key = Hashes!Derive(stored.cost, plain, stored.salt, stored.length)
<1> DEFINE written == {Hashes!Written(cost, s, k, plain) :
                         cost \in costs, s \in lengths, k \in lengths}
<1>1. stored # Unread /\ stored.version = 19 /\ stored.salt # Unread
  BY DEF Hashes!Decodes
<1>2. ASSUME NEW cost \in costs, NEW s \in lengths, NEW k \in lengths,
             NEW w, w = Hashes!Written(cost, s, k, plain)
      PROVE  /\ w.cost = cost /\ w.length = k
             /\ w.key = Hashes!Derive(cost, plain, w.salt, k)
             /\ Hashes!OfVersion18(w).version = 18
             /\ Hashes!SaltUnread(w).salt = Unread
  <2>1. Hashes!Derive(cost, plain, [length |-> s, drawn |-> "s"], k)[4] = k
    BY DEF Hashes!Derive
  <2>2. w = [algorithm |-> "argon2id", version |-> 19, cost |-> cost,
             salt |-> [length |-> s, drawn |-> "s"], length |-> k,
             key |-> Hashes!Derive(cost, plain, [length |-> s, drawn |-> "s"], k)]
    BY <1>2, <2>1 DEF Hashes!Written, Hashes!Encode
  <2>3. Hashes!OfVersion18(w).version = 18 /\ Hashes!SaltUnread(w).salt = Unread
    BY <2>2 DEF Hashes!OfVersion18, Hashes!SaltUnread
  <2> QED BY <2>2, <2>3
<1>3. stored \in written \cup {Hashes!OfVersion18(w) : w \in written}
                   \cup {Hashes!SaltUnread(w) : w \in written} \cup {Unread}
  BY DEF Hashes!Stored
<1>4. ASSUME NEW w \in written
      PROVE  Hashes!OfVersion18(w).version = 18 /\ Hashes!SaltUnread(w).salt = Unread
  BY <1>2
<1>5. stored \in written
  <2> HIDE DEF written
  <2> QED BY <1>1, <1>3, <1>4
<1>6. PICK cost \in costs, s \in lengths, k \in lengths :
        stored = Hashes!Written(cost, s, k, plain)
  BY <1>5
<1>7. /\ stored.cost = cost /\ stored.length = k
      /\ stored.key = Hashes!Derive(cost, plain, stored.salt, k)
  BY <1>2, <1>6
<1> QED BY <1>7

(* A derived key tells the passwords apart.                                *)
LEMMA KeyTellsPassword ==
  ASSUME NEW cost, NEW salt, NEW length, NEW plain, NEW other,
         Hashes!Derive(cost, plain, salt, length) = Hashes!Derive(cost, other, salt, length)
  PROVE  plain = other
BY DEF Hashes!Derive

(* A stored hash that does not read is an error for every password.        *)
LEMMA UnreadIsRefused ==
  ASSUME NEW stored, NEW plain, ~Hashes!Decodes(stored)
  PROVE  /\ Hashes!Verify(stored, plain).ok = FALSE
         /\ Hashes!Verify(stored, plain).rehash = FALSE
         /\ Hashes!Verify(stored, plain).err = TRUE
BY DEF Hashes!Verify

(* One that reads is none, and a password that opens it derives its key.   *)
LEMMA ReadIsTried ==
  ASSUME NEW stored, NEW plain, Hashes!Decodes(stored)
  PROVE  /\ Hashes!Verify(stored, plain).err = FALSE
         /\ Hashes!Derive(stored.cost, plain, stored.salt, stored.length) = stored.key =>
              Hashes!Verify(stored, plain).ok = TRUE
         /\ Hashes!Derive(stored.cost, plain, stored.salt, stored.length) # stored.key =>
              Hashes!Verify(stored, plain) = [ok |-> FALSE, rehash |-> FALSE, err |-> FALSE]
<1> DEFINE key == Hashes!Derive(stored.cost, plain, stored.salt, stored.length)
<1>1. CASE key = stored.key
  <2>1. Hashes!Verify(stored, plain) =
          [ok |-> TRUE, rehash |-> Hashes!NeedsRehash(stored), err |-> FALSE]
    BY <1>1 DEF Hashes!Verify
  <2> HIDE DEF key
  <2>2. Hashes!Verify(stored, plain).err = FALSE /\ Hashes!Verify(stored, plain).ok = TRUE
    BY <2>1
  <2> QED BY <1>1, <2>2 DEF key
<1>2. CASE key # stored.key
  <2>1. Hashes!Verify(stored, plain) = [ok |-> FALSE, rehash |-> FALSE, err |-> FALSE]
    BY <1>2 DEF Hashes!Verify
  <2>2. Hashes!Verify(stored, plain).err = FALSE
    BY <2>1
  <2> QED BY <1>2, <2>1, <2>2
<1> QED BY <1>1, <1>2

(* A cost in range whose parts are all read is a record of numbers between *)
(* the least and the greatest.                                             *)
LEMMA ReadCostIsBounded ==
  ASSUME NEW cost, DOMAIN cost = DOMAIN Current,
         \A part \in DOMAIN cost : cost[part] \in Int \cup {Unread},
         \A part \in DOMAIN cost : Hashes!IsNumber(cost[part]), Hashes!InRange(cost),
         NEW part \in DOMAIN cost
  PROVE  cost[part] \in Least[part]..Most[part]
<1>1. cost[part] \in Int
  BY DEF Hashes!IsNumber
<1>2. Least[part] \in Int /\ Most[part] \in Int
  BY CostAssumption
<1>3. cost[part] >= Least[part] /\ cost[part] <= Most[part]
  BY DEF Hashes!InRange
<1> QED BY <1>1, <1>2, <1>3

(* What a login does with a stored hash, if the parts of its cost are      *)
(* numbers or unread and its key was derived as it says.                   *)
LEMMA LoginAlwaysHolds ==
  ASSUME NEW stored, NEW plain, NEW other, Readable(Hashes!Hash(other, "d")),
         Hashes!Decodes(stored) =>
           /\ DOMAIN stored.cost = DOMAIN Current
           /\ \A part \in DOMAIN Current : stored.cost[part] \in Int \cup {Unread}
           /\ stored.key = Hashes!Derive(stored.cost, plain, stored.salt, stored.length)
  PROVE  Hashes!LoginHolds(stored, plain, other)
<1> DEFINE login == Hashes!Verify(stored, other)
           own   == Hashes!Verify(stored, plain)
<1>1. Hashes!Verify(Hashes!Hash(other, "d"), other) =
        [ok |-> TRUE, rehash |-> FALSE, err |-> FALSE]
  BY HashOpens
<1>2. CASE ~Hashes!Decodes(stored)
  <2>1. login.ok = FALSE /\ login.rehash = FALSE /\ login.err = TRUE /\ own.ok = FALSE
    BY <1>2, UnreadIsRefused
  <2> QED BY <2>1, Zenon DEF Hashes!LoginHolds
<1>3. CASE Hashes!Decodes(stored)
  <2>1. own.ok = TRUE /\ login.err = FALSE
    BY <1>3, ReadIsTried
  <2>2. login.ok => plain = other
    <3>1. ASSUME plain # other PROVE login.ok = FALSE
      <4>1. Hashes!Derive(stored.cost, other, stored.salt, stored.length) # stored.key
        BY <1>3, <3>1, KeyTellsPassword
      <4>2. login = [ok |-> FALSE, rehash |-> FALSE, err |-> FALSE]
        BY <1>3, <4>1, ReadIsTried
      <4> HIDE DEF login
      <4> QED BY <4>2
    <3> HIDE DEF login
    <3> QED BY <3>1, Zenon
  <2>3. /\ Hashes!InRange(stored.cost)
        /\ \A part \in DOMAIN stored.cost : Hashes!IsNumber(stored.cost[part])
    BY <1>3 DEF Hashes!Decodes
  <2>4. \A part \in DOMAIN stored.cost : stored.cost[part] \in Least[part]..Most[part]
    BY <1>3, <2>3, ReadCostIsBounded
  <2> QED BY <1>1, <2>1, <2>2, <2>3, <2>4, Zenon DEF Hashes!LoginHolds
<1> QED BY <1>2, <1>3

(* For all costs, lengths and passwords: a stored hash opens for its       *)
(* password alone, one that needs another leaves one that needs no more,   *)
(* no cost out of range is derived, and Dummy opens for nobody and looks   *)
(* like the hash of a user (password.go:69).                               *)
THEOREM HashesAlwaysHold == PasswordsHold
<1>1. ASSUME NEW plain \in Plains, NEW other \in Plains,
             NEW stored \in Hashes!Stored(Costs, Lengths, plain)
      PROVE  Hashes!LoginHolds(stored, plain, other)
  <2>1. ASSUME Hashes!Decodes(stored)
        PROVE  /\ DOMAIN stored.cost = DOMAIN Current
               /\ \A part \in DOMAIN Current : stored.cost[part] \in Int \cup {Unread}
               /\ stored.key = Hashes!Derive(stored.cost, plain, stored.salt, stored.length)
    <3>1. /\ stored.cost \in Costs
          /\ stored.key = Hashes!Derive(stored.cost, plain, stored.salt, stored.length)
      BY <2>1, ReadsAsDerived
    <3> QED BY <3>1, CostAssumption
  <2>2. Readable(Hashes!Hash(other, "d"))
    BY PasswordAssumption
  <2> QED BY <2>1, <2>2, LoginAlwaysHolds
<1>2. ASSUME NEW plain \in Plains PROVE Hashes!DummyHolds(plain)
  <2> DEFINE nobody == Hashes!Nobodys
             dummy  == Hashes!Hash(nobody, "pilam.dummy.salt")
  <2>1. Hashes!Dummy = dummy
    BY DEF Hashes!Dummy
  <2>2. Hashes!Decodes(dummy)
    <3>1. Readable(dummy)
      BY PasswordAssumption
    <3> QED BY <3>1, HashOpens
  <2>3. /\ dummy.key = Hashes!Derive(dummy.cost, nobody, dummy.salt, dummy.length)
        /\ dummy.cost = Hashes!Hash(plain, "d").cost
        /\ dummy.length = Hashes!Hash(plain, "d").length
    BY DEF Hashes!Hash, Hashes!Encode, Hashes!Derive
  <2>4. plain # nobody
    BY PasswordAssumption
  <2> HIDE DEF dummy, nobody
  <2>5. Hashes!Derive(dummy.cost, plain, dummy.salt, dummy.length) # dummy.key
    BY <2>3, <2>4, KeyTellsPassword
  <2>6. Hashes!Verify(dummy, plain) = [ok |-> FALSE, rehash |-> FALSE, err |-> FALSE]
    BY <2>2, <2>5, ReadIsTried
  <2> QED BY <2>1, <2>3, <2>6, Zenon DEF Hashes!DummyHolds
<1>3. Hashes!Check(Hashes!Generated) = {}
  <2>1. MinLen \in Nat /\ MaxLen \in Nat /\ 26 \in MinLen..MaxLen
    BY CostAssumption DEF Hashes!Generated
  <2>2. ~(26 < MinLen) /\ ~(26 > MaxLen)
    BY <2>1
  <2> QED BY <2>2 DEF Hashes!Check, Hashes!Generated
<1> QED BY <1>1, <1>2, <1>3, Zenon DEF PasswordsHold, Hashes!HashesHold

(* In every state: a session value opens as it was issued and the browser  *)
(* keeps it no longer, and a stored hash opens for its password alone.     *)
THEOREM SecretsAlwaysHold == Spec => []SecretsHold
<1>1. CookiesHold
  <2>1. OpensAsIssued(SigningKeys, Subjects, Moments)
    BY CookieAssumption, CookiesOpenAsIssued
  <2>2. KeptNoLonger
    BY CookieAssumption, BrowserKeepsNoLonger
  <2> QED BY <2>1, <2>2 DEF CookiesHold
<1>2. SecretsHold
  BY <1>1, HashesAlwaysHold, Zenon DEF SecretsHold
<1> QED BY <1>2, PTL
-----------------------------------------------------------------------------
(* What stands between a request and its handler.                          *)

(* The record a request carries, field by field.                           *)
Carried(inside, id, subject, actor, htmx, answer, given, lines) ==
  [inside |-> inside, id |-> id, subject |-> subject, actor |-> actor, htmx |-> htmx,
   answer |-> answer, cookies |-> given, lines |-> lines]

(* One value is another: keeps a truth value apart from what it says.      *)
IsYes(a) == a = TRUE

Is(a, b) == a = b

(* The logger and Recover only let a request in.                           *)
LEMMA LinkLetsOn ==
  ASSUME NEW r, NEW inside, NEW id, NEW subject, NEW actor, NEW htmx, NEW given, NEW lines,
         NEW link \in {"logger", "recover"}
  PROVE  Chain!Through(r, Carried(inside, id, subject, actor, htmx, {}, given, lines), link) =
           Carried(Append(inside, link), id, subject, actor, htmx, {}, given, lines)
BY DEF Chain!Through, Carried

(* The links before the session only lead on.                              *)
NamesSomebody(r) == r.cookie \notin {"bad", "none"}

ClearedFirst(r) == IF r.cookie = "bad" THEN <<"clear">> ELSE <<>>

Cleared(r) == IF r.cookie \in {"bad", "unresolved"} THEN <<"clear">> ELSE <<>>

(* The session is read: a cookie that does not verify is cleared.          *)
LEMMA SessionIsRead ==
  ASSUME NEW r, NEW inside, NEW id, NEW actor, NEW htmx, NEW lines,
         NEW no, Is(no, FALSE), NEW found, Is(found, NamesSomebody(r))
  PROVE  Chain!Through(r, Carried(inside, id, no, actor, htmx, {}, <<>>, lines), "session") =
           Carried(Append(inside, "session"), id, found, actor, htmx, {}, ClearedFirst(r), lines)
BY DEF Chain!Through, Carried, NamesSomebody, Is, ClearedFirst

(* The user is found: a session that names nobody is cleared.              *)
LEMMA UserIsFound ==
  ASSUME NEW r, NEW inside, NEW id, NEW htmx, NEW lines,
         NEW found, Is(found, NamesSomebody(r)), NEW who, who = Chain!Identity(r)
  PROVE  Chain!Through(r, Carried(inside, id, found, {}, htmx, {}, ClearedFirst(r), lines), "identity") =
           Carried(Append(inside, "identity"), id, found, who, htmx, {}, Cleared(r), lines)
<1> DEFINE before == Carried(inside, id, found, {}, htmx, {}, ClearedFirst(r), lines)
           in     == [before EXCEPT !.inside = Append(@, "identity")]
<1>1. Chain!Through(r, before, "identity") =
        IF before.subject /\ r.cookie = "unresolved"
        THEN [in EXCEPT !.cookies = <<"clear">>]
        ELSE [in EXCEPT !.actor = IF before.subject THEN Chain!Identity(r) ELSE @]
  <2>1. before.answer = {}
    BY DEF Carried
  <2> HIDE DEF before
  <2> QED BY <2>1 DEF Chain!Through
<1>2. CASE r.cookie = "unresolved"
  <2>1. before.subject
    BY <1>2 DEF Carried, NamesSomebody, Is
  <2>2. Chain!Through(r, before, "identity") = [in EXCEPT !.cookies = <<"clear">>]
    BY <1>1, <1>2, <2>1
  <2> QED BY <1>2, <2>2 DEF Carried, Cleared, Chain!Identity, Chain!Anonymous
<1>3. CASE r.cookie \in {"bad", "none"}
  <2>1. ~before.subject
    BY <1>3 DEF Carried, NamesSomebody, Is
  <2>2. Chain!Through(r, before, "identity") = [in EXCEPT !.actor = @]
    BY <1>1, <2>1
  <2>3. r.cookie # "user" /\ r.cookie # "unresolved"
    BY <1>3
  <2> QED BY <1>3, <2>2, <2>3 DEF Carried, Cleared, ClearedFirst, Chain!Identity, Chain!Anonymous
<1>4. CASE r.cookie \notin {"bad", "none", "unresolved"}
  <2>1. before.subject
    BY <1>4 DEF Carried, NamesSomebody, Is
  <2>2. Chain!Through(r, before, "identity") = [in EXCEPT !.actor = who]
    BY <1>1, <1>4, <2>1
  <2> QED BY <1>4, <2>2 DEF Carried, Cleared, ClearedFirst
<1> QED BY <1>2, <1>3, <1>4

Entered(ctx, link) == [ctx EXCEPT !.inside = Append(@, link)]

Turned(ctx, denied, said) == [ctx EXCEPT !.answer = denied, !.lines = said]

(* A link adds itself to those the request is inside of.                   *)
LEMMA LinkIsEntered ==
  ASSUME NEW inside, NEW id, NEW subject, NEW actor, NEW htmx, NEW answer, NEW given, NEW lines,
         NEW before, before = Carried(inside, id, subject, actor, htmx, answer, given, lines),
         NEW link
  PROVE  Entered(before, link) =
           Carried(Append(inside, link), id, subject, actor, htmx, answer, given, lines)
<1>1. before.inside = inside
  BY DEF Carried
<1>2. [before EXCEPT !.inside = Append(inside, link)] =
        Carried(Append(inside, link), id, subject, actor, htmx, answer, given, lines)
  BY DEF Carried
<1> QED BY <1>1, <1>2 DEF Entered

(* A request that is turned away carries its answer and its line.          *)
LEMMA TurnedAway ==
  ASSUME NEW inside, NEW id, NEW subject, NEW actor, NEW htmx, NEW answer, NEW given, NEW lines,
         NEW before, before = Carried(inside, id, subject, actor, htmx, answer, given, lines),
         NEW denied, NEW said
  PROVE  Turned(before, denied, said) =
           Carried(inside, id, subject, actor, htmx, denied, given, said)
<1> DEFINE mid == [before EXCEPT !.answer = denied]
<1>1. mid = Carried(inside, id, subject, actor, htmx, denied, given, lines)
  BY DEF Carried
<1>2. Turned(before, denied, said) = [mid EXCEPT !.lines = said]
  BY DEF Turned
<1> HIDE DEF mid
<1>3. [mid EXCEPT !.lines = said] = Carried(inside, id, subject, actor, htmx, denied, given, said)
  BY <1>1 DEF Carried
<1> QED BY <1>2, <1>3

(* A write of another origin is turned away.                               *)
LEMMA WriteIsDenied ==
  ASSUME NEW r, NEW ctx, ctx.answer = {}, Chain!Denied(r)
  PROVE  Chain!Through(r, ctx, "csrf") =
           Turned(Entered(ctx, "csrf"), {Chain!Refuse(403)}, <<[id |-> ctx.id, actor |-> ctx.actor]>>)
BY DEF Chain!Through, Turned, Entered

(* Any other request goes on.                                              *)
LEMMA WriteGoesOn ==
  ASSUME NEW r, NEW inside, NEW id, NEW subject, NEW actor, NEW htmx, NEW given, NEW lines,
         ~Chain!Denied(r)
  PROVE  Chain!Through(r, Carried(inside, id, subject, actor, htmx, {}, given, lines), "csrf") =
           Carried(Append(inside, "csrf"), id, subject, actor, htmx, {}, given, lines)
BY DEF Chain!Through, Carried

(* The last link tells whether htmx asks.                                  *)
LEMMA HtmxIsSeen ==
  ASSUME NEW r, NEW inside, NEW id, NEW subject, NEW actor, NEW htmx, NEW given, NEW lines
  PROVE  Chain!Through(r, Carried(inside, id, subject, actor, htmx, {}, given, lines), "htmx") =
           Carried(Append(inside, "htmx"), id, subject, actor, r.htmx, {}, given, lines)
BY DEF Chain!Through, Carried

(* The first n links of the chain.                                         *)
FirstLinks(n) == [i \in 1..n |-> Chain!Chain[i]]

(* The way in may be followed link by link.                                *)
LEMMA LinkByLink ==
  ASSUME NEW n \in 0..6, NEW m, m = n + 1
  PROVE  Append(FirstLinks(n), Chain!Chain[m]) = FirstLinks(m)
<1> DEFINE S == {Chain!Chain[i] : i \in 1..7}
           s == FirstLinks(n)
           link == Chain!Chain[m]
<1>1. s \in Seq(S) /\ Len(s) = n /\ FirstLinks(m) \in Seq(S) /\ Len(FirstLinks(m)) = m /\ link \in S
  BY DEF FirstLinks
<1>2. \A i \in 1..n : s[i] = FirstLinks(m)[i]
  BY DEF FirstLinks
<1>3. FirstLinks(m)[m] = link
  BY DEF FirstLinks
<1> HIDE DEF S, s, link
<1>4. /\ Append(s, link) \in Seq(S) /\ Len(Append(s, link)) = n + 1
      /\ \A i \in 1..n : Append(s, link)[i] = s[i]
      /\ Append(s, link)[n + 1] = link
  BY <1>1, AppendProperties
<1>5. \A i \in 1..m : Append(s, link)[i] = FirstLinks(m)[i]
  BY <1>2, <1>3, <1>4
<1>6. Append(s, link) = FirstLinks(m)
  BY <1>1, <1>4, <1>5, SeqEqual
<1> QED BY <1>6 DEF s, link

(* The name of each link.                                                  *)
LEMMA LinkNames ==
  /\ Chain!Chain[1] = "request id" /\ Chain!Chain[2] = "logger" /\ Chain!Chain[3] = "recover"
  /\ Chain!Chain[4] = "session" /\ Chain!Chain[5] = "identity" /\ Chain!Chain[6] = "csrf"
  /\ Chain!Chain[7] = "htmx" /\ Len(Chain!Chain) = 7
BY DEF Chain!Chain

(* What a request carries after n links, given what it carried before.     *)
LEMMA WayUnfolds ==
  ASSUME NEW r, NEW a0, NEW a1, NEW a2, NEW a3, NEW a4, NEW a5, NEW a6, NEW a7,
         a0 = Chain!Arrived,
         a1 = Chain!Through(r, a0, Chain!Chain[1]), a2 = Chain!Through(r, a1, Chain!Chain[2]),
         a3 = Chain!Through(r, a2, Chain!Chain[3]), a4 = Chain!Through(r, a3, Chain!Chain[4]),
         a5 = Chain!Through(r, a4, Chain!Chain[5]), a6 = Chain!Through(r, a5, Chain!Chain[6]),
         a7 = Chain!Through(r, a6, Chain!Chain[7])
  PROVE  Chain!Arrive(r) = a7
<1> DEFINE turn(f, n) == IF n = 0 THEN Chain!Arrived ELSE Chain!Through(r, f[n - 1], Chain!Chain[n])
           Built(f) == f = [n \in 0..7 |-> turn(f, n)]
           made == [n \in 0..7 |-> IF n = 0 THEN a0 ELSE IF n = 1 THEN a1 ELSE IF n = 2 THEN a2
                                   ELSE IF n = 3 THEN a3 ELSE IF n = 4 THEN a4 ELSE IF n = 5 THEN a5
                                   ELSE IF n = 6 THEN a6 ELSE a7]
           way  == CHOOSE f : Built(f)
<1>1. Chain!Arrive(r) = way[7]
  BY LinkNames DEF Chain!Arrive
<1>2. Built(made)
  <2>1. ASSUME NEW n \in 0..7 PROVE made[n] = turn(made, n)
    <3>1. n = 0 \/ n = 1 \/ n = 2 \/ n = 3 \/ n = 4 \/ n = 5 \/ n = 6 \/ n = 7
      OBVIOUS
    <3> QED BY <3>1
  <2> QED BY <2>1
<1>3. Built(way)
  <2> HIDE DEF Built, made
  <2> QED BY <1>2
<1>4. \A n \in 0..7 : way[n] = turn(way, n)
  <2> HIDE DEF way, turn
  <2> QED BY <1>3
<1> HIDE DEF way, made
<1>5. way[0] = a0 /\ way[1] = Chain!Through(r, way[0], Chain!Chain[1])
      /\ way[2] = Chain!Through(r, way[1], Chain!Chain[2])
      /\ way[3] = Chain!Through(r, way[2], Chain!Chain[3])
      /\ way[4] = Chain!Through(r, way[3], Chain!Chain[4])
      /\ way[5] = Chain!Through(r, way[4], Chain!Chain[5])
      /\ way[6] = Chain!Through(r, way[5], Chain!Chain[6])
      /\ way[7] = Chain!Through(r, way[6], Chain!Chain[7])
  BY <1>4
<1> QED BY <1>1, <1>5

(* What a request brings to its handler, or to the link that turns it away.*)
LEMMA ArrivesAs ==
  ASSUME NEW r, NEW yes, IsYes(yes), NEW no, Is(no, FALSE), NEW who, who = Chain!Identity(r),
         NEW denied, Is(denied, {Chain!Refuse(403)}), NEW found, Is(found, NamesSomebody(r)),
         NEW blank, blank = <<>>, NEW nobody, nobody = {}, NEW cleared, cleared = Cleared(r),
         NEW first, first = ClearedFirst(r), NEW said, Is(said, <<[id |-> yes, actor |-> who]>>)
  PROVE  /\ Chain!Denied(r) => Chain!Arrive(r) =
              Carried(FirstLinks(6), yes, found, who, no, denied,
                      cleared, said)
         /\ ~Chain!Denied(r) => Chain!Arrive(r) =
              Carried(FirstLinks(7), yes, found, who, r.htmx, {}, cleared, blank)
<1> DEFINE a0 == Carried(FirstLinks(0), no, no, nobody, no, {}, blank, blank)
           a1 == Carried(FirstLinks(1), yes, no, nobody, no, {}, blank, blank)
           a2 == Carried(FirstLinks(2), yes, no, nobody, no, {}, blank, blank)
           a3 == Carried(FirstLinks(3), yes, no, nobody, no, {}, blank, blank)
           a4 == Carried(FirstLinks(4), yes, found, nobody, no, {}, first, blank)
           a5 == Carried(FirstLinks(5), yes, found, who, no, {}, cleared, blank)
           refused == Carried(FirstLinks(6), yes, found, who, no, denied,
                              cleared, said)
           a6 == Carried(FirstLinks(6), yes, found, who, no, {}, cleared, blank)
           a7 == Carried(FirstLinks(7), yes, found, who, r.htmx, {}, cleared, blank)
<1>0. a0 = Chain!Arrived
  <2>1. FirstLinks(0) = <<>>
    BY DEF FirstLinks
  <2> QED BY <2>1, Zenon DEF Carried, Chain!Arrived, Chain!Anonymous, Is
<1>0c. /\ Append(FirstLinks(0), Chain!Chain[1]) = FirstLinks(1)
      /\ Append(FirstLinks(1), Chain!Chain[2]) = FirstLinks(2)
      /\ Append(FirstLinks(2), Chain!Chain[3]) = FirstLinks(3)
      /\ Append(FirstLinks(3), Chain!Chain[4]) = FirstLinks(4)
      /\ Append(FirstLinks(4), Chain!Chain[5]) = FirstLinks(5)
      /\ Append(FirstLinks(5), Chain!Chain[6]) = FirstLinks(6)
      /\ Append(FirstLinks(6), Chain!Chain[7]) = FirstLinks(7)
  BY LinkByLink
<1>1. /\ Append(FirstLinks(0), "request id") = FirstLinks(1)
      /\ Append(FirstLinks(1), "logger") = FirstLinks(2)
      /\ Append(FirstLinks(2), "recover") = FirstLinks(3)
      /\ Append(FirstLinks(3), "session") = FirstLinks(4)
      /\ Append(FirstLinks(4), "identity") = FirstLinks(5)
      /\ Append(FirstLinks(5), "csrf") = FirstLinks(6)
      /\ Append(FirstLinks(6), "htmx") = FirstLinks(7)
  BY <1>0c, LinkNames
<1>2. a1 = Chain!Through(r, a0, Chain!Chain[1])
  <2>1. Chain!Through(r, a0, "request id") =
          Carried(Append(FirstLinks(0), "request id"), yes, no, nobody, no, {}, blank, blank)
    <3>1. Chain!Through(r, a0, "request id") =
            Carried(Append(FirstLinks(0), "request id"), TRUE, no, nobody, no, {}, blank, blank)
      BY DEF Chain!Through, Carried
    <3> QED BY <3>1, Zenon DEF IsYes
  <2> HIDE DEF a0
  <2> QED BY <1>1, <2>1, LinkNames
<1>3. a2 = Chain!Through(r, a1, Chain!Chain[2])
  <2>1. Chain!Through(r, a1, "logger") =
          Carried(Append(FirstLinks(1), "logger"), yes, no, nobody, no, {}, blank, blank)
    BY LinkLetsOn
  <2> HIDE DEF a1
  <2> QED BY <1>1, <2>1, LinkNames
<1>4. a3 = Chain!Through(r, a2, Chain!Chain[3])
  <2>1. Chain!Through(r, a2, "recover") =
          Carried(Append(FirstLinks(2), "recover"), yes, no, nobody, no, {}, blank, blank)
    BY LinkLetsOn
  <2> HIDE DEF a2
  <2> QED BY <1>1, <2>1, LinkNames
<1>5. a4 = Chain!Through(r, a3, Chain!Chain[4])
  <2>1. Chain!Through(r, a3, "session") =
          Carried(Append(FirstLinks(3), "session"), yes, found, nobody, no, {}, first, blank)
    BY SessionIsRead
  <2> HIDE DEF a3
  <2> QED BY <1>1, <2>1, LinkNames
<1>6. a5 = Chain!Through(r, a4, Chain!Chain[5])
  <2>1. Chain!Through(r, a4, "identity") =
          Carried(Append(FirstLinks(4), "identity"), yes, found, who, no, {}, cleared, blank)
    BY UserIsFound
  <2> HIDE DEF a4
  <2> QED BY <1>1, <2>1, LinkNames
<1>7. CASE Chain!Denied(r)
  <2>1. refused = Chain!Through(r, a5, Chain!Chain[6])
    <3> DEFINE in == Entered(a5, "csrf")
    <3>1. a5.answer = {} /\ a5.id = yes /\ a5.actor = who
      BY DEF Carried
    <3>2. in = Carried(FirstLinks(6), yes, found, who, no, {}, cleared, blank)
      <4>1. PICK none, five, link : none = {} /\ five = FirstLinks(5) /\ link = "csrf"
        OBVIOUS
      <4>2. a5 = Carried(five, yes, found, who, no, none, cleared, blank)
        BY <4>1
      <4> HIDE DEF a5
      <4>3. Entered(a5, link) = Carried(Append(five, link), yes, found, who, no, none, cleared, blank)
        BY <4>2, LinkIsEntered
      <4> QED BY <1>1, <4>1, <4>3
    <3> HIDE DEF a5, in
    <3>3. Chain!Through(r, a5, "csrf") = Turned(in, denied, said)
      <4>1. Chain!Through(r, a5, "csrf") =
              Turned(in, {Chain!Refuse(403)}, <<[id |-> a5.id, actor |-> a5.actor]>>)
        BY <1>7, <3>1, WriteIsDenied DEF in
      <4> QED BY <3>1, <4>1 DEF Is
    <3>4. PICK none, six : none = {} /\ six = FirstLinks(6)
      OBVIOUS
    <3>5. in = Carried(six, yes, found, who, no, none, cleared, blank)
      BY <3>2, <3>4
    <3>6. Turned(in, denied, said) = Carried(six, yes, found, who, no, denied, cleared, said)
      BY <3>5, TurnedAway
    <3> QED BY <3>3, <3>4, <3>6, LinkNames
  <2>2. refused = Chain!Through(r, refused, Chain!Chain[7])
    <3>1. denied # {}
      BY DEF Is
    <3>2. refused.answer = denied
      BY DEF Carried
    <3> HIDE DEF refused
    <3> QED BY <3>1, <3>2, LinkNames DEF Chain!Through
  <2> HIDE DEF a0, a1, a2, a3, a4, a5, refused
  <2>3. Chain!Arrive(r) = refused
    BY <1>0, <1>2, <1>3, <1>4, <1>5, <1>6, <2>1, <2>2, WayUnfolds
  <2> QED BY <1>7, <2>3 DEF refused
<1>8. CASE ~Chain!Denied(r)
  <2>1. a6 = Chain!Through(r, a5, Chain!Chain[6])
    <3>1. Chain!Through(r, a5, "csrf") =
            Carried(Append(FirstLinks(5), "csrf"), yes, found, who, no, {}, cleared, blank)
      BY <1>8, WriteGoesOn
    <3> HIDE DEF a5
    <3> QED BY <1>1, <3>1, LinkNames
  <2>2. a7 = Chain!Through(r, a6, Chain!Chain[7])
    <3>1. Chain!Through(r, a6, "htmx") =
            Carried(Append(FirstLinks(6), "htmx"), yes, found, who, r.htmx, {}, cleared, blank)
      BY HtmxIsSeen
    <3> HIDE DEF a6
    <3> QED BY <1>1, <3>1, LinkNames
  <2> HIDE DEF a0, a1, a2, a3, a4, a5, a6, a7
  <2>3. Chain!Arrive(r) = a7
    BY <1>0, <1>2, <1>3, <1>4, <1>5, <1>6, <2>1, <2>2, WayUnfolds
  <2> QED BY <1>8, <2>3 DEF a7
<1> QED BY <1>7, <1>8

(* What is known of a request that comes out of the chain.                 *)
LEMMA ArrivesDenied ==
  ASSUME NEW r, Chain!Denied(r)
  PROVE  /\ Chain!Arrive(r).inside = FirstLinks(6) /\ Chain!Arrive(r).actor = Chain!Identity(r)
         /\ Chain!Arrive(r).cookies = Cleared(r)
         /\ Chain!Arrive(r).answer = {Chain!Refuse(403)}
         /\ Chain!Arrive(r).lines = <<[id |-> TRUE, actor |-> Chain!Identity(r)]>>
<1> DEFINE ctx == Chain!Arrive(r)
<1>1. PICK yes, no, found, who, denied, blank, nobody, cleared, first, said :
        /\ IsYes(yes) /\ Is(no, FALSE) /\ who = Chain!Identity(r) /\ Is(denied, {Chain!Refuse(403)})
        /\ Is(found, NamesSomebody(r)) /\ blank = <<>> /\ nobody = {} /\ cleared = Cleared(r)
        /\ first = ClearedFirst(r) /\ Is(said, <<[id |-> yes, actor |-> who]>>)
  BY Zenon DEF IsYes, Is
<1>2. ctx = Carried(FirstLinks(6), yes, found, who, no, denied, cleared, said)
  BY <1>1, ArrivesAs, ZenonT(30)
<1> HIDE DEF ctx
<1>3. ctx.inside = FirstLinks(6) /\ ctx.actor = who /\ ctx.cookies = cleared
      /\ ctx.answer = denied /\ ctx.lines = said
  BY <1>2 DEF Carried
<1>4. said = <<[id |-> TRUE, actor |-> Chain!Identity(r)]>>
  BY <1>1, Zenon DEF IsYes, Is
<1>5. denied = {Chain!Refuse(403)}
  BY <1>1 DEF Is
<1> QED BY <1>1, <1>3, <1>4, <1>5, Zenon DEF ctx

(* A request no link answers has been through every link.                  *)
LEMMA ArrivesWhole ==
  ASSUME NEW r, ~Chain!Denied(r)
  PROVE  /\ Chain!Arrive(r).inside = FirstLinks(7) /\ Chain!Arrive(r).actor = Chain!Identity(r)
         /\ Chain!Arrive(r).cookies = Cleared(r)
         /\ Chain!Arrive(r).answer = {} /\ Chain!Arrive(r).htmx = r.htmx
<1> DEFINE ctx == Chain!Arrive(r)
<1>1. PICK yes, no, found, who, denied, blank, nobody, cleared, first, said :
        /\ IsYes(yes) /\ Is(no, FALSE) /\ who = Chain!Identity(r) /\ Is(denied, {Chain!Refuse(403)})
        /\ Is(found, NamesSomebody(r)) /\ blank = <<>> /\ nobody = {} /\ cleared = Cleared(r)
        /\ first = ClearedFirst(r) /\ Is(said, <<[id |-> yes, actor |-> who]>>)
  BY Zenon DEF IsYes, Is
<1>2. ctx = Carried(FirstLinks(7), yes, found, who, r.htmx, {}, cleared, blank)
  BY <1>1, ArrivesAs, ZenonT(30)
<1> HIDE DEF ctx
<1>3. ctx.inside = FirstLinks(7) /\ ctx.actor = who /\ ctx.cookies = cleared
      /\ ctx.answer = {} /\ ctx.htmx = r.htmx
  BY <1>2 DEF Carried
<1> QED BY <1>1, <1>3, Zenon DEF ctx

(* Recover lies inside of the logger, whoever is inside of them.           *)
LEMMA RecoverIsThird ==
  ASSUME NEW inside, inside = FirstLinks(6) \/ inside = FirstLinks(7)
  PROVE  Chain!Place(inside, "recover") = 3 /\ Chain!Place(inside, "logger") = 2
<1>1. PICK n \in {6, 7} : inside = FirstLinks(n)
  OBVIOUS
<1>2. Len(inside) = n /\ \A i \in 1..n : inside[i] = Chain!Chain[i]
  BY <1>1 DEF FirstLinks
<1>2a. \A i \in 1..n : i \in Int /\ (i = 1 \/ i = 2 \/ i = 3 \/ i = 4 \/ i = 5 \/ i = 6 \/ i = 7)
  OBVIOUS
<1>2b. \A i \in 1..n : inside[i] = "recover" <=> i = 3
  BY <1>2, <1>2a, LinkNames
<1>2c. \A i \in 1..n : inside[i] = "logger" <=> i = 2
  BY <1>2, <1>2a, LinkNames
<1>2d. 2 \in 1..n /\ 3 \in 1..n
  OBVIOUS
<1>3. {i \in 1..Len(inside) : inside[i] = "recover"} = {3}
  BY <1>2, <1>2b, <1>2d
<1>4. {i \in 1..Len(inside) : inside[i] = "logger"} = {2}
  BY <1>2, <1>2c, <1>2d
<1>5. Chain!Min({3}) = 3 /\ Chain!Min({2}) = 2
  BY DEF Chain!Min
<1> QED BY <1>3, <1>4, <1>5 DEF Chain!Place, Chain!SelectInSeq

(* A guard is handed the request as it came, with the user it came for.    *)
LEMMA HandedAsItCame ==
  ASSUME NEW r \in Chain!Request, NEW ctx, ctx.actor = Chain!Identity(r),
         NEW q, q = Chain!Handed(r, ctx)
  PROVE  /\ q.route = r.route /\ q.role = r.role /\ q.expired = r.expired /\ q.htmx = ctx.htmx
         /\ Chain!Identity(q) = Chain!Identity(r)
<1> DEFINE cookie == IF ctx.actor = Chain!Anonymous THEN "none" ELSE "user"
           mid == [r EXCEPT !.cookie = cookie]
<1>1. q = [mid EXCEPT !.htmx = ctx.htmx]
  BY DEF Chain!Handed
<1>2. /\ mid.route = r.route /\ mid.role = r.role /\ mid.expired = r.expired /\ mid.cookie = cookie
      /\ DOMAIN mid = {"route", "cookie", "role", "expired", "cross", "htmx", "ends"}
  <2> HIDE DEF cookie
  <2> QED BY DEF Chain!Request
<1> HIDE DEF mid
<1>3. /\ q.route = mid.route /\ q.role = mid.role /\ q.expired = mid.expired /\ q.cookie = mid.cookie
      /\ q.htmx = ctx.htmx
  BY <1>1, <1>2
<1>4. Chain!Identity(q) = Chain!Identity(r)
  <2>1. q.cookie = cookie /\ q.role = r.role
    BY <1>2, <1>3
  <2> QED BY <2>1 DEF Chain!Identity, Chain!Anonymous
<1> QED BY <1>2, <1>3, <1>4

(* Who is turned away from a route, and how.                               *)
LEMMA WhoIsShutOut ==
  ASSUME NEW q, NEW who, who = Chain!Identity(q)
  PROVE  \/ q.route = Chain!NoRoute /\ Chain!ShutOut(q) = {Chain!Refuse(404)}
         \/ /\ q.route # Chain!NoRoute /\ q.route \notin Chain!RootRoutes \cup Chain!GuardedRoutes
            /\ Chain!ShutOut(q) = {}
         \/ /\ q.route \in Chain!RootRoutes \cup Chain!GuardedRoutes /\ who = {}
            /\ Chain!ShutOut(q) = {Chain!SendTo(q, "login")}
         \/ /\ q.route \in Chain!RootRoutes \cup Chain!GuardedRoutes
            /\ who # {} /\ q.expired /\ q.route \notin Chain!ChangeScreen
            /\ Chain!ShutOut(q) = {Chain!SendTo(q, "password")}
         \/ /\ q.route \in Chain!RootRoutes /\ "root" \notin who
            /\ Chain!ShutOut(q) = {Chain!Refuse(403)}
         \/ /\ who # {} /\ (q.expired => q.route \in Chain!ChangeScreen) /\ q.route # Chain!NoRoute
            /\ q.route \in Chain!RootRoutes => "root" \in who
            /\ Chain!ShutOut(q) = {}
<1> DEFINE guard == Chain!Guard(q)
<1>1. \/ who = {} /\ guard = {Chain!SendTo(q, "login")}
      \/ /\ who # {} /\ q.expired /\ q.route \notin Chain!ChangeScreen
         /\ guard = {Chain!SendTo(q, "password")}
      \/ who # {} /\ (q.expired => q.route \in Chain!ChangeScreen) /\ guard = {}
  BY DEF Chain!Guard, Chain!First, Chain!RequireIdentity, Chain!RequirePasswordChange, Chain!Anonymous
<1> HIDE DEF guard
<1>2. Chain!ShutOut(q) =
        IF q.route = Chain!NoRoute THEN {Chain!Refuse(404)}
        ELSE IF q.route \in Chain!RootRoutes THEN Chain!First(guard, Chain!RequireRole(q))
        ELSE IF q.route \in Chain!GuardedRoutes THEN guard ELSE {}
  BY DEF Chain!ShutOut, guard
<1>3. \/ "root" \in who /\ Chain!RequireRole(q) = {}
      \/ "root" \notin who /\ Chain!RequireRole(q) = {Chain!Refuse(403)}
  BY DEF Chain!RequireRole
<1>4. /\ guard # {} => Chain!First(guard, Chain!RequireRole(q)) = guard
      /\ guard = {} => Chain!First(guard, Chain!RequireRole(q)) = Chain!RequireRole(q)
  BY DEF Chain!First
<1> QED BY <1>1, <1>2, <1>3, <1>4

(* Who is barred, and with what: exactly one answer.                       *)
BarredAs(r, who, shut) ==
  \/ Chain!Denied(r) /\ shut = {Chain!Refuse(403)}
  \/ /\ ~Chain!Denied(r)
     /\ \/ r.route = Chain!NoRoute /\ shut = {Chain!Refuse(404)}
        \/ /\ r.route # Chain!NoRoute /\ r.route \notin Chain!RootRoutes \cup Chain!GuardedRoutes
           /\ shut = {}
        \/ /\ r.route \in Chain!RootRoutes \cup Chain!GuardedRoutes /\ who = {}
           /\ shut = {Chain!SendTo(r, "login")}
        \/ /\ r.route \in Chain!RootRoutes \cup Chain!GuardedRoutes
           /\ who # {} /\ r.expired /\ r.route \notin Chain!ChangeScreen
           /\ shut = {Chain!SendTo(r, "password")}
        \/ r.route \in Chain!RootRoutes /\ "root" \notin who /\ shut = {Chain!Refuse(403)}
        \/ /\ who # {} /\ (r.expired => r.route \in Chain!ChangeScreen) /\ r.route # Chain!NoRoute
           /\ r.route \in Chain!RootRoutes => "root" \in who
           /\ shut = {}

(* Who is barred from which route, and what answers instead.               *)
LEMMA WhoIsBarred ==
  ASSUME NEW r \in Chain!Request
  PROVE  BarredAs(r, Chain!Identity(r), Chain!Barred(r, Chain!Arrive(r)))
<1> DEFINE who == Chain!Identity(r)
           shut == Chain!Barred(r, Chain!Arrive(r))
<1> HIDE DEF who
<1> SUFFICES BarredAs(r, who, shut)
  BY DEF who
<1> DEFINE ctx == Chain!Arrive(r)
           q == Chain!Handed(r, ctx)
<1>1. /\ ctx.actor = who
      /\ Chain!Denied(r) => ctx.answer = {Chain!Refuse(403)}
      /\ ~Chain!Denied(r) => ctx.answer = {} /\ ctx.htmx = r.htmx
  BY ArrivesDenied, ArrivesWhole DEF who
<1>2. shut = Chain!First(ctx.answer, Chain!ShutOut(q))
  BY DEF Chain!Barred
<1> HIDE DEF ctx, shut
<1>3. CASE Chain!Denied(r)
  <2>1. {Chain!Refuse(403)} # {}
    OBVIOUS
  <2> QED BY <1>1, <1>2, <1>3, <2>1 DEF Chain!First, BarredAs
<1>4. CASE ~Chain!Denied(r)
  <2>1. shut = Chain!ShutOut(q)
    BY <1>1, <1>2, <1>4 DEF Chain!First
  <2>2. q.route = r.route /\ q.expired = r.expired /\ q.htmx = r.htmx /\ Chain!Identity(q) = who
    BY <1>1, <1>4, HandedAsItCame DEF who
  <2>3. Chain!SendTo(q, "login") = Chain!SendTo(r, "login")
        /\ Chain!SendTo(q, "password") = Chain!SendTo(r, "password")
    BY <2>2 DEF Chain!SendTo
  <2> HIDE DEF q
  <2> QED BY <1>4, <2>1, <2>2, <2>3, WhoIsShutOut DEF BarredAs
<1> QED BY <1>3, <1>4

(* What a barred request is answered.                                      *)
BarredAnswer(a, r, x) ==
  /\ a.ran = FALSE /\ a.status = x.status /\ a.to = x.to
  /\ a.level = Chain!LevelFor(x.status) /\ a.cookies = Chain!Arrive(r).cookies \o <<>>
  /\ a.refused = Chain!Arrive(r).lines

(* The answer to a request that is barred.                                 *)
LEMMA BarredIsAnswered ==
  ASSUME NEW r, NEW x, Chain!Barred(r, Chain!Arrive(r)) = {x}
  PROVE  BarredAnswer(Chain!Serve(r), r, x)
<1> DEFINE ctx == Chain!Arrive(r)
           shut == Chain!Barred(r, ctx)
<1>1. (shut = {}) = FALSE /\ (CHOOSE y \in shut : TRUE) = x
  OBVIOUS
<1>2. Head(<<x.status>>) = x.status
  OBVIOUS
<1> HIDE DEF ctx, shut
<1> QED BY <1>1, <1>2 DEF Chain!Serve, ctx, shut, BarredAnswer

(* What a handler that runs leaves behind.                                 *)
HandlerAnswer(a, r) ==
  /\ a.ran = TRUE
  /\ a.status = Chain!Recorded(IF r.ends = "aborts" THEN <<0>>
                               ELSE Chain!Recover(r, Chain!Writes(r)))
  /\ a.level = Chain!LevelFor(Chain!Recorded(Chain!Recover(r, Chain!Writes(r))))
  /\ a.cookies = Chain!Arrive(r).cookies \o (IF r.ends = "signs in" THEN <<"set">> ELSE <<>>)
  /\ a.refused = Chain!Arrive(r).lines

(* The answer to a request whose handler runs.                             *)
LEMMA HandlerIsAnswered ==
  ASSUME NEW r, Chain!Barred(r, Chain!Arrive(r)) = {}
  PROVE  HandlerAnswer(Chain!Serve(r), r)
<1> DEFINE ctx == Chain!Arrive(r)
           shut == Chain!Barred(r, ctx)
<1>1. (shut = {}) = TRUE
  OBVIOUS
<1>2. Chain!Place(ctx.inside, "recover") > 0
      /\ Chain!Place(ctx.inside, "recover") > Chain!Place(ctx.inside, "logger")
  <2>1. ctx.inside = FirstLinks(6) \/ ctx.inside = FirstLinks(7)
    BY ArrivesDenied, ArrivesWhole
  <2> HIDE DEF ctx
  <2>2. Chain!Place(ctx.inside, "recover") = 3 /\ Chain!Place(ctx.inside, "logger") = 2
    BY <2>1, RecoverIsThird
  <2> QED BY <2>2
<1> HIDE DEF ctx, shut
<1> QED BY <1>1, <1>2 DEF Chain!Serve, ctx, shut, HandlerAnswer

(* A section of a root, by its first word.                                 *)
Sections == {"users", "seasons", "drops", "types", "templates", "milestones"}

(* Which routes lie in the sections of a root.                             *)
LEMMA OpenRoutesAreNoSection ==
  ASSUME NEW route \in Chain!OpenRoutes
  PROVE  route[2] \notin Sections
BY DEF Chain!OpenRoutes, Sections

(* No guarded route but the list of milestones is in a section of a root.  *)
LEMMA GuardedRoutesAreNoSection ==
  ASSUME NEW route \in Chain!GuardedRoutes, route[2] \in Sections
  PROVE  route = <<"GET", "milestones", "list">>
<1>1. \A x \in Chain!ChangeScreen : x[2] = "password"
  BY DEF Chain!ChangeScreen
<1>2. \A x \in Chain!Card("models") : x[2] = "models"
  BY DEF Chain!Card
<1>3. route[2] # "models" /\ route[2] # "root" /\ route[2] # "password"
  BY DEF Sections
<1>4. \/ route \in Chain!ChangeScreen \/ route \in Chain!Card("models")
      \/ route = <<"GET", "root", "redirect">> \/ route = <<"GET", "models", "edit">>
      \/ route = <<"GET", "models", "edit photos">> \/ route = <<"POST", "models", "add photos">>
      \/ route = <<"POST", "models", "order photos">> \/ route = <<"POST", "models", "remove photo">>
      \/ route = <<"POST", "models", "apply template">> \/ route = <<"POST", "models", "add milestone">>
      \/ route = <<"POST", "models", "save milestone">> \/ route = <<"GET", "models", "edit calendar">>
      \/ route = <<"GET", "models", "edit milestone">> \/ route = <<"GET", "models", "preview plan">>
      \/ route = <<"GET", "milestones", "list">>
  BY Zenon DEF Chain!GuardedRoutes
<1>5. \/ route \in Chain!ChangeScreen \/ route \in Chain!Card("models")
      \/ \E x : route = <<"GET", "root", x>>
      \/ \E x : route = <<"GET", "models", x>>
      \/ \E x : route = <<"POST", "models", x>>
      \/ route = <<"GET", "milestones", "list">>
  BY <1>4, Zenon
<1> QED BY <1>1, <1>2, <1>3, <1>5

(* What no route matches is in no section.                                 *)
LEMMA NoRouteIsNoSection == Chain!NoRoute[2] \notin Sections
BY DEF Chain!NoRoute, Sections

(* A request is barred or its handler runs.                                *)
LEMMA RunsUnlessBarred ==
  ASSUME NEW r \in Chain!Request
  PROVE  /\ Chain!Runs(r) <=> Chain!Barred(r, Chain!Arrive(r)) = {}
         /\ Chain!Barred(r, Chain!Arrive(r)) = {} \/ \E x : Chain!Barred(r, Chain!Arrive(r)) = {x}
<1> DEFINE shut == Chain!Barred(r, Chain!Arrive(r))
<1>1. PICK who, barred : who = Chain!Identity(r) /\ barred = shut
  OBVIOUS
<1>1a. BarredAs(r, who, barred)
  BY <1>1, WhoIsBarred, Zenon
<1>2. shut = {} \/ \E x : shut = {x}
  BY <1>1, <1>1a DEF BarredAs
<1>3. ASSUME shut = {} PROVE Chain!Runs(r)
  <2>1. Chain!Serve(r).ran = TRUE
    BY <1>3, HandlerIsAnswered, Zenon DEF HandlerAnswer
  <2> QED BY <2>1, Zenon DEF Chain!Runs
<1>4. ASSUME NEW x, shut = {x} PROVE ~Chain!Runs(r)
  <2>1. Chain!Serve(r).ran = FALSE
    BY <1>4, BarredIsAnswered, Zenon DEF BarredAnswer
  <2> QED BY <2>1, Zenon DEF Chain!Runs
<1> HIDE DEF shut
<1>5. Chain!Runs(r) <=> shut = {}
  <2>1. \A x : shut = {x} => shut # {}
    OBVIOUS
  <2> QED BY <1>2, <1>3, <1>4
<1> QED BY <1>2, <1>5 DEF shut

(* Whose handler runs.                                                     *)
LEMMA WhoRuns ==
  ASSUME NEW r \in Chain!Request, NEW who, who = Chain!Identity(r), Chain!Runs(r)
  PROVE  /\ ~Chain!Denied(r) /\ r.route # Chain!NoRoute
         /\ \/ r.route \notin Chain!RootRoutes \cup Chain!GuardedRoutes
            \/ /\ who # {} /\ (r.expired => r.route \in Chain!ChangeScreen)
               /\ r.route \in Chain!RootRoutes => "root" \in who
<1>1. PICK shut : shut = Chain!Barred(r, Chain!Arrive(r))
  OBVIOUS
<1>2. shut = {}
  BY <1>1, RunsUnlessBarred
<1>3. shut # {Chain!Refuse(403)} /\ shut # {Chain!Refuse(404)}
      /\ shut # {Chain!SendTo(r, "login")} /\ shut # {Chain!SendTo(r, "password")}
  BY <1>2
<1>4. BarredAs(r, who, shut)
  BY <1>1, WhoIsBarred, Zenon
<1> QED BY <1>2, <1>3, <1>4 DEF BarredAs

(* Who reaches what.                                                       *)
LEMMA GuardsAlwaysHold == Chain!GuardsHold
<1> SUFFICES ASSUME NEW r \in Chain!Request, Chain!Runs(r)
             PROVE  /\ r.route \in Chain!OpenRoutes \/ r.cookie = "user"
                    /\ (r.cookie = "user" /\ r.expired) =>
                         r.route \in Chain!OpenRoutes \cup Chain!ChangeScreen
                    /\ r.route[2] \in Sections =>
                         (r.role = "root" \/ r.route = <<"GET", "milestones", "list">>)
                    /\ ~(r.cross /\ r.route[1] = "POST")
  BY DEF Chain!GuardsHold, Chain!Asking, Sections
<1>1. PICK who : who = Chain!Identity(r)
  OBVIOUS
<1>2. /\ ~Chain!Denied(r) /\ r.route # Chain!NoRoute
      /\ \/ r.route \notin Chain!RootRoutes \cup Chain!GuardedRoutes
         \/ /\ who # {} /\ (r.expired => r.route \in Chain!ChangeScreen)
            /\ r.route \in Chain!RootRoutes => "root" \in who
  BY <1>1, WhoRuns
<1>3. r.route \in Chain!OpenRoutes \/ r.route \in Chain!GuardedRoutes \/ r.route \in Chain!RootRoutes
  BY <1>2 DEF Chain!Request, Chain!Routes
<1>4. who # {} => r.cookie = "user"
  BY <1>1 DEF Chain!Identity, Chain!Anonymous
<1>5. "root" \in who => r.role = "root"
  BY <1>1 DEF Chain!Identity, Chain!Anonymous
<1>6. r.route[2] \in Sections => (r.role = "root" \/ r.route = <<"GET", "milestones", "list">>)
  <2>1. r.route[2] \in Sections => r.route \notin Chain!OpenRoutes
    BY OpenRoutesAreNoSection
  <2>2. r.route[2] \in Sections /\ r.route \in Chain!GuardedRoutes => r.route = <<"GET", "milestones", "list">>
    BY GuardedRoutesAreNoSection
  <2> QED BY <1>2, <1>3, <1>5, <2>1, <2>2
<1>7. ~(r.cross /\ r.route[1] = "POST")
  BY <1>2 DEF Chain!Denied
<1> QED BY <1>2, <1>3, <1>4, <1>6, <1>7

(* The screens a guard sends to.                                           *)
LEMMA ScreensAreThere ==
  /\ <<"GET", "login", "show">> \in Chain!Routes
  /\ <<"GET", "password", "show">> \in Chain!Routes
  /\ <<"GET", "password", "show">> \in Chain!ChangeScreen
BY DEF Chain!Routes, Chain!OpenRoutes, Chain!GuardedRoutes, Chain!ChangeScreen

(* The login screen lies above the guards, and the change screen under     *)
(* none but the first.                                                     *)
LEMMA RootRoutesAreSections ==
  ASSUME NEW route \in Chain!RootRoutes
  PROVE  route[2] \in Sections
<1>1. /\ \A x \in Chain!Card("users") : x[2] = "users"
      /\ \A x \in Chain!Card("seasons") : x[2] = "seasons"
      /\ \A x \in Chain!Card("drops") : x[2] = "drops"
      /\ \A x \in Chain!Card("types") : x[2] = "types"
      /\ \A x \in Chain!Card("templates") : x[2] = "templates"
  BY DEF Chain!Card
<1>2. \/ route \in Chain!Card("users") \/ route \in Chain!Card("seasons") \/ route \in Chain!Card("drops")
      \/ route \in Chain!Card("types") \/ route \in Chain!Card("templates")
      \/ \E x : route = <<"POST", "users", x>>
      \/ \E x : route = <<"GET", "milestones", x>>
      \/ \E x : route = <<"POST", "templates", x>>
  BY Zenon DEF Chain!RootRoutes
<1>3. \/ route[2] = "users" \/ route[2] = "seasons" \/ route[2] = "drops" \/ route[2] = "types"
      \/ route[2] = "templates" \/ route[2] = "milestones"
  BY <1>1, <1>2
<1> QED BY <1>3 DEF Sections

(* The login screen lies above the guards.                                 *)
LEMMA LoginIsOpen ==
  <<"GET", "login", "show">> \notin Chain!RootRoutes \cup Chain!GuardedRoutes
<1> DEFINE login == <<"GET", "login", "show">>
<1>1. login[2] = "login" /\ login # <<"GET", "milestones", "list">>
  OBVIOUS
<1>2. "login" \notin Sections
  BY DEF Sections
<1>3. login \notin Chain!GuardedRoutes
  <2>1. \A x \in Chain!Card("models") : x[2] = "models"
    BY DEF Chain!Card
  <2>2. \A x \in Chain!ChangeScreen : x[2] = "password"
    BY DEF Chain!ChangeScreen
  <2>3. login \notin Chain!Card("models") /\ login \notin Chain!ChangeScreen
    BY <1>1, <2>1, <2>2
  <2>4. \A x : login # <<"GET", "root", x>> /\ login # <<"GET", "models", x>>
               /\ login # <<"POST", "models", x>> /\ login # <<"GET", "milestones", x>>
    OBVIOUS
  <2> HIDE DEF login
  <2> QED BY <2>3, <2>4, Zenon DEF Chain!GuardedRoutes
<1> HIDE DEF login
<1>4. login \notin Chain!RootRoutes
  BY <1>1, <1>2, RootRoutesAreSections
<1> QED BY <1>3, <1>4 DEF login

(* The change screen takes no role.                                        *)
LEMMA PasswordIsForAll == <<"GET", "password", "show">> \notin Chain!RootRoutes
<1> DEFINE screen == <<"GET", "password", "show">>
<1>1. screen[2] = "password"
  OBVIOUS
<1>2. "password" \notin Sections
  BY DEF Sections
<1> HIDE DEF screen
<1>3. screen \notin Chain!RootRoutes
  BY <1>1, <1>2, RootRoutesAreSections
<1> QED BY <1>3 DEF screen

(* A request for another screen, of the same user.                         *)
LEMMA AsksAgain ==
  ASSUME NEW r \in Chain!Request, NEW there \in Chain!Routes, there[1] = "GET",
         NEW q, q = [r EXCEPT !.route = there]
  PROVE  q \in Chain!Request /\ ~Chain!Denied(q) /\ q.route = there
<1>1. q \in Chain!Request /\ q.route = there
  BY DEF Chain!Request
<1>2. ~Chain!Denied(q)
  BY <1>1 DEF Chain!Denied
<1> QED BY <1>1, <1>2

(* The request for another screen comes of the same user.                  *)
LEMMA AsksAsBefore ==
  ASSUME NEW r \in Chain!Request, NEW there, NEW q, q = [r EXCEPT !.route = there]
  PROVE  Chain!Identity(q) = Chain!Identity(r)
<1>1. q.cookie = r.cookie /\ q.role = r.role
  BY DEF Chain!Request
<1> QED BY <1>1 DEF Chain!Identity

(* Where a guard sends a user, that user gets.                             *)
LEMMA SentOnAlways == Chain!SentOn
<1> SUFFICES ASSUME NEW r \in Chain!Request, ~Chain!Runs(r), Chain!Serve(r).to # "", ~r.cross
             PROVE  \E there \in Chain!Routes :
                      /\ there[1] = "GET" /\ there[2] = Chain!Serve(r).to
                      /\ Chain!Runs([r EXCEPT !.route = there])
  BY DEF Chain!SentOn, Chain!Asking
<1>1. PICK x : Chain!Barred(r, Chain!Arrive(r)) = {x}
  BY RunsUnlessBarred
<1>2. Chain!Serve(r).to = x.to
  <2>1. BarredAnswer(Chain!Serve(r), r, x)
    BY <1>1, BarredIsAnswered, Zenon
  <2> QED BY <2>1, Zenon DEF BarredAnswer
<1>3. x # Chain!Refuse(404) /\ x # Chain!Refuse(403)
  <2>1. Chain!Refuse(404).to = "" /\ Chain!Refuse(403).to = ""
    BY DEF Chain!Refuse
  <2> QED BY <1>2, <2>1
<1>4. ~Chain!Denied(r)
  BY DEF Chain!Denied
<1>5. PICK who, shut : who = Chain!Identity(r) /\ shut = {x}
  OBVIOUS
<1>6. \/ who = {} /\ shut = {Chain!SendTo(r, "login")}
      \/ who # {} /\ r.expired /\ shut = {Chain!SendTo(r, "password")}
  <2>1. \A y : x # y => shut # {y}
    BY <1>5
  <2>2. shut # {} /\ shut # {Chain!Refuse(404)} /\ shut # {Chain!Refuse(403)}
    BY <1>3, <1>5, <2>1
  <2>3. BarredAs(r, who, shut)
    BY <1>1, <1>5, WhoIsBarred, Zenon
  <2> QED BY <1>4, <2>2, <2>3 DEF BarredAs
<1>7. CASE who = {} /\ shut = {Chain!SendTo(r, "login")}
  <2>1. PICK there : there = <<"GET", "login", "show">>
    OBVIOUS
  <2>2. there \in Chain!Routes /\ there[1] = "GET" /\ there[2] = "login"
        /\ there \notin Chain!RootRoutes \cup Chain!GuardedRoutes /\ there # Chain!NoRoute
    BY <2>1, ScreensAreThere, LoginIsOpen DEF Chain!NoRoute
  <2>3. x.to = "login"
    <3>1. x = Chain!SendTo(r, "login")
      BY <1>5, <1>7
    <3> QED BY <3>1 DEF Chain!SendTo
  <2>4. PICK q : q = [r EXCEPT !.route = there]
    OBVIOUS
  <2>5. q \in Chain!Request /\ ~Chain!Denied(q) /\ q.route = there
    BY <2>2, <2>4, AsksAgain, Zenon
  <2>6. Chain!Barred(q, Chain!Arrive(q)) = {}
    <3>1. PICK barred, other : barred = Chain!Barred(q, Chain!Arrive(q)) /\ other = Chain!Identity(q)
      OBVIOUS
    <3>2. BarredAs(q, other, barred)
      BY <2>5, <3>1, WhoIsBarred, Zenon
    <3> QED BY <2>2, <2>5, <3>1, <3>2 DEF BarredAs
  <2>7. Chain!Runs(q)
    BY <2>5, <2>6, RunsUnlessBarred
  <2> QED BY <1>2, <2>2, <2>3, <2>4, <2>7
<1>8. CASE who # {} /\ r.expired /\ shut = {Chain!SendTo(r, "password")}
  <2>1. PICK there : there = <<"GET", "password", "show">>
    OBVIOUS
  <2>2. there \in Chain!Routes /\ there[1] = "GET" /\ there[2] = "password"
        /\ there \notin Chain!RootRoutes /\ there \in Chain!ChangeScreen /\ there # Chain!NoRoute
    BY <2>1, ScreensAreThere, PasswordIsForAll DEF Chain!NoRoute
  <2>3. x.to = "password"
    <3>1. x = Chain!SendTo(r, "password")
      BY <1>5, <1>8
    <3> QED BY <3>1 DEF Chain!SendTo
  <2>4. PICK q : q = [r EXCEPT !.route = there]
    OBVIOUS
  <2>5. q \in Chain!Request /\ ~Chain!Denied(q) /\ q.route = there /\ Chain!Identity(q) = who
    <3>1. q \in Chain!Request /\ ~Chain!Denied(q) /\ q.route = there
      BY <2>2, <2>4, AsksAgain, Zenon
    <3>2. Chain!Identity(q) = Chain!Identity(r)
      BY <2>4, AsksAsBefore, Zenon
    <3> QED BY <1>5, <3>1, <3>2, Zenon
  <2>6. Chain!Barred(q, Chain!Arrive(q)) = {}
    <3>1. PICK barred : barred = Chain!Barred(q, Chain!Arrive(q))
      OBVIOUS
    <3>2. BarredAs(q, who, barred)
      BY <2>5, <3>1, WhoIsBarred, Zenon
    <3> QED BY <1>8, <2>2, <2>5, <3>1, <3>2 DEF BarredAs
  <2>7. Chain!Runs(q)
    BY <2>5, <2>6, RunsUnlessBarred
  <2> QED BY <1>2, <2>2, <2>3, <2>4, <2>7
<1> QED BY <1>6, <1>7, <1>8

(* The cookies of an answer: what a link cleared, and what a sign-in sets. *)
CookiesBefore(first) == first = <<>> \/ first = <<"clear">>

CookiesAfter(then) == then = <<>> \/ then = <<"set">>

CookiesOf(all, first, then) ==
  /\ then = <<"set">> => all # <<>> /\ all[Len(all)] = "set"
  /\ then = <<>> => all = first

(* The last cookie of an answer is the one a sign-in sets, if one does.    *)
LEMMA CookiesInOrder ==
  ASSUME NEW first, CookiesBefore(first), NEW then, CookiesAfter(then), NEW all, all = first \o then
  PROVE  CookiesOf(all, first, then)
<1> DEFINE S == {"clear", "set"}
<1>1. first \in Seq(S) /\ then \in Seq(S)
  <2>1. <<>> \in Seq(S) /\ <<"clear">> \in Seq(S) /\ <<"set">> \in Seq(S)
    OBVIOUS
  <2> HIDE DEF S
  <2> QED BY <2>1 DEF CookiesBefore, CookiesAfter
<1> HIDE DEF S
<1>2. Len(all) = Len(first) + Len(then)
  BY <1>1, ConcatProperties
<1>3. \A i \in 1..Len(then) : all[Len(first) + i] = then[i]
  <2>1. \A i \in 1..(Len(first) + Len(then)) :
          (first \o then)[i] = IF i <= Len(first) THEN first[i] ELSE then[i - Len(first)]
    BY <1>1, ConcatProperties
  <2>2. Len(first) \in Nat /\ Len(then) \in Nat
    BY <1>1, LenProperties
  <2>3. ASSUME NEW i \in 1..Len(then) PROVE all[Len(first) + i] = then[i]
    <3>1. Len(first) + i \in 1..(Len(first) + Len(then)) /\ ~(Len(first) + i <= Len(first))
          /\ Len(first) + i - Len(first) = i
      BY <2>2
    <3> QED BY <2>1, <3>1
  <2> QED BY <2>3
<1>4. ASSUME then = <<"set">> PROVE all # <<>> /\ all[Len(all)] = "set"
  <2>1. Len(then) = 1 /\ then[1] = "set"
    BY <1>4
  <2>2. Len(first) \in Nat
    BY <1>1, LenProperties
  <2>3. all[Len(all)] = "set"
    BY <1>2, <1>3, <2>1, <2>2
  <2>4. Len(all) > 0
    BY <1>2, <2>1, <2>2
  <2>5. Len(<<>>) = 0
    OBVIOUS
  <2>6. all # <<>>
    BY <2>4, <2>5
  <2> QED BY <2>3, <2>6
<1>5. ASSUME then = <<>> PROVE all = first
  BY <1>1, <1>5, ConcatEmptySeq
<1> QED BY <1>4, <1>5 DEF CookiesOf

(* What the status and the log say of a handler that ran.                  *)
Settled(status, level, ends) ==
  /\ level = "error" <=> status = 500
  /\ ends = "panics" => status = 500

(* Only a handler that fails, or panics in time, leaves a 500.             *)
LEMMA StatusesSettle ==
  ASSUME NEW r \in Chain!Request, NEW status, NEW level,
         status = Chain!Recorded(IF r.ends = "aborts" THEN << 0 >>
                                 ELSE Chain!Recover(r, Chain!Writes(r))),
         level = Chain!LevelFor(Chain!Recorded(Chain!Recover(r, Chain!Writes(r))))
  PROVE  Settled(status, level, r.ends)
<1>1. \/ r.ends = "answers" \/ r.ends = "signs in" \/ r.ends = "fails" \/ r.ends = "panics"
      \/ r.ends = "panics late" \/ r.ends = "aborts"
  BY DEF Chain!Request
<1>2. /\ Chain!Recorded(<<0>>) = 0 /\ Chain!Recorded(<<200>>) = 200 /\ Chain!Recorded(<<303>>) = 303
      /\ Chain!Recorded(<<500>>) = 500 /\ Chain!Recorded(<<>>) = 200
  BY DEF Chain!Recorded
<1>3. Chain!LevelFor(200) = "info" /\ Chain!LevelFor(303) = "info" /\ Chain!LevelFor(500) = "error"
  BY DEF Chain!LevelFor
<1>4. CASE r.ends = "answers" \/ r.ends = "panics late"
  <2>1. Chain!Recover(r, Chain!Writes(r)) = <<200>>
    BY <1>4 DEF Chain!Recover, Chain!Writes
  <2>2. status = 200
    <3>1. r.ends # "aborts"
      BY <1>4
    <3> QED BY <1>2, <2>1, <3>1
  <2>3. level = "info"
    BY <1>2, <1>3, <2>1
  <2>4. status # 500
    BY <2>2
  <2>5. level # "error"
    BY <2>3
  <2>6. r.ends # "panics"
    BY <1>4
  <2> QED BY <2>4, <2>5, <2>6, Zenon DEF Settled
<1>5. CASE r.ends = "signs in"
  <2>1. Chain!Recover(r, Chain!Writes(r)) = <<303>>
    BY <1>5 DEF Chain!Recover, Chain!Writes
  <2>2. status = 303
    <3>1. r.ends # "aborts"
      BY <1>5
    <3> QED BY <1>2, <2>1, <3>1
  <2>3. level = "info"
    BY <1>2, <1>3, <2>1
  <2>4. status # 500
    BY <2>2
  <2>5. level # "error"
    BY <2>3
  <2>6. r.ends # "panics"
    BY <1>5
  <2> QED BY <2>4, <2>5, <2>6, Zenon DEF Settled
<1>6. CASE r.ends = "fails" \/ r.ends = "panics"
  <2>1. Chain!Recover(r, Chain!Writes(r)) = <<500>>
    BY <1>6 DEF Chain!Recover, Chain!Writes
  <2>2. status = 500
    BY <1>2, <1>6, <2>1
  <2>3. level = "error"
    BY <1>2, <1>3, <2>1
  <2> QED BY <2>2, <2>3 DEF Settled
<1>7. CASE r.ends = "aborts"
  <2>1. Chain!Recover(r, Chain!Writes(r)) = <<>>
    BY <1>7 DEF Chain!Recover, Chain!Writes
  <2>2. status = 0
    BY <1>2, <1>7
  <2>3. level = "info"
    BY <1>2, <1>3, <2>1
  <2> QED BY <1>7, <2>2, <2>3 DEF Settled
<1> QED BY <1>1, <1>4, <1>5, <1>6, <1>7

(* What an answer's handler leaves is settled.                             *)
LEMMA HandlersEnd ==
  ASSUME NEW r \in Chain!Request, NEW a, HandlerAnswer(a, r)
  PROVE  Settled(a.status, a.level, r.ends)
<1>1. PICK status, level : status = a.status /\ level = a.level
  OBVIOUS
<1>2. /\ status = Chain!Recorded(IF r.ends = "aborts" THEN <<0>>
                                 ELSE Chain!Recover(r, Chain!Writes(r)))
      /\ level = Chain!LevelFor(Chain!Recorded(Chain!Recover(r, Chain!Writes(r))))
  BY <1>1, Zenon DEF HandlerAnswer
<1>3. Settled(status, level, r.ends)
  BY <1>2, StatusesSettle, Zenon
<1> QED BY <1>1, <1>3, Zenon

(* What is answered in place of a handler.                                 *)
InPlace(x, htmx) ==
  \/ x = Chain!Refuse(403) \/ x = Chain!Refuse(404)
  \/ \E to : x = [status |-> 200, to |-> to]
  \/ \E to : x = [status |-> 303, to |-> to] /\ ~htmx

(* What bars a request is one of those.                                    *)
LEMMA WhatBars ==
  ASSUME NEW r \in Chain!Request, NEW x, Chain!Barred(r, Chain!Arrive(r)) = {x}
  PROVE  InPlace(x, r.htmx)
<1>1. PICK who, shut : who = Chain!Identity(r) /\ shut = Chain!Barred(r, Chain!Arrive(r))
  OBVIOUS
<1>2. BarredAs(r, who, shut)
  BY <1>1, WhoIsBarred, Zenon
<1>3. PICK bad, away, login, password :
        /\ bad = Chain!Refuse(403) /\ away = Chain!Refuse(404)
        /\ login = Chain!SendTo(r, "login") /\ password = Chain!SendTo(r, "password")
  OBVIOUS
<1>4. shut = {x}
  BY <1>1
<1>5. x = bad \/ x = away \/ x = login \/ x = password
  <2>1. shut = {bad} \/ shut = {away} \/ shut = {login} \/ shut = {password} \/ shut = {}
    BY <1>2, <1>3 DEF BarredAs
  <2> QED BY <1>4, <2>1
<1>6. ASSUME NEW to PROVE InPlace(Chain!SendTo(r, to), r.htmx)
  BY DEF Chain!SendTo, InPlace
<1> QED BY <1>3, <1>5, <1>6 DEF InPlace

NoFailure(a, htmx) == a.level = "info" /\ a.status # 500 /\ (a.status = 303 => ~htmx)

(* What is answered in its place is no failure.                            *)
LEMMA BarredEnd ==
  ASSUME NEW r \in Chain!Request, NEW x, InPlace(x, r.htmx), NEW a, BarredAnswer(a, r, x)
  PROVE  NoFailure(a, r.htmx)
<1>1. a.status = x.status /\ a.level = Chain!LevelFor(x.status)
  BY Zenon DEF BarredAnswer
<1>2. \/ x.status = 403 \/ x.status = 404 \/ x.status = 200 \/ (x.status = 303 /\ ~r.htmx)
  <2>1. ASSUME x = Chain!Refuse(403) PROVE x.status = 403
    <3>1. Chain!Refuse(403).status = 403
      BY DEF Chain!Refuse
    <3> QED BY <2>1, <3>1
  <2>2. ASSUME x = Chain!Refuse(404) PROVE x.status = 404
    <3>1. Chain!Refuse(404).status = 404
      BY DEF Chain!Refuse
    <3> QED BY <2>2, <3>1
  <2>3. ASSUME NEW to, x = [status |-> 200, to |-> to] PROVE x.status = 200
    BY <2>3
  <2>4. ASSUME NEW to, x = [status |-> 303, to |-> to] PROVE x.status = 303
    BY <2>4
  <2>5. CASE \E to : x = [status |-> 303, to |-> to] /\ ~r.htmx
    <3>1. x.status = 303 /\ ~r.htmx
      BY <2>4, <2>5
    <3> QED BY <3>1, Zenon
  <2>6. CASE \E to : x = [status |-> 200, to |-> to]
    <3>1. x.status = 200
      BY <2>3, <2>6
    <3> QED BY <3>1, Zenon
  <2>7. \/ x = Chain!Refuse(403) \/ x = Chain!Refuse(404)
        \/ \E to : x = [status |-> 200, to |-> to]
        \/ \E to : x = [status |-> 303, to |-> to] /\ ~r.htmx
    BY Zenon DEF InPlace
  <2> QED BY <2>1, <2>2, <2>5, <2>6, <2>7, Zenon
<1>3. /\ Chain!LevelFor(403) = "info" /\ Chain!LevelFor(404) = "info"
      /\ Chain!LevelFor(200) = "info" /\ Chain!LevelFor(303) = "info"
  BY DEF Chain!LevelFor
<1>4. PICK status : status = x.status
  OBVIOUS
<1>5. a.level = "info"
  <2>1. a.level = Chain!LevelFor(403) \/ a.level = Chain!LevelFor(404)
        \/ a.level = Chain!LevelFor(200) \/ a.level = Chain!LevelFor(303)
    BY <1>1, <1>2, Zenon
  <2> QED BY <1>3, <2>1, Zenon
<1>6. a.status # 500 /\ (a.status = 303 => ~r.htmx)
  <2>1. \/ status = 403 \/ status = 404 \/ status = 200 \/ (status = 303 /\ ~r.htmx)
    BY <1>2, <1>4
  <2>2. status # 500 /\ (status = 303 => ~r.htmx)
    BY <2>1
  <2> QED BY <1>1, <1>4, <2>2
<1> QED BY <1>5, <1>6, Zenon DEF NoFailure

(* What the browser and the log are given.                                 *)
LEMMA AnswersAlwaysHold == Chain!AnswersHold
<1> SUFFICES ASSUME NEW r \in Chain!Request, r.ends = "signs in" => r.route = <<"POST", "login", "submit">>
             PROVE  LET a    == Chain!Serve(r)
                        last == a.cookies[Len(a.cookies)]
                    IN  /\ r.cookie \in {"bad", "unresolved"} =>
                              /\ a.cookies # <<>>
                              /\ last = "set" <=> a.ran /\ r.ends = "signs in"
                        /\ r.cookie = "user" /\ a.cookies # <<>> => last = "set"
                        /\ a.level = "error" <=> a.status = 500
                        /\ a.ran /\ r.ends = "panics" => a.status = 500
                        /\ Chain!Denied(r) => a.refused = <<[id |-> TRUE, actor |-> Chain!Identity(r)]>>
                        /\ a.status = 303 /\ ~a.ran => ~r.htmx
  BY DEF Chain!AnswersHold, Chain!Requests
<1> DEFINE a == Chain!Serve(r)
           last == a.cookies[Len(a.cookies)]
<1>1. PICK who, shut : who = Chain!Identity(r) /\ shut = Chain!Barred(r, Chain!Arrive(r))
  OBVIOUS
<1>2. BarredAs(r, who, shut)
  BY <1>1, WhoIsBarred, Zenon
<1>3. Chain!Arrive(r).cookies = Cleared(r)
  BY ArrivesDenied, ArrivesWhole
<1>4. PICK first : first = Cleared(r)
  OBVIOUS
<1>5. /\ r.cookie \in {"bad", "unresolved"} => first = <<"clear">>
      /\ r.cookie = "user" => first = <<>>
      /\ first = <<>> \/ first = <<"clear">>
  BY <1>4 DEF Cleared
<1>6. Chain!Denied(r) => a.refused = <<[id |-> TRUE, actor |-> Chain!Identity(r)]>>
  <2> SUFFICES ASSUME Chain!Denied(r) PROVE a.refused = <<[id |-> TRUE, actor |-> Chain!Identity(r)]>>
    OBVIOUS
  <2>1. Chain!Arrive(r).lines = <<[id |-> TRUE, actor |-> Chain!Identity(r)]>>
    BY ArrivesDenied, Zenon
  <2>2. a.refused = Chain!Arrive(r).lines
    <3>1. CASE Chain!Barred(r, Chain!Arrive(r)) = {}
      BY <3>1, HandlerIsAnswered, Zenon DEF HandlerAnswer
    <3>2. ASSUME NEW x, Chain!Barred(r, Chain!Arrive(r)) = {x} PROVE a.refused = Chain!Arrive(r).lines
      BY <3>2, BarredIsAnswered, Zenon DEF BarredAnswer
    <3> QED BY <3>1, <3>2, RunsUnlessBarred
  <2> QED BY <2>1, <2>2, Zenon
<1>7. CASE shut = {}
  <2>1. HandlerAnswer(a, r)
    BY <1>1, <1>7, HandlerIsAnswered, Zenon
  <2>2. a.ran = TRUE
    BY <2>1, Zenon DEF HandlerAnswer
  <2>3. (a.level = "error" <=> a.status = 500) /\ (r.ends = "panics" => a.status = 500)
    <3>1. Settled(a.status, a.level, r.ends)
      BY <2>1, HandlersEnd, Zenon
    <3> QED BY <3>1, Zenon DEF Settled
  <2>4. PICK then : then = IF r.ends = "signs in" THEN <<"set">> ELSE <<>>
    OBVIOUS
  <2>5. CookiesOf(a.cookies, first, then)
    <3>1. a.cookies = first \o then
      BY <1>3, <1>4, <2>1, <2>4, Zenon DEF HandlerAnswer
    <3>2. PICK all : all = a.cookies
      OBVIOUS
    <3>3. CookiesAfter(then)
      BY <2>4, Zenon DEF CookiesAfter
    <3>4. CookiesOf(all, first, then)
      BY <1>5, <3>1, <3>2, <3>3, CookiesInOrder, Zenon DEF CookiesBefore
    <3> QED BY <3>2, <3>4, Zenon
  <2>6. r.ends = "signs in" => last = "set" /\ a.cookies # <<>>
    BY <2>4, <2>5, Zenon DEF CookiesOf
  <2>7. r.ends # "signs in" => a.cookies = first
    BY <2>4, <2>5, Zenon DEF CookiesOf
  <2> HIDE DEF a
  <2>8. r.cookie \in {"bad", "unresolved"} => /\ a.cookies # <<>>
                                              /\ last = "set" <=> r.ends = "signs in"
    <3>1. <<"clear">> # <<>> /\ Len(<<"clear">>) = 1 /\ <<"clear">>[1] # "set"
      OBVIOUS
    <3>2. CASE r.ends = "signs in"
      BY <2>6, <3>2, Zenon
    <3>3. ASSUME r.cookie \in {"bad", "unresolved"}, r.ends # "signs in"
          PROVE  a.cookies # <<>> /\ last # "set"
      <4>1. a.cookies = <<"clear">>
        BY <1>5, <2>7, <3>3, Zenon
      <4> QED BY <3>1, <4>1 DEF last
    <3> HIDE DEF last
    <3> QED BY <3>2, <3>3, Zenon
  <2>9. r.cookie = "user" /\ a.cookies # <<>> => last = "set"
    BY <1>5, <2>6, <2>7, Zenon
  <2> HIDE DEF last
  <2> QED BY <1>6, <2>2, <2>3, <2>8, <2>9, Zenon DEF a, last
<1>8. CASE shut # {}
  <2>1. PICK x : shut = {x}
    BY <1>1, <1>8, RunsUnlessBarred
  <2>2. BarredAnswer(a, r, x)
    BY <1>1, <2>1, BarredIsAnswered, Zenon
  <2>3. a.ran = FALSE
    BY <2>2, Zenon DEF BarredAnswer
  <2>4. InPlace(x, r.htmx)
    BY <1>1, <2>1, WhatBars, Zenon
  <2>5. a.level = "info" /\ a.status # 500 /\ (a.status = 303 => ~r.htmx)
    <3>1. NoFailure(a, r.htmx)
      BY <2>2, <2>4, BarredEnd, Zenon
    <3> QED BY <3>1, Zenon DEF NoFailure
  <2>6. a.cookies = first
    <3>1. PICK then, all : then = <<>> /\ all = a.cookies
      OBVIOUS
    <3>2. all = first \o then
      BY <1>3, <1>4, <2>2, <3>1, Zenon DEF BarredAnswer
    <3>3. CookiesOf(all, first, then)
      BY <1>5, <3>1, <3>2, CookiesInOrder, Zenon DEF CookiesBefore, CookiesAfter
    <3> QED BY <3>1, <3>3, Zenon DEF CookiesOf
  <2> HIDE DEF a
  <2>7. r.cookie \in {"bad", "unresolved"} => a.cookies # <<>> /\ last # "set"
    <3>1. <<"clear">> # <<>> /\ Len(<<"clear">>) = 1 /\ <<"clear">>[1] # "set"
      OBVIOUS
    <3> QED BY <1>5, <2>6, <3>1
  <2>8. r.cookie = "user" => a.cookies = <<>>
    BY <1>5, <2>6, Zenon
  <2>9. "info" # "error"
    OBVIOUS
  <2> HIDE DEF last
  <2> QED BY <1>6, <2>3, <2>5, <2>7, <2>8, <2>9, Zenon DEF a, last
<1> QED BY <1>7, <1>8

(* In every state: who reaches which route, however it is asked for;       *)
(* nobody is sent in a circle; and what the browser and the log are given  *)
(* agrees with what was done (router.go, middleware).                      *)
THEOREM RoutesAlwaysGuarded == Spec => []RoutesGuarded
<1>1. RoutesGuarded
  BY GuardsAlwaysHold, SentOnAlways, AnswersAlwaysHold, Zenon DEF RoutesGuarded, RouteGuards
<1> QED BY <1>1, PTL
=============================================================================
