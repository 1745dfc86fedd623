------------------------------- MODULE Accounts -------------------------------
(***************************************************************************)
(* The users, their sessions and the users section (internal/auth/auth.go  *)
(* behind the guards of internal/http/router.go): who may do what, what    *)
(* ends a session, and what the trail says of a role.                      *)
(*                                                                         *)
(* A browser sends one request at a time.  Steps are those of Calendar:    *)
(* one read with the decision that follows it, or one commit.  What is     *)
(* typed into a password field, and whether its hash is under older        *)
(* parameters, is any of the outcomes; names and addresses are left out,   *)
(* but an edit that only renames is an edit.  The throttle is Throttle.    *)
(***************************************************************************)
EXTENDS Integers, FiniteSets

CONSTANTS
  Clients,      \* the browsers
  Users,        \* the identifiers of users
  MaxRequests   \* bound: how many requests there are in a behaviour

ASSUME AccountsAssumption == MaxRequests \in Nat

VARIABLES
  users,    \* the table app_user
  told,     \* the role and the flag of every row, as the trail leaves them
  cookies,  \* the principal in the session cookie of the browsers that have one
  req,      \* where each browser stands in its request
  asked,    \* how many requests were made (bounded by MaxRequests)
  alone     \* history: no two requests were open at a time so far

vars == <<users, told, cookies, req, asked, alone>>

-----------------------------------------------------------------------------
Roles == {"member", "root"}

Epochs == Nat \ {0}

Row == [role : Roles, active : BOOLEAN, epoch : Epochs, expired : BOOLEAN]

Told == [role : Roles, active : BOOLEAN]

Principal == [user : Users, epoch : Epochs]

Fields == {"role", "active", "passwd"}     \* what an entry is about

Answers == {"none", "saved", "refused", "login", "expired", "forbidden",
            "missing", "lockout", "failed"}

(* What a browser's request holds between two of its steps.                *)
RequestOK(r) ==
  /\ r.step \in {"idle", "verify", "rehash", "cookie", "gate", "change",
                 "edit", "reset", "create", "write"}
  /\ r.step = "idle" => r.answer \in Answers
  /\ r.step \in {"verify", "rehash", "change", "edit", "reset", "write"} => r.at \in Users
  /\ r.step = "edit" => r.actor \in Users
  /\ r.step \in {"rehash", "write"} => r.row \in Row
  /\ r.step = "write" => r.fields \subseteq Fields /\ r.renew \in BOOLEAN
  /\ r.step = "cookie" => r.principal \in Principal

(* Every type of the variables.                                            *)
TypeOK ==
  /\ DOMAIN users \subseteq Users
  /\ \A u \in DOMAIN users : users[u] \in Row
  /\ DOMAIN told = DOMAIN users
  /\ \A u \in DOMAIN told : told[u] \in Told
  /\ DOMAIN cookies \subseteq Clients
  /\ \A c \in DOMAIN cookies : cookies[c] \in Principal
  /\ DOMAIN req = Clients
  /\ \A c \in Clients : RequestOK(req[c])
  /\ asked \in 0..MaxRequests
  /\ alone \in BOOLEAN

ActiveRoots(held) == {u \in DOMAIN held : held[u].active /\ held[u].role = "root"}

(* Users as Create wrote them, a root among them, and browsers that logged *)
(* in to them or did not.                                                  *)
Init ==
  /\ \E S \in SUBSET Users : \E role \in [S -> Roles], expired \in [S -> BOOLEAN] :
       users = [u \in S |-> [role |-> role[u], active |-> TRUE,
                             epoch |-> 1, expired |-> expired[u]]]
  /\ ActiveRoots(users) # {}
  /\ told = [u \in DOMAIN users |-> [role |-> users[u].role, active |-> TRUE]]
  /\ \E B \in SUBSET Clients : \E user \in [B -> DOMAIN users] :
       cookies = [c \in B |-> [user |-> user[c], epoch |-> 1]]
  /\ req = [c \in Clients |-> [step |-> "idle", answer |-> "none"]]
  /\ asked = 0
  /\ alone = TRUE

-----------------------------------------------------------------------------
At(c, step) == req[c].step = step

Goto(c, next) == req' = [req EXCEPT ![c] = next]

Answer(c, answer) == Goto(c, [step |-> "idle", answer |-> answer])

Ask(c) ==
  /\ At(c, "idle") /\ asked < MaxRequests
  /\ asked' = asked + 1
  /\ alone' = (alone /\ \A d \in Clients : At(d, "idle"))

Begin(c, next) ==
  /\ Ask(c)
  /\ Goto(c, next)
  /\ UNCHANGED <<users, told, cookies>>

(* A statement or the commit fails, the server goes away, or the answer    *)
(* that carries a cookie is lost after the commit.                         *)
Fail(c) ==
  /\ ~At(c, "idle")
  /\ Answer(c, "failed")
  /\ UNCHANGED <<users, told, cookies, asked, alone>>

PrincipalOf(u, row) == [user |-> u, epoch |-> row.epoch]

(* ByID and ByEmail: the row, or ErrNoUser.                                *)
ByID(u) == u \in DOMAIN users

ByEmail(u) == u \in DOMAIN users

(* Update: every field of the row goes back, those somebody else wrote     *)
(* since it was read included.                                             *)
Updated(u, row) == [users EXCEPT ![u] = row]

(* Resolve: the user is active, and the epochs are the same.               *)
Resolves(principal, held) ==
  /\ principal.user \in DOMAIN held
  /\ held[principal.user].active
  /\ held[principal.user].epoch = principal.epoch

-----------------------------------------------------------------------------
(* SubmitLogin and SubmitLogout.                                           *)

SubmitLogin(c) ==
  \/ \E u \in Users : Begin(c, [step |-> "verify", at |-> u])
  \/ Begin(c, [step |-> "idle", answer |-> "refused"])

(* Authenticate reads the row by its address and verifies the password.    *)
VerifyLogin(c) ==
  /\ At(c, "verify")
  /\ LET u == req[c].at
     IN  \/ Answer(c, "refused")
         \/ /\ ByEmail(u)
            /\ users[u].active
            /\ \/ Goto(c, [step |-> "rehash", at |-> u, row |-> users[u]])
               \/ Goto(c, [step |-> "cookie", principal |-> PrincipalOf(u, users[u])])
  /\ UNCHANGED <<users, told, cookies, asked, alone>>

(* rehash writes back the whole row that Authenticate read, and has        *)
(* nothing to tell.  A write that fails is logged, and the login holds.    *)
Rehash(c) ==
  /\ At(c, "rehash")
  /\ LET r == req[c]
     IN  /\ users' \in {users, Updated(r.at, r.row)}
         /\ Goto(c, [step |-> "cookie", principal |-> PrincipalOf(r.at, r.row)])
  /\ UNCHANGED <<told, cookies, asked, alone>>

(* SetSession: the browser takes the cookie of the answer.                 *)
SetSession(c) ==
  /\ At(c, "cookie")
  /\ cookies' = [d \in DOMAIN cookies \cup {c} |->
                   IF d = c THEN req[c].principal ELSE cookies[d]]
  /\ Answer(c, "saved")
  /\ UNCHANGED <<users, told, asked, alone>>

WithoutCookie(c) == [d \in DOMAIN cookies \ {c} |-> cookies[d]]

(* SubmitLogout, or the session has lasted its time.                       *)
DropSession(c) ==
  /\ c \in DOMAIN cookies
  /\ Ask(c)
  /\ cookies' = WithoutCookie(c)
  /\ UNCHANGED <<users, told, req>>

-----------------------------------------------------------------------------
(* The guards: Identity, RequireIdentity, RequirePasswordChange and        *)
(* RequireRole, on one read of the row the cookie names.                   *)

(* RequirePasswordChange: the change screen is all that is reached.        *)
HeldOnChange(row) == row.expired

(* RequireRole of the users section, past the guard before it.             *)
Covered(row) == ~HeldOnChange(row) /\ row.role = "root"

SendRequest(c) == Begin(c, [step |-> "gate"])

(* A cookie is cleared when its user does not resolve, which is also so    *)
(* when the database does not answer.                                      *)
TurnAway(c) ==
  /\ cookies' = WithoutCookie(c)
  /\ Answer(c, "login")

(* Past Identity: what the guards let a user with this row do.             *)
Enter(c, actor, row) ==
  \/ Goto(c, [step |-> "change", at |-> actor])
  \/ /\ HeldOnChange(row)
     /\ Answer(c, "expired")
  \/ /\ ~HeldOnChange(row) /\ ~Covered(row)
     /\ Answer(c, "forbidden")
  \/ /\ Covered(row)
     /\ \/ Goto(c, [step |-> "create"])
        \/ \E u \in Users :
             \/ Goto(c, [step |-> "edit", at |-> u, actor |-> actor])
             \/ Goto(c, [step |-> "reset", at |-> u])

Gate(c) ==
  /\ At(c, "gate")
  /\ \/ TurnAway(c)
     \/ /\ c \in DOMAIN cookies
        /\ Resolves(cookies[c], users)
        /\ Enter(c, cookies[c].user, users[cookies[c].user])
        /\ UNCHANGED cookies
  /\ UNCHANGED <<users, told, asked, alone>>

-----------------------------------------------------------------------------

(* NewUser: the row of a new account, active, in its first epoch.          *)
NewUser(role, expired) ==
  [role |-> role, active |-> TRUE, epoch |-> 1, expired |-> expired]

(* Create: a row nobody holds, with its entry, in one transaction.         *)
Create(row) ==
  \E u \in Users \ DOMAIN users :
    /\ users' = [v \in DOMAIN users \cup {u} |-> IF v = u THEN row ELSE users[v]]
    /\ told' = [v \in DOMAIN told \cup {u} |->
                  IF v = u THEN [role |-> row.role, active |-> row.active] ELSE told[v]]

(* Invite: the first password is one to replace.                           *)
Invite == \E role \in Roles : Create(NewUser(role, TRUE))

(* Create of the users section.  An address that is taken, or a field that *)
(* is empty, is refused.                                                   *)
CreateUser(c) ==
  /\ At(c, "create")
  /\ \/ Invite /\ Answer(c, "saved")
     \/ Answer(c, "refused") /\ UNCHANGED <<users, told>>
  /\ UNCHANGED <<cookies, asked, alone>>

(* userAdd: the command line creates a user of either role past every      *)
(* guard, whatever the server is doing.                                    *)
UserAdd ==
  /\ asked < MaxRequests
  /\ asked' = asked + 1
  /\ Invite
  /\ UNCHANGED <<cookies, req, alone>>

Write(u, row, fields, renew) ==
  [step |-> "write", at |-> u, row |-> row, fields |-> fields, renew |-> renew]

\* Mutant: a new password leaves the sessions of the old one.
HoldChangeQuietly(c) ==
  /\ At(c, "change")
  /\ LET u == req[c].at
     IN  Goto(c, Write(u, [users[u] EXCEPT !.expired = FALSE], {"passwd"}, TRUE))
  /\ UNCHANGED <<users, told, cookies, asked, alone>>

(* ChangePassword.                                                         *)
HoldChange(c) ==
  /\ At(c, "change")
  /\ LET u == req[c].at
     IN  \/ Answer(c, "refused")
         \/ Goto(c, Write(u, [users[u] EXCEPT !.expired = FALSE, !.epoch = @ + 1],
                          {"passwd"}, TRUE))
  /\ UNCHANGED <<users, told, cookies, asked, alone>>

(* ResetPassword.                                                          *)
HoldReset(c) ==
  /\ At(c, "reset")
  /\ LET u == req[c].at
     IN  IF ~ByID(u) THEN Answer(c, "missing")
         ELSE Goto(c, Write(u, [users[u] EXCEPT !.expired = TRUE, !.epoch = @ + 1],
                         {"passwd"}, FALSE))
  /\ UNCHANGED <<users, told, cookies, asked, alone>>

\* Mutant: a user may drop their own role.
LocksOutInactive(actor, u, role, active) == actor = u /\ ~active

(* locksOut: the edit takes the section away from the user who makes it.   *)
LocksOut(actor, u, role, active) ==
  actor = u /\ (~active \/ (users[u].role = "root" /\ role # "root"))

(* A deactivation ends the sessions of the user, and nothing else does.    *)
Edited(row, role, active) ==
  [row EXCEPT !.role = role, !.active = active,
              !.epoch = IF row.active /\ ~active THEN @ + 1 ELSE @]

(* Update, with the fields of the form that differ from the row.           *)
HoldEdit(c) ==
  /\ At(c, "edit")
  /\ \/ Answer(c, "refused")
     \/ \E role \in Roles, active, renamed \in BOOLEAN :
          LET u      == req[c].at
              row    == Edited(users[u], role, active)
              fields == {f \in {"role", "active"} : row[f] # users[u][f]}
          IN  IF ~ByID(u) THEN Answer(c, "missing")
              ELSE IF LocksOut(req[c].actor, u, role, active) THEN Answer(c, "lockout")
              ELSE IF fields = {} /\ ~renamed THEN Answer(c, "saved")
              ELSE Goto(c, Write(u, row, fields, FALSE))
  /\ UNCHANGED <<users, told, cookies, asked, alone>>

\* Mutant: the entry of an edit names the flag alone.
TellActive(u, row, fields) ==
  [told EXCEPT ![u].active = IF "active" \in fields THEN row.active ELSE @]

(* One entry for each field that moved.                                    *)
Tell(u, row, fields) ==
  [told EXCEPT ![u].role   = IF "role"   \in fields THEN row.role   ELSE @,
               ![u].active = IF "active" \in fields THEN row.active ELSE @]

(* write: the whole row and its entries, in one transaction.  A change of  *)
(* one's own password answers with a new cookie.                           *)
WriteUser(c) ==
  /\ At(c, "write")
  /\ LET r == req[c]
     IN  /\ users' = Updated(r.at, r.row)
         /\ told' = Tell(r.at, r.row, r.fields)
         /\ IF r.renew
            THEN Goto(c, [step |-> "cookie", principal |-> PrincipalOf(r.at, r.row)])
            ELSE Answer(c, "saved")
  /\ UNCHANGED <<cookies, asked, alone>>

-----------------------------------------------------------------------------
Step(c) ==
  \/ SubmitLogin(c) \/ VerifyLogin(c) \/ Rehash(c) \/ SetSession(c) \/ DropSession(c)
  \/ SendRequest(c) \/ Gate(c)
  \/ CreateUser(c) \/ HoldChange(c) \/ HoldReset(c) \/ HoldEdit(c) \/ WriteUser(c)
  \/ Fail(c)

Next == UserAdd \/ \E c \in Clients : Step(c)

Spec == Init /\ [][Next]_vars
-----------------------------------------------------------------------------
(* Properties.                                                             *)

(* Somebody can open the users section: a root who edits themselves keeps  *)
(* it, and a root who edits another is one.                                *)
RootRemains == ActiveRoots(users) # {}

(* The same, as long as no two requests were open at a time.               *)
RootRemainsAlone == alone => RootRemains

(* As long as no two requests were open at a time, a session that ended    *)
(* stays ended: a reactivated user logs in again, on every device.         *)
EndedStaysEndedAlone ==
  [][alone' => \A c \in DOMAIN cookies \cap DOMAIN cookies' :
       cookies'[c] = cookies[c] /\ ~Resolves(cookies[c], users)
         => ~Resolves(cookies[c], users')]_vars

(* As long as no two requests were open at a time, a write that closes an  *)
(* account or changes its password ends the sessions of every device.      *)
WriteEndsSessionsAlone ==
  [][\A c \in Clients :
       /\ alone' /\ WriteUser(c)
       /\ "passwd" \in req[c].fields \/ ~req[c].row.active
       => \A d \in DOMAIN cookies' :
            cookies'[d].user = req[c].at => ~Resolves(cookies'[d], users')]_vars

(* As long as no two requests were open at a time, the row and the trail   *)
(* agree on the role and on who is active.                                 *)
TrailTellsAlone ==
  alone => \A u \in DOMAIN users :
             told[u] = [role |-> users[u].role, active |-> users[u].active]

(* What ends a session: a write that says so, and for good.                *)
SessionsEndAlone == EndedStaysEndedAlone /\ WriteEndsSessionsAlone

(* The table of users and its trail agree.                                 *)
UsersTold == TypeOK /\ TrailTellsAlone
=============================================================================
