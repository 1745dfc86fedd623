---------------------------- MODULE TemplatesProofs ----------------------------
(***************************************************************************)
(* What holds of the table of templates for every number of requests and   *)
(* templates: there is one default at most, the pickers offer it, and as   *)
(* long as requests come one after the other a save lands and is told.     *)
(***************************************************************************)
EXTENDS Templates, FiniteSetTheorems, TLAPS

(* A request that writes holds a row a form may leave.                     *)
HeldAllowed ==
  \A c \in Clients :
    req[c].step \in {"clear", "write"} => Allowed(req[c].row.default, req[c].row.active)

(* The row of a new template is told in full.                              *)
NewIsTold ==
  \A c \in Clients :
    req[c].step \in {"clear", "write"} /\ req[c].at \notin DOMAIN templates
      => req[c].fields = Flags

(* As long as no two requests were open at a time: one is open at most,    *)
(* the trail tells what the pickers offer, and a request names the fields  *)
(* it moves and has cleared the default it replaces.                       *)
OneAtATime ==
  alone =>
    /\ \A c, d \in Clients : ~At(c, "idle") /\ ~At(d, "idle") => c = d
    /\ \A t \in DOMAIN templates : told[t].active = templates[t].active
    /\ \A c \in Clients :
         /\ At(c, "idle") => req[c].answer # "second"
         /\ req[c].step \in {"clear", "write"} /\ "active" \notin req[c].fields =>
              req[c].row.active = templates[req[c].at].active
         /\ At(c, "write") /\ req[c].row.default =>
              Defaults \subseteq req[c].cleared \cup {req[c].at}

(* The inductive invariant.                                                *)
IInv ==
  /\ TypeOK
  /\ OneTrue(templates)
  /\ DefaultOffered
  /\ HeldAllowed /\ NewIsTold
  /\ OneAtATime

-----------------------------------------------------------------------------
(* A request that opens finds the others idle while requests do not        *)
(* overlap, and touches no row.                                            *)
LEMMA Begins ==
  ASSUME IInv, NEW c \in Clients, NEW next, Begin(c, next), RequestOK(next),
         next.step = "idle" => next.answer # "second",
         next.step \in {"clear", "write"} =>
           /\ Allowed(next.row.default, next.row.active)
           /\ next.fields = Flags,
         next.step = "write" => ~next.row.default
  PROVE  IInv'
<1>1. /\ req' = [req EXCEPT ![c] = next] /\ UNCHANGED <<templates, told>>
      /\ asked < MaxRequests /\ asked' = asked + 1
      /\ alone' = (alone /\ \A d \in Clients : At(d, "idle"))
  BY DEF Begin, Goto
<1>2. /\ DOMAIN req' = Clients /\ req'[c] = next
      /\ \A d \in Clients \ {c} : req'[d] = req[d]
  BY <1>1 DEF IInv, TypeOK
<1>3. asked' \in 0..MaxRequests
  BY <1>1, TemplatesAssumption DEF IInv, TypeOK
<1>4. alone' \in BOOLEAN
  BY <1>1 DEF IInv, TypeOK
<1>5. \A d \in Clients : RequestOK(req'[d])
  BY <1>2 DEF IInv, TypeOK
<1>6. TypeOK'
  BY <1>1, <1>2, <1>3, <1>4, <1>5 DEF IInv, TypeOK
<1>7. HeldAllowed' /\ NewIsTold'
  BY <1>1, <1>2 DEF IInv, HeldAllowed, NewIsTold
<1>8. ASSUME alone' PROVE alone /\ \A d \in Clients : At(d, "idle")
  BY <1>1, <1>8
<1>9. OneAtATime'
  BY <1>1, <1>2, <1>8 DEF IInv, OneAtATime, At, Flags, Defaults
<1> QED BY <1>1, <1>6, <1>7, <1>9 DEF IInv, DefaultOffered, Defaults

(* A request that goes on and writes nothing.                              *)
LEMMA GoesOn ==
  ASSUME IInv, NEW c \in Clients, ~At(c, "idle"), NEW next, req' = [req EXCEPT ![c] = next],
         UNCHANGED <<templates, told, asked, alone>>, RequestOK(next),
         next.step = "idle" => next.answer # "second",
         next.step \in {"clear", "write"} =>
           /\ Allowed(next.row.default, next.row.active)
           /\ next.at \in DOMAIN templates \/ next.fields = Flags
           /\ alone /\ "active" \notin next.fields =>
                next.row.active = templates[next.at].active,
         next.step = "write" /\ next.row.default => Defaults \subseteq next.cleared \cup {next.at}
  PROVE  IInv'
<1>1. /\ DOMAIN req' = Clients /\ req'[c] = next
      /\ \A d \in Clients \ {c} : req'[d] = req[d]
  BY DEF IInv, TypeOK
<1>2. TypeOK'
  BY <1>1 DEF IInv, TypeOK
<1>3. HeldAllowed' /\ NewIsTold'
  BY <1>1 DEF IInv, HeldAllowed, NewIsTold
<1>4. OneAtATime'
  BY <1>1 DEF IInv, OneAtATime, At, Defaults
<1> QED BY <1>2, <1>3, <1>4 DEF IInv, DefaultOffered, Defaults

(* A commit: the partial index has passed the rows, a row that is cleared  *)
(* or written leaves an offered default, and nobody else holds a row while *)
(* requests do not overlap.                                                *)
LEMMA Writes ==
  ASSUME IInv, NEW c \in Clients, WriteTemplate(c)
  PROVE  IInv'
<1> DEFINE r == req[c]
           held == [t \in DOMAIN templates \cup {r.at} |->
                      IF t = r.at THEN r.row
                      ELSE IF t \in r.cleared THEN [templates[t] EXCEPT !.default = FALSE]
                      ELSE templates[t]]
           say == [t \in DOMAIN held |->
                     IF t # r.at THEN told[t]
                     ELSE [default |-> IF "default" \in r.fields THEN r.row.default
                                                                ELSE told[t].default,
                           active  |-> IF "active" \in r.fields THEN r.row.active
                                                               ELSE told[t].active]]
<1>1. /\ r.step = "write" /\ r.at \in TemplateIDs /\ r.row \in Row
      /\ r.fields \subseteq Flags /\ Allowed(r.row.default, r.row.active)
  BY DEF WriteTemplate, At, IInv, TypeOK, RequestOK, HeldAllowed
<1>2. /\ \A t \in DOMAIN templates : templates[t] \in Row
      /\ DOMAIN told = DOMAIN templates /\ \A t \in DOMAIN told : told[t] \in Row
      /\ DOMAIN templates \subseteq TemplateIDs
  BY DEF IInv, TypeOK
<1>3. \A t \in DOMAIN held : /\ held[t] \in Row
                             /\ held[t].default => held[t].active
                             /\ t # r.at => held[t].active = templates[t].active
                             /\ t # r.at /\ held[t].default
                                  => templates[t].default /\ t \notin r.cleared
  <2> TAKE t \in DOMAIN held
  <2>1. CASE t = r.at
    BY <2>1, <1>1 DEF Allowed
  <2>2. CASE t # r.at
    BY <2>2, <1>2 DEF Row, IInv, DefaultOffered, Defaults
  <2> QED BY <2>1, <2>2
<1>4. CASE OneTrue(held)
  <2>1. /\ templates' = held /\ told' = say
        /\ req' = [req EXCEPT ![c] = [step |-> "idle", answer |-> "saved"]]
        /\ UNCHANGED <<asked, alone>>
    BY <1>4 DEF WriteTemplate, Written, Answer, Goto
  <2>2. /\ DOMAIN req' = Clients /\ req'[c] = [step |-> "idle", answer |-> "saved"]
        /\ \A d \in Clients \ {c} : req'[d] = req[d]
    BY <2>1 DEF IInv, TypeOK
  <2>3. RequestOK([step |-> "idle", answer |-> "saved"])
    BY DEF RequestOK, Answers
  <2>4. \A t \in DOMAIN say : say[t] \in Row
    <3> TAKE t \in DOMAIN say
    <3>1. CASE t # r.at
      BY <3>1, <1>2
    <3>2. CASE t = r.at
      <4>1. t \notin DOMAIN templates => r.fields = Flags
        BY <1>1, <3>2 DEF IInv, NewIsTold
      <4>2. r.fields # Flags => told[t] \in Row
        BY <1>2, <3>2, <4>1
      <4> QED BY <3>2, <4>2, <1>1 DEF Row, Flags
    <3> QED BY <3>1, <3>2
  <2>5. TypeOK'
    BY <1>1, <1>2, <1>3, <2>1, <2>2, <2>3, <2>4 DEF IInv, TypeOK
  <2>6. HeldAllowed' /\ NewIsTold'
    BY <2>1, <2>2 DEF IInv, HeldAllowed, NewIsTold
  <2>7. DefaultOffered'
    BY <1>3, <2>1 DEF DefaultOffered, Defaults
  <2>8. OneAtATime'
    <3> SUFFICES ASSUME alone PROVE OneAtATime'
      BY <2>1 DEF OneAtATime
    <3>1. \A d \in Clients : req'[d].step = "idle" /\ req'[d].answer # "second"
      BY <2>2, <1>1 DEF IInv, OneAtATime, At
    <3>2. \A t \in DOMAIN templates' : told'[t].active = templates'[t].active
      <4> TAKE t \in DOMAIN templates'
      <4>1. CASE t # r.at
        BY <4>1, <1>3, <2>1 DEF IInv, OneAtATime
      <4>2. CASE t = r.at
        BY <4>2, <1>1, <2>1 DEF IInv, OneAtATime, NewIsTold, Flags
      <4> QED BY <4>1, <4>2
    <3> QED BY <3>1, <3>2 DEF OneAtATime, At
  <2> QED BY <1>4, <2>1, <2>5, <2>6, <2>7, <2>8 DEF IInv
<1>5. CASE ~OneTrue(held)
  <2>1. UNCHANGED <<templates, told, asked, alone>>
        /\ req' = [req EXCEPT ![c] = [step |-> "idle", answer |-> "second"]]
    BY <1>5 DEF WriteTemplate, Written, Answer, Goto
  <2>2. /\ DOMAIN req' = Clients /\ req'[c] = [step |-> "idle", answer |-> "second"]
        /\ \A d \in Clients \ {c} : req'[d] = req[d]
    BY <2>1 DEF IInv, TypeOK
  <2>3. RequestOK([step |-> "idle", answer |-> "second"])
    BY DEF RequestOK, Answers
  <2>4. ~alone
    <3> SUFFICES ASSUME alone PROVE OneTrue(held)
      BY <1>5
    <3>1. r.row.default => Defaults \subseteq r.cleared \cup {r.at}
      BY <1>1 DEF IInv, OneAtATime, At
    <3>2. CASE r.row.default
      BY <3>1, <3>2, <1>3 DEF OneTrue, Defaults
    <3>3. CASE ~r.row.default
      BY <3>3, <1>3 DEF OneTrue, IInv
    <3> QED BY <3>2, <3>3
  <2>5. TypeOK'
    BY <2>1, <2>2, <2>3 DEF IInv, TypeOK
  <2>6. HeldAllowed' /\ NewIsTold'
    BY <2>1, <2>2 DEF IInv, HeldAllowed, NewIsTold
  <2> QED BY <2>1, <2>4, <2>5, <2>6 DEF IInv, OneAtATime, DefaultOffered, Defaults
<1> QED BY <1>4, <1>5

(* The invariant is inductive.                                             *)
LEMMA Inductive ==
  ASSUME IInv, [Next]_vars
  PROVE  IInv'
<1>1. CASE UNCHANGED vars
  BY <1>1 DEF vars, IInv, TypeOK, OneTrue, DefaultOffered, Defaults, HeldAllowed, NewIsTold, OneAtATime, At
<1>2. ASSUME NEW c \in Clients, Fail(c) PROVE IInv'
  BY <1>2, GoesOn DEF Fail, Answer, Goto, RequestOK, Answers
<1>3. ASSUME NEW c \in Clients, CreateTemplate(c) PROVE IInv'
  <2>1. PICK t \in Fresh, default \in BOOLEAN :
          Begin(c, [step |-> IF default THEN "clear" ELSE "write", at |-> t,
                    row |-> [default |-> default, active |-> TRUE],
                    fields |-> Flags, cleared |-> {}])
    BY <1>3 DEF CreateTemplate
  <2> DEFINE next == [step |-> IF default THEN "clear" ELSE "write", at |-> t,
                      row |-> [default |-> default, active |-> TRUE],
                      fields |-> Flags, cleared |-> {}]
  <2>2. RequestOK(next)
    BY DEF RequestOK, Row, Fresh
  <2>3. next.step \in {"clear", "write"} /\ next.fields = Flags
        /\ Allowed(next.row.default, next.row.active)
        /\ (next.step = "write" => ~next.row.default)
    BY DEF Allowed
  <2> HIDE DEF next
  <2> QED BY <2>1, <2>2, <2>3, Begins DEF next
<1>4. ASSUME NEW c \in Clients, UpdateTemplate(c) PROVE IInv'
  <2>1. ASSUME NEW t \in TemplateIDs, Begin(c, [step |-> "find", at |-> t]) PROVE IInv'
    BY <2>1, Begins DEF RequestOK
  <2>2. ASSUME Begin(c, [step |-> "idle", answer |-> "refused"]) PROVE IInv'
    BY <2>2, Begins DEF RequestOK, Answers
  <2> QED BY <1>4, <2>1, <2>2 DEF UpdateTemplate
<1>5. ASSUME NEW c \in Clients, FindTemplate(c) PROVE IInv'
  <2> DEFINE t == req[c].at
  <2>1. PICK default \in BOOLEAN, active \in BOOLEAN, renamed \in BOOLEAN :
          LET row    == [default |-> default, active |-> active]
              fields == {f \in Flags : row[f] # templates[t][f]}
          IN  /\ Allowed(default, active)
              /\ IF t \notin DOMAIN templates THEN Answer(c, "missing")
                 ELSE IF fields = {} /\ ~renamed THEN Answer(c, "saved")
                 ELSE Goto(c, [step |-> IF default THEN "clear" ELSE "write", at |-> t,
                               row |-> row, fields |-> fields, cleared |-> {}])
    BY <1>5 DEF FindTemplate
  <2> DEFINE row == [default |-> default, active |-> active]
             fields == {f \in Flags : row[f] # templates[t][f]}
             next == [step |-> IF default THEN "clear" ELSE "write", at |-> t,
                      row |-> row, fields |-> fields, cleared |-> {}]
  <2>2. ~At(c, "idle") /\ UNCHANGED <<templates, told, asked, alone>> /\ t \in TemplateIDs
    BY <1>5 DEF FindTemplate, At, IInv, TypeOK, RequestOK
  <2>3. ASSUME NEW answer \in {"missing", "saved"}, Answer(c, answer) PROVE IInv'
    BY <2>2, <2>3, GoesOn DEF Answer, Goto, RequestOK, Answers
  <2>4. ASSUME t \in DOMAIN templates, Goto(c, next) PROVE IInv'
    <3>1. RequestOK(next)
      BY <2>2 DEF RequestOK, Row
    <3>2. Allowed(next.row.default, next.row.active) /\ next.step \in {"clear", "write"}
          /\ (next.step = "write" => ~next.row.default)
      BY <2>1
    <3>3. "active" \notin next.fields => next.row.active = templates[next.at].active
      BY DEF Flags
    <3>4. next.at \in DOMAIN templates /\ req' = [req EXCEPT ![c] = next]
      BY <2>4 DEF Goto
    <3> HIDE DEF next
    <3> QED BY <2>2, <3>1, <3>2, <3>3, <3>4, GoesOn
  <2> QED BY <2>1, <2>3, <2>4
<1>6. ASSUME NEW c \in Clients, ClearDefault(c) PROVE IInv'
  <2> DEFINE next == [req[c] EXCEPT !.step = "write", !.cleared = Defaults \ {req[c].at}]
  <2>1. At(c, "clear") /\ req' = [req EXCEPT ![c] = next]
        /\ UNCHANGED <<templates, told, asked, alone>>
    BY <1>6 DEF ClearDefault, Goto
  <2>2. req[c] \in [step : {"clear", "write"}, at : TemplateIDs, row : Row,
                   fields : SUBSET Flags, cleared : SUBSET TemplateIDs]
    BY <2>1 DEF At, IInv, TypeOK, RequestOK
  <2>3. next.step = "write" /\ next.cleared = Defaults \ {req[c].at} /\ next.at = req[c].at
        /\ next.row = req[c].row /\ next.fields = req[c].fields
    BY <2>2
  <2>4. Defaults \subseteq TemplateIDs
    BY DEF IInv, TypeOK, Defaults
  <2>5. RequestOK(next)
    BY <2>2, <2>4 DEF RequestOK
  <2>6. ~At(c, "idle") /\ req[c].step = "clear"
    BY <2>1 DEF At
  <2>7. /\ Allowed(next.row.default, next.row.active)
        /\ next.at \in DOMAIN templates \/ next.fields = Flags
    BY <2>3, <2>6 DEF IInv, HeldAllowed, NewIsTold
  <2>8. alone /\ "active" \notin next.fields => next.row.active = templates[next.at].active
    BY <2>3, <2>6 DEF IInv, OneAtATime
  <2>9. Defaults \subseteq next.cleared \cup {next.at}
    BY <2>3
  <2> HIDE DEF next
  <2> QED BY <2>1, <2>3, <2>5, <2>6, <2>7, <2>8, <2>9, GoesOn
<1> QED BY <1>1, <1>2, <1>3, <1>4, <1>5, <1>6, Writes DEF Next, Step

(* There are no templates, and nobody asks for anything.                   *)
LEMMA Initial == Init => IInv
BY TemplatesAssumption DEF Init, IInv, TypeOK, RequestOK, Answers, OneTrue, DefaultOffered,
   Defaults, HeldAllowed, NewIsTold, OneAtATime, At

-----------------------------------------------------------------------------
(* The theorems.                                                           *)

(* The invariant holds of every behaviour.                                 *)
THEOREM Invariance == Spec => []IInv
<1>1. IInv /\ [Next]_vars => IInv'
  BY Inductive
<1> QED BY <1>1, Initial, PTL DEF Spec

(* A new model starts with one template at most, and it is one the pickers *)
(* offer (CreateTemplate and UpdateTemplate, milestones/templates.go).     *)
THEOREM OneIsDefault == Spec => []DefaultStands
<1>1. IInv => DefaultStands
  <2> SUFFICES ASSUME IInv PROVE DefaultStands
    OBVIOUS
  <2>1. CASE Defaults = {}
    BY <2>1, FS_EmptySet DEF OneDefault, IInv, DefaultStands
  <2>2. CASE Defaults # {}
    <3>1. PICK t \in Defaults : TRUE
      BY <2>2
    <3>2. Defaults = {t}
      BY <3>1 DEF IInv, OneTrue, Defaults
    <3>3. Cardinality({t}) = 1
      BY FS_Singleton
    <3> QED BY <3>2, <3>3 DEF OneDefault, IInv, DefaultStands
  <2> QED BY <2>1, <2>2
<1> QED BY <1>1, Invariance, PTL

(* Requests one after the other: naming another default lands, and the     *)
(* trail tells which templates the pickers offer.                          *)
THEOREM SavesLand == Spec => []SavesLandAlone
<1>1. IInv => SavesLandAlone
  BY DEF IInv, OneAtATime, SavesLandAlone, DefaultLandsAlone, ActiveToldAlone
<1> QED BY <1>1, Invariance, PTL
=============================================================================
