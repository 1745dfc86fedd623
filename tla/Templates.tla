------------------------------ MODULE Templates ------------------------------
(***************************************************************************)
(* The table milestone_template: which templates there are, which of them  *)
(* the pickers offer, and which one a new model starts with                *)
(* (CreateTemplate and UpdateTemplate of internal/milestones).  Steps are  *)
(* those of TemplateItems.  A name, unique in its table, and a description *)
(* are written with the flags and left out; that an edit moved them is     *)
(* kept, because an edit that moves nothing writes nothing.                *)
(***************************************************************************)
EXTENDS Integers, FiniteSets

CONSTANTS
  Clients,      \* the requests the server runs at a time
  TemplateIDs,  \* the identifiers of templates
  MaxRequests   \* bound: how many requests there are in a behaviour

ASSUME TemplatesAssumption == MaxRequests \in Nat

VARIABLES
  templates,    \* the rows, by identifier
  told,         \* the flags of every row, as the entries of the trail leave them
  req,          \* where each client stands in its request
  asked,        \* how many requests were made (bounded by MaxRequests)
  alone         \* history: no two requests were open at a time so far

vars == <<templates, told, req, asked, alone>>

-----------------------------------------------------------------------------
Row == [default : BOOLEAN, active : BOOLEAN]

Flags == {"default", "active"}

Answers == {"none", "saved", "refused", "missing", "failed", "second"}

RequestOK(r) ==
  r \in [step : {"idle"}, answer : Answers] \cup [step : {"find"}, at : TemplateIDs]
       \cup [step : {"clear", "write"}, at : TemplateIDs, row : Row,
             fields : SUBSET Flags, cleared : SUBSET TemplateIDs]

(* Every type of the variables.                                            *)
TypeOK ==
  /\ DOMAIN templates \subseteq TemplateIDs
  /\ \A t \in DOMAIN templates : templates[t] \in Row
  /\ DOMAIN told = DOMAIN templates
  /\ \A t \in DOMAIN told : told[t] \in Row
  /\ DOMAIN req = Clients
  /\ \A c \in Clients : RequestOK(req[c])
  /\ asked \in 0..MaxRequests
  /\ alone \in BOOLEAN

Init ==
  /\ templates = [t \in {} |-> 0]
  /\ told = [t \in {} |-> 0]
  /\ req = [c \in Clients |-> [step |-> "idle", answer |-> "none"]]
  /\ asked = 0
  /\ alone = TRUE

-----------------------------------------------------------------------------
At(c, step) == req[c].step = step

Goto(c, next) == req' = [req EXCEPT ![c] = next]

Answer(c, answer) == Goto(c, [step |-> "idle", answer |-> answer])

Begin(c, next) ==
  /\ At(c, "idle") /\ asked < MaxRequests
  /\ asked' = asked + 1
  /\ alone' = (alone /\ \A d \in Clients : At(d, "idle"))
  /\ Goto(c, next)
  /\ UNCHANGED <<templates, told>>

(* A statement or the commit fails, or the server goes away.               *)
Fail(c) ==
  /\ ~At(c, "idle")
  /\ Answer(c, "failed")
  /\ UNCHANGED <<templates, told, asked, alone>>

Defaults == {t \in DOMAIN templates : templates[t].default}

(* An identifier no row holds and no other request took: ids.New.          *)
Fresh == TemplateIDs \ (DOMAIN templates \cup
           {req[c].at : c \in {d \in Clients : req[d].step \in {"clear", "write"}}})

(* A new template is active.                                               *)
CreateTemplate(c) ==
  \E t \in Fresh, default \in BOOLEAN :
    Begin(c, [step |-> IF default THEN "clear" ELSE "write", at |-> t,
              row |-> [default |-> default, active |-> TRUE],
              fields |-> Flags, cleared |-> {}])

\* Mutant: a template that leaves the pickers may be the default.
AllowedAnyway(default, active) == TRUE

(* A template that leaves the pickers is not the one a model starts with.  *)
Allowed(default, active) == default => active

UpdateTemplate(c) ==
  \/ \E t \in TemplateIDs : Begin(c, [step |-> "find", at |-> t])
  \/ Begin(c, [step |-> "idle", answer |-> "refused"])

(* ByID, with no transaction open, and the fields of the form that differ. *)
FindTemplate(c) ==
  /\ At(c, "find")
  /\ \E default, active, renamed \in BOOLEAN :
       LET t      == req[c].at
           row    == [default |-> default, active |-> active]
           fields == {f \in Flags : row[f] # templates[t][f]}
       IN  /\ Allowed(default, active)
           /\ IF t \notin DOMAIN templates THEN Answer(c, "missing")
              ELSE IF fields = {} /\ ~renamed THEN Answer(c, "saved")
              ELSE Goto(c, [step |-> IF default THEN "clear" ELSE "write", at |-> t,
                            row |-> row, fields |-> fields, cleared |-> {}])
  /\ UNCHANGED <<templates, told, asked, alone>>

(* ClearDefault is one UPDATE: it finds its rows as they were committed    *)
(* when it started, and writes them once nobody else does.                 *)
ClearDefault(c) ==
  /\ At(c, "clear")
  /\ Goto(c, [req[c] EXCEPT !.step = "write", !.cleared = Defaults \ {req[c].at}])
  /\ UNCHANGED <<templates, told, asked, alone>>

(* The partial unique index on is_default.                                 *)
OneTrue(held) == \A s, t \in DOMAIN held : held[s].default /\ held[t].default => s = t

\* Mutant: the statement of Update leaves the active column out.
WrittenActive(held, t, row) ==
  IF t \in DOMAIN held THEN [row EXCEPT !.active = held[t].active] ELSE row

(* Create and Update write every field of the row.                         *)
Written(held, t, row) == row

(* The rest of the transaction: the cleared rows, the row itself and one   *)
(* entry for each of its fields.  What ClearDefault wrote has no entry.    *)
WriteTemplate(c) ==
  /\ At(c, "write")
  /\ LET r    == req[c]
         held == [t \in DOMAIN templates \cup {r.at} |->
                    IF t = r.at THEN Written(templates, t, r.row)
                    ELSE IF t \in r.cleared THEN [templates[t] EXCEPT !.default = FALSE]
                    ELSE templates[t]]
     IN  \/ /\ OneTrue(held)
            /\ templates' = held
            /\ told' = [t \in DOMAIN held |->
                          IF t # r.at THEN told[t]
                          ELSE [default |-> IF "default" \in r.fields THEN r.row.default
                                                                     ELSE told[t].default,
                                active  |-> IF "active" \in r.fields THEN r.row.active
                                                                    ELSE told[t].active]]
            /\ Answer(c, "saved")
         \/ /\ ~OneTrue(held)
            /\ Answer(c, "second")
            /\ UNCHANGED <<templates, told>>
  /\ UNCHANGED <<asked, alone>>

Step(c) ==
  \/ CreateTemplate(c) \/ UpdateTemplate(c) \/ FindTemplate(c)
  \/ ClearDefault(c) \/ WriteTemplate(c)
  \/ Fail(c)

Next == \E c \in Clients : Step(c)

Spec == Init /\ [][Next]_vars
-----------------------------------------------------------------------------
(* Properties.                                                             *)

(* At most one template is the one a new model starts with, although two   *)
(* requests may each clear a default the other one has yet to name.        *)
OneDefault == Cardinality(Defaults) <= 1

(* The default is a template the pickers offer, although the two flags of  *)
(* a row are written from what a form showed.                              *)
DefaultOffered == \A t \in Defaults : templates[t].active

(* As long as no two requests were open at a time, naming another default  *)
(* ends the one before it: no request is refused by the index.             *)
DefaultLandsAlone ==
  alone => \A c \in Clients : At(c, "idle") => req[c].answer # "second"

(* As long as no two requests were open at a time, what the trail last     *)
(* said of the active flag is what the row holds.                          *)
ActiveToldAlone ==
  alone => \A t \in DOMAIN templates : told[t].active = templates[t].active

(* There is one default at most, and it is offered.                        *)
DefaultStands == TypeOK /\ OneDefault /\ DefaultOffered

(* A template that is saved is saved as asked, and told as saved.          *)
SavesLandAlone == DefaultLandsAlone /\ ActiveToldAlone
=============================================================================
