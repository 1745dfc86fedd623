--------------------------------- MODULE Forms ---------------------------------
(***************************************************************************)
(* The forms of the screens: the boxes a request posts (http/shared/       *)
(* form.go), what the services refuse of them (platform/validate), and the *)
(* answer a handler gives.                                                 *)
(*                                                                         *)
(* A box is Blank, Garbled, or the value its text reads as.  A text is how *)
(* many characters are left of it without the blanks around it, a date is  *)
(* a number, and an identifier a name.  What a service finds in the tables *)
(* is one word: everything is fine, or a sentinel error, or broken.  What  *)
(* a refused screen reads beside the form is left out.                     *)
(***************************************************************************)
EXTENDS Integers, SequencesExt

CONSTANTS
  Blank,     \* an empty box
  Garbled    \* a text that does not parse

MaxNameLen == 30
MaxDescriptionLen == 200
MaxNoteLen == 500
MaxOffset == 0
MinOffset == -3650

NoDay == 0         \* the zero time, which the text of a box may name too
NoID  == "nil"

-----------------------------------------------------------------------------
(* Errors: none, the rejections of fields, or a sentinel.                  *)

Nil == [is |-> "nil", fields |-> <<>>]

FieldErrors(fields) == [is |-> "fields", fields |-> fields]

Sentinel(what) == IF what = "fine" THEN Nil ELSE [is |-> what, fields |-> <<>>]

(* Fail: one field, one code.                                              *)
Fail(field, code) == FieldErrors(<<[field |-> field, code |-> code]>>)

(* A second call is made where the first returned no error.                *)
OrElse(first, second) == IF first = Nil THEN second ELSE first

(* errors.Join: From finds the first of the two that holds field errors.   *)
Join(a, b) == OrElse(a, b)

(* A sentinel of a service, as a rejection of the field it is about.       *)
Coded(err, what, field, code) == IF err.is = what THEN Fail(field, code) ELSE err

(* Validator.Add: the first rejection of a field is the one it keeps.      *)
Add(fields, e) ==
  IF \E i \in DOMAIN fields : fields[i].field = e.field THEN fields ELSE Append(fields, e)

(* Validator.Merge, of everything that was collected.                      *)
Merged(collected) == FoldLeft(Add, <<>>, FlattenSeq(collected))

Check(ok, field, code) == IF ok THEN <<>> ELSE <<[field |-> field, code |-> code]>>

Required(field, text) == Check(text > 0, field, "required")

MaxLen(field, text, limit) == Check(text <= limit, field, "too_long")

(* Validator.Err, of the checks in their order.                            *)
Validated(checks) ==
  IF Merged(checks) = <<>> THEN Nil ELSE FieldErrors(Merged(checks))

(* Rejections: what all the errors say, or that one of them is no          *)
(* rejection of the input.                                                 *)
Rejections(errs) ==
  LET given == SelectSeq(errs, LAMBDA e : e # Nil)
  IN  IF \E i \in DOMAIN given : given[i].is # "fields"
      THEN [ok |-> FALSE, fields |-> <<>>]
      ELSE [ok |-> TRUE, fields |-> Merged([i \in DOMAIN given |-> given[i].fields])]

-----------------------------------------------------------------------------
(* Boxes.                                                                  *)

Read(box, zero, field, code) ==
  [value |-> IF box \in {Blank, Garbled} THEN zero ELSE box,
   given |-> box \notin {Blank, Garbled},
   err   |-> IF box = Garbled THEN Fail(field, code) ELSE Nil]

PostedDay(box, field) == Read(box, NoDay, field, "not_a_date")

PostedNumber(box, field) == Read(box, 0, field, "not_a_number")

PostedID(box, field) == Read(box, NoID, field, "not_allowed")

(* ParsedID: what the user did not type is dropped without a word.         *)
ParsedID(box) == Read(box, NoID, "", "").value

(* FlagOf: anything but the two names of a flag filters nothing.           *)
FlagOf(box) == IF box \in {TRUE, FALSE} THEN {box} ELSE {}

(* PostedOrder: an identifier that does not parse refuses the whole list.  *)
PostedOrder(boxes) ==
  IF \E i \in DOMAIN boxes : boxes[i] \in {Blank, Garbled} THEN Sentinel("stale") ELSE Nil

-----------------------------------------------------------------------------
(* What the services refuse before they read a row.                        *)

\* Mutant: the start date of a season may be left out.
CheckSeasonName(name, start) == Validated(<<Required("name", name)>>)

CheckSeason(name, start) ==
  Validated(<<Required("name", name), Check(start # NoDay, "start_date", "required")>>)

CheckNewDrop(name, season, target) ==
  Validated(<<Required("name", name), Check(season # NoID, "season_id", "required"),
              Check(target # NoDay, "target_date", "required")>>)

CheckDrop(name, target) ==
  Validated(<<Required("name", name), Check(target # NoDay, "target_date", "required")>>)

CheckNewModel(article, drop) ==
  Validated(<<Required("article", article), Check(drop # NoID, "drop_id", "required")>>)

CheckModel(article) == Validated(<<Required("article", article)>>)

(* checkNaming, of a type and of a template.                               *)
CheckNaming(name, description) ==
  <<Required("name", name), MaxLen("name", name, MaxNameLen),
    Required("description", description),
    MaxLen("description", description, MaxDescriptionLen)>>

CheckTemplate(name, description, default, active) ==
  Validated(CheckNaming(name, description) \o <<Check(default => active, "default", "not_allowed")>>)

CheckOffset(field, offset) ==
  Validated(<<Check(offset <= MaxOffset, field, "too_big"),
              Check(offset >= MinOffset, field, "too_small")>>)

CheckEdit(fact, note, today) ==
  Validated(<<Check(fact = NoDay \/ fact <= today, "fact_date", "not_allowed"),
              MaxLen("note", note, MaxNoteLen)>>)

(* NewUser.user, whose generated password is never refused, and Update.    *)
CheckUser(first, last, role) ==
  <<Required("first_name", first), Required("last_name", last),
    Check(role \in {"member", "root"}, "role", "not_allowed")>>

CheckNewUser(email, first, last, role) ==
  Validated(<<Required("email", email)>> \o CheckUser(first, last, role))

(* SubmitChangePassword, and then ChangePassword of the service.           *)
CheckChange(current, next, repeat) ==
  Validated(<<Required("current_passwd", current), Required("new_passwd", next),
              Required("repeat_passwd", repeat),
              Check(next = repeat, "repeat_passwd", "mismatch")>>)

-----------------------------------------------------------------------------
(* Answers: the status, the rejections shown, and what was committed.      *)

Saved(wrote)   == [status |-> 303, errors |-> <<>>, wrote |-> wrote]
Refused(errs)  == [status |-> 422, errors |-> errs, wrote |-> {}]
NotFound       == [status |-> 404, errors |-> <<>>, wrote |-> {}]
ServerError    == [status |-> 500, errors |-> <<>>, wrote |-> {}]

(* What the service wrote stays written, whatever the screen answers.      *)
Wrote(answer, rows) == [answer EXCEPT !.wrote = rows]

(* The end of a handler: saved, or the screen with every rejection on it,  *)
(* or a failure.                                                           *)
Answered(readings, err) ==
  LET rejected == Rejections(Append(readings, err))
      answer   == IF \A e \in ToSet(readings) \cup {err} : e = Nil THEN Saved({})
                  ELSE IF rejected.ok THEN Refused(rejected.fields)
                  ELSE ServerError
  IN  Wrote(answer, IF err = Nil THEN {"row"} ELSE {})

(* loadOne, loadType, loadTemplate: the row the path names.                *)
Loaded(path, answer) ==
  CASE path = "there" -> answer
    [] path \in {"unreadable", "missing"} -> NotFound
    [] OTHER -> ServerError

(* Create and Save of a season call the service whatever the date reads    *)
(* as: the zero date is what the service refuses.                          *)
SeasonForm(form, found) ==
  LET start == PostedDay(form.start_date, "start_date")
      err   == OrElse(CheckSeason(form.name, start.value), Sentinel(found))
  IN  Answered(<<start.err>>, Coded(err, "taken", "name", "taken"))

NewDrop(form, found) ==
  LET season == PostedID(form.season_id, "season_id")
      target == PostedDay(form.target_date, "target_date")
      err    == OrElse(CheckNewDrop(form.name, season.value, target.value), Sentinel(found))
  IN  Answered(<<season.err, target.err>>,
               Coded(Coded(err, "taken", "name", "taken"), "gone", "season_id", "not_allowed"))

DropForm(form, found) ==
  LET target == PostedDay(form.target_date, "target_date")
      err    == OrElse(CheckDrop(form.name, target.value), Sentinel(found))
  IN  Answered(<<target.err>>, Coded(err, "taken", "name", "taken"))

(* startCalendar, of a model that is written already: a path that somebody *)
(* retired since leaves the calendar empty.                                *)
StartCalendar(template, applied) ==
  IF template = NoID \/ applied = "retired" THEN Saved({"row"})
  ELSE IF applied = "fine" THEN Saved({"row", "calendar"})
  ELSE Wrote(ServerError, {"row"})

(* Create of models, among the templates the screen offers.                *)
NewModel(form, offered, found, applied) ==
  LET drop     == PostedID(form.drop_id, "drop_id")
      template == PostedID(form.template, "template")
      chosen   == OrElse(template.err,
                         IF template.value \in offered \cup {NoID} THEN Nil
                         ELSE Fail("template", "not_allowed"))
      err      == OrElse(OrElse(Join(drop.err, chosen), CheckNewModel(form.article, drop.value)),
                         Sentinel(found))
  IN  IF err = Nil THEN StartCalendar(template.value, applied)
      ELSE Answered(<<drop.err, chosen>>, Coded(err, "gone", "drop_id", "not_allowed"))

ModelForm(form, found) ==
  Answered(<<>>, OrElse(CheckModel(form.article), Sentinel(found)))

TypeForm(form, found) ==
  LET err == OrElse(Validated(CheckNaming(form.name, form.description)), Sentinel(found))
  IN  Answered(<<>>, Coded(err, "taken", "name", "taken"))

(* CreateTemplate, whose template is active whatever the box says, and     *)
(* SaveTemplate.                                                           *)
TemplateForm(form, found) ==
  LET err == OrElse(CheckTemplate(form.name, form.description, form.default, form.active),
                    Sentinel(found))
  IN  Answered(<<>>, Coded(err, "taken", "name", "taken"))

(* AddItem: an empty offset is the target day itself.                      *)
AddItem(form, found) ==
  LET type   == PostedID(form.type, "type")
      offset == PostedNumber(form.offset, "offset")
      added  == OrElse(CheckOffset("offset", offset.value),
                       IF type.value = NoID THEN Fail("type", "not_allowed") ELSE Sentinel(found))
      err    == OrElse(Join(type.err, offset.err), Coded(added, "gone", "type", "not_allowed"))
  IN  Answered(<<type.err, offset.err>>, Coded(err, "taken", "type", "taken"))

(* moveItem of the handler: the column that differs from what is held.     *)
MovedColumn(offset, gap, held) ==
  IF offset.given /\ offset.value # held.offset THEN CheckOffset("offset", offset.value)
  ELSE IF gap.given /\ held.above # {} /\ gap.value # held.gap
  THEN CheckOffset("gap", (CHOOSE a \in held.above : TRUE) + gap.value)
  ELSE Nil

(* SaveItem.                                                               *)
SaveItem(form, held, found) ==
  LET offset == PostedNumber(form.offset, "offset")
      gap    == PostedNumber(form.gap, "gap")
      moved  == OrElse(Sentinel(found), MovedColumn(offset, gap, held))
      err    == OrElse(Join(offset.err, gap.err), moved)
  IN  IF err.is = "gone" THEN NotFound ELSE Answered(<<>>, err)

(* ReorderItems and ReorderPhotos: a stale order brings the screen back.   *)
OrderForm(boxes, found) ==
  LET err == OrElse(PostedOrder(boxes), Sentinel(found))
  IN  IF err.is = "stale" THEN Refused(<<>>) ELSE Answered(<<>>, err)

(* ApplyTemplate: a template that is gone reads as one that is retired.    *)
ApplyTemplate(form, found) ==
  LET template == PostedID(form.template, "template")
      err == OrElse(template.err, IF template.value = NoID THEN Fail("template", "required")
                                  ELSE Coded(Sentinel(found), "gone", "template", "not_allowed"))
  IN  Answered(<<>>, err)

AddMilestone(form, found) ==
  LET type  == PostedID(form.type, "type")
      plan  == PostedDay(form.plan_date, "plan_date")
      added == IF plan.value = NoDay THEN Fail("plan_date", "required")
               ELSE IF type.value = NoID THEN Fail("type", "not_allowed") ELSE Sentinel(found)
      err   == OrElse(Join(type.err, plan.err), Coded(added, "gone", "type", "not_allowed"))
  IN  Answered(<<type.err, plan.err>>, Coded(err, "taken", "type", "taken"))

(* pressed: the button of a row speaks over its boxes.                     *)
Fact(form, today) == IF form.action = "fact" THEN today ELSE PostedDay(form.fact_date, "").value

(* SaveMilestone: the plan moves in a write of its own, and stays moved    *)
(* when the edit that follows is refused or fails.                         *)
SaveMilestone(form, today, found) ==
  LET plan   == PostedDay(form.plan_date, "plan_date")
      fact   == PostedDay(form.fact_date, "fact_date")
      read   == Join(plan.err, fact.err)
      moves  == read = Nil /\ plan.value # NoDay
      moved  == IF moves THEN Sentinel(found.move) ELSE read
      err    == OrElse(moved, OrElse(CheckEdit(Fact(form, today), form.note, today),
                                     Sentinel(found.edit)))
      answer == IF err.is = "gone" THEN NotFound ELSE Answered(<<plan.err, fact.err>>, err)
  IN  Wrote(answer, answer.wrote \cup (IF moves /\ moved = Nil THEN {"plan"} ELSE {}))

(* Create and Save of users; a lockout is an alert of the screen.          *)
NewUser(form, found) ==
  LET err == OrElse(CheckNewUser(form.email, form.first_name, form.last_name, form.role),
                    Sentinel(found))
  IN  Answered(<<>>, Coded(err, "taken", "email", "taken"))

UserForm(form, found) ==
  LET err == OrElse(Validated(CheckUser(form.first_name, form.last_name, form.role)),
                    Sentinel(found))
  IN  IF err.is = "lockout" THEN Refused(<<>>) ELSE Answered(<<>>, err)

(* SubmitChangePassword, with what verifying and checking the words says.  *)
ChangeForm(form, found) ==
  LET err == OrElse(CheckChange(form.current_passwd, form.new_passwd, form.repeat_passwd),
                    Sentinel(found))
  IN  Answered(<<>>, Coded(Coded(err, "incorrect", "current_passwd", "incorrect"),
                           "short", "new_passwd", "too_short"))

(* Message: the codes that read as a sentence of their own.                *)
Handled ==
  {"required", "too_long", "too_short", "too_small", "too_big", "not_a_number", "not_a_date",
   "not_allowed", "immutable", "incorrect", "mismatch", "taken"}

-----------------------------------------------------------------------------
(* Properties.  The boxes of a form, at the edges of what each may hold.   *)

Texts(limit) == {0, 1, limit, limit + 1}

Days == {Blank, Garbled, NoDay, 1, 2}

Names(ids) == {Blank, Garbled} \cup ids

Numbers == {Blank, Garbled, MinOffset - 1, MinOffset, MaxOffset, MaxOffset + 1}

Shown(answer) == {answer.errors[i].field : i \in DOMAIN answer.errors}

(* What holds of every form: a screen that refuses shows one sentence at   *)
(* each of its own boxes at most, and one for each box that did not parse; *)
(* only a form that was accepted is written, as far as kept allows; a box  *)
(* that did not parse is never accepted; and a date that is the zero date  *)
(* reads as the empty box.                                                 *)
Stands(forms, kept, Handler(_)) ==
  \A form \in forms :
    LET answer == Handler(form)
        bad    == {box \in DOMAIN form : form[box] = Garbled}
    IN  /\ answer.status = 422 =>
             /\ Shown(answer) \subseteq DOMAIN form
             /\ \A i, j \in DOMAIN answer.errors :
                  answer.errors[i].field = answer.errors[j].field => i = j
             /\ \A i \in DOMAIN answer.errors : answer.errors[i].code \in Handled
             /\ bad \subseteq Shown(answer)
        /\ answer.status # 303 => answer.wrote \subseteq kept
        /\ answer.status = 303 => "row" \in answer.wrote /\ bad = {}
        /\ bad # {} => answer.wrote = {}
        /\ LET emptied == [box \in DOMAIN form |->
                            IF box \in {"start_date", "target_date", "plan_date", "fact_date"}
                               /\ form[box] = NoDay THEN Blank ELSE form[box]]
           IN  Handler(emptied) = answer

(* The form comes back with every bad box at once: the boxes it names are  *)
(* those that would be refused had all the others been right.              *)
AtOnce(forms, right, Handler(_)) ==
  \A form \in forms :
    Shown(Handler(form)) =
      {box \in DOMAIN form : Handler([right EXCEPT ![box] = form[box]]).status = 422}

SeasonForms == [name : {0, 1}, start_date : Days]

NewDrops == [name : {0, 1}, season_id : Names({"a"}), target_date : Days]

Namings == [name : Texts(MaxNameLen), description : Texts(MaxDescriptionLen)]

TemplateForms ==
  [name : {0, 1, MaxNameLen + 1}, description : {0, 1}, default : BOOLEAN, active : BOOLEAN]

Users == [email : {0, 1}, first_name : {0, 1}, last_name : {0, 1}, role : {"member", "root", "guest"}]

Steps == [plan_date : Days, fact_date : Days, note : Texts(MaxNoteLen), action : {"", "fact"}]

Found == {"fine", "taken", "gone", "broken"}

FormsStand ==
  /\ \A found \in Found :
       /\ Stands(SeasonForms, {}, LAMBDA f : SeasonForm(f, found))
       /\ Stands(NewDrops, {}, LAMBDA f : NewDrop(f, found))
       /\ Stands([name : {0, 1}, target_date : Days], {}, LAMBDA f : DropForm(f, found))
       /\ Stands([article : {0, 1}], {}, LAMBDA f : ModelForm(f, found))
       /\ Stands(Namings, {}, LAMBDA f : TypeForm(f, found))
       /\ Stands(TemplateForms, {}, LAMBDA f : TemplateForm(f, found))
       /\ Stands([type : Names({"a"}), offset : Numbers], {}, LAMBDA f : AddItem(f, found))
       /\ Stands([template : Names({"a"})], {}, LAMBDA f : ApplyTemplate(f, found))
       /\ Stands([type : Names({"a"}), plan_date : Days], {}, LAMBDA f : AddMilestone(f, found))
       /\ Stands(Users, {}, LAMBDA f : NewUser(f, found))
       /\ Stands([article : {0, 1}, drop_id : Names({"a"}), template : Names({"b", "c"})],
                 {"row"}, LAMBDA f : NewModel(f, {"b"}, found, "broken"))
       /\ \A applied \in {"fine", "retired"} :
            Stands([article : {0, 1}, drop_id : Names({"a"}), template : Names({"b", "c"})],
                   {}, LAMBDA f : NewModel(f, {"b"}, found, applied))
  /\ \A found \in {"fine", "lockout", "broken"} :
       Stands([first_name : {0, 1}, last_name : {0, 1}, role : {"member", "guest"}], {},
              LAMBDA f : UserForm(f, found))
  /\ \A found \in {"fine", "incorrect", "short", "broken"} :
       Stands([current_passwd : 0..1, new_passwd : 0..2, repeat_passwd : 0..2], {},
              LAMBDA f : ChangeForm(f, found))
  /\ \A move \in {"fine", "gone", "broken"}, edit \in {"fine", "gone", "broken"} :
       Stands(Steps, {"plan"}, LAMBDA f : SaveMilestone(f, 1, [move |-> move, edit |-> edit]))

(* Of the two boxes of a row one alone is named when neither parses.       *)
RowsStand ==
  \A found \in {"fine", "gone", "broken"},
     held \in {[offset |-> -1, gap |-> 0, above |-> {}], [offset |-> 0, gap |-> 1, above |-> {-1}]} :
    Stands({f \in [offset : Numbers, gap : Numbers] : f.offset # Garbled \/ f.gap # Garbled}, {},
           LAMBDA f : SaveItem(f, held, found))

(* An order is written whole or not at all.                                *)
OrdersStand ==
  \A boxes \in [1..2 -> Names({"a", "b"})], found \in {"fine", "stale", "broken"} :
    LET answer == OrderForm(boxes, found)
    IN  answer.wrote # {} <=> found = "fine" /\ ToSet(boxes) \subseteq {"a", "b"}

FormsTellAll ==
  /\ AtOnce(SeasonForms, [name |-> 1, start_date |-> 1], LAMBDA f : SeasonForm(f, "fine"))
  /\ AtOnce(NewDrops, [name |-> 1, season_id |-> "a", target_date |-> 1],
            LAMBDA f : NewDrop(f, "fine"))
  /\ AtOnce(Namings, [name |-> 1, description |-> 1], LAMBDA f : TypeForm(f, "fine"))
  /\ AtOnce(Users, [email |-> 1, first_name |-> 1, last_name |-> 1, role |-> "root"],
            LAMBDA f : NewUser(f, "fine"))

=============================================================================
