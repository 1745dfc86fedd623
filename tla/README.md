# Verification of pilam

pilam keeps the seasons, drops and models of a small fashion house, the milestone
calendar of every model, and the trail of who changed what. It is one Go process in
front of one Postgres database and a directory of photos. Every handler is a sequence of
statements, the pool runs them at READ COMMITTED with no version column, no `FOR UPDATE`
and no retry (`internal/postgres/tx.go`), and every edit writes a whole row back. What
the modules below ask is which promises of the code and of `docs/v1` survive that, what
is left after a process, a run of the seed or the power ends halfway, and what a reader
of the screens may rely on.

## Inventory

| component | state | operations | what must be right |
| --- | --- | --- | --- |
| milestone calendar (`milestones/calendar.go`, `cascade.go`, `apply.go`) | rows of `milestone`, one per model and type | apply a template, add a step, save a step (move its plan, with or without the chain after it, then edit the row) | a step of a kind once; the promise never moves; no fact ahead of the day; done work does not move; the trail says what the row holds |
| milestone templates (`milestones/templates.go`) | rows of `milestone_template` with the flags default and active | create, update | one default at most, and an offered one; naming another one works |
| template items (same file) | rows of `milestone_template_item` with an offset and a place | add, edit an offset or a gap, remove, reorder | places 0..n-1 in one order; a type once; the trail says the steps |
| milestone types (`milestones/type.go`) | one row per type | create, update, list | names unique, the trail agrees |
| milestone list and state (`milestones/state.go`, `list.go`) | none | late, due, done; the list of a season, its groups, the models counted beside it | day boundaries, a decided order, no model lost |
| seasons, drops and models (`catalog/`, `http/models`, `http/drops`, `http/seasons`) | one row each | create (a model with its calendar), update, list, card, the season a list opens on | names unique in their scope; a refused form left nothing; lists and cards whole |
| photo strip (`catalog/photo.go`, `http/models`) | rows of `model_photo`, blobs of the media store | upload files, remove, reorder | no row without its blob; a cover at position 0; distinct places |
| transactions (`postgres/tx.go`) | the transaction in a context, a connection of the pool | InTx, which joins an outer one | all of a transaction or nothing; nobody waits for ever |
| audit trail and log (`audit/`) | entries, only ever appended | Record; Entity, Scopes, Recent | an entry per field that moved, in the transaction that moved it; the newest are shown |
| accounts (`auth/auth.go`, middleware) | rows of `app_user`; the principal in the cookie of every browser | login (with rehash), logout, create, update, change and reset a password, the guards | a root remains; an ended session stays ended; a new password ends sessions; the trail tells roles |
| session cookie (`platform/session`) | none | Issue, Verify | opens for whom it was issued to, and no longer than it was issued for |
| passwords (`platform/password`) | none | Hash, Verify, the policy | opens for its password alone; a weak hash is made again; a stored cost is bounded |
| login throttle (`auth/throttle.go`) | a map under a mutex | Allow, Fail (with a sweep), Reset | a wait stands; the window doubles to the cap in 64-bit durations; the sweep bounds the map to recent keys |
| request pipeline (`http/router.go`, `http/middleware`) | the context of a request | session, identity, guards, CSRF, recovery, log | every screen sits under its guards, every request has one answer |
| media store (`platform/media/local.go`) | a directory tree and a directory of temporary files | Put, Open | a name is a whole file, after a crash too |
| process and deployment (`cmd/pilam/serve.go`, `deploy/`) | the listener, the pool, the handlers in flight; two files of a backup | start, serve, stop with a grace, back up, restore | a stop ends, a clean exit cut nobody off, a backup fits |
| demo seed (`cmd/pilam/seed.go`, `seed/`) | none of its own | one long sequence of service calls | run again after a stop, it duplicates nothing and completes the rows of its plan; what follows a row (photos, facts, the end of a leaver) only the run that wrote the row completes |
| configuration (`platform/config`) | none | Load, the migrations a start waits for | all of it, or an error that names every bad variable |
| validation and forms (`platform/validate`, the handlers) | none | every form of the application | a refused form wrote nothing and marks its bad boxes |
| pickers and screens (`http/...`) | none | what the controls offer; the reads behind a screen | what is offered is accepted; a screen is whole or an error |
| clock, dates, identifiers (`platform/`) | none that outlives a call | Today, New | dates compare as days, identifiers are not handed out twice |
| labels, views, icons, logging, test kit | none | | |

The components meet in the database and nowhere else: services do not call back, and no
component holds a lock or a cache of another. A service runs its writes and the entries
that say so in one transaction (`Atomic.InTx`), and joins the transaction it is called in.

What is hard to test here:

* two requests that read the same rows and then write them: every whole-row update, every
  place taken from the length of a list, every flag cleared on somebody else's row;
* requests of two transactions (`SaveMilestone`, an upload of several files, a login that
  rehashes, a model created with its calendar), where the first stands and the second does
  not happen;
* a check and a write that are statements apart, with midnight or another request between;
* transactions that wait for each other's rows or names, on a pool that is used up;
* screens read by several statements outside a transaction while rows are added;
* attempts that overlap between `Allow` and `Fail`, a sweep of keys that still wait, and a
  shift that overflows;
* a process that is told to stop during an upload, that dies between a write and a rename,
  or loses the power before the kernel has written a directory; a backup taken meanwhile;
* a seed that stops anywhere and is run again, with the same flags or with others.

`PROJECT.json` lists each of these under `hazards`, at its line, with the properties that
look at it.

## How a request is modelled

In most modules a *step* is one read with the decision that follows it, or one commit with
every write and every trail entry of its transaction. This is sound at READ COMMITTED
because a transaction of these services never reads what it wrote, its reads do not lock,
its writes take row locks in sequence, and what it wrote becomes visible at its commit:
writes that conflict are serialised by the locks, and a deadlock ends one of the two, which
is `Fail`. The one write whose search matters before the commit, `ClearDefault`, is a step
of its own that keeps the set of rows it found. A constraint is a condition of the commit.

`Catalog` opens a transaction up to show that this is what it does: begin (which waits for
a connection), the row lock, the write (which waits for a name an open transaction holds),
the trail entry, commit or rollback, and the deadlock the database ends.
`Server` and `MediaStore` go system call by system call for the same reason.

`Fail(c)` may happen at any point of a request: a statement or a commit that fails, a
connection that is lost, a server that goes away. What was committed before stays, nothing
else does. Outside `Server`, `MediaStore` and `Seed` there is no other crash state, because
the process keeps nothing but the throttle, and a restart of the throttle is a new behaviour.

Every module of requests keeps for each client a record `req[c]` with the step it is at and
the values it has read. Inputs (form fields, dates, orders, what a template reads as) are
chosen by `\E` at the step that uses them. `Begin` counts requests up to `MaxRequests`,
the bound that keeps the runs finite; behaviours therefore end, and the configurations
switch the deadlock check off for that reason alone. That no request is left waiting is a
liveness property of `Catalog` and of `Server`, where waiting is modelled.

`told` is the trail as a reader of it reconstructs the row: for each field, what the last
entry of that field says. `alone` is a history variable: TRUE until two requests are open
at once. A property named `...Alone` is one that the code keeps for requests one after the
other, failures included, and that no lock keeps for requests that overlap; the others
hold for every interleaving.

Code without state (forms, pickers, routes, configuration, hashes, list order) is modelled
by operators. Their properties quantify over sets of inputs (what the variables of the
environment may be set to, the lists of seasons, the costs of a stored hash), which are
constants: the configuration of a run gives them the edges, the theorems hold for whatever
they are. Such a property is an invariant of the run of the module beside it, in the states
before its first request: those states are enough, since no operator reads the tables of
that module.

## Modules

| module | models | state and actions |
| --- | --- | --- |
| `MilestoneRules` | `cascade.go`, `apply.go` | `Cascade`, `Follows`, `Apply`: pure, on integer days |
| `Sorting` | what `slices.SortFunc` and an `ORDER BY` make of rows that are all different | `Preceding`, `SortedBy`: a row stands where as many rows stand before it |
| `MilestoneList` | `state.go`, `list.go` | `State`, `WorstSlipFirst`, `ListMilestones`, `ModelsWithoutCalendar`, `Groups` |
| `Calendar` | `milestones/calendar.go` behind `http/models/calendar.go` | `rows`, `told`, `today`; apply = `ApplyTemplate`, `HoldMissing`, `CreateMissing`; add = `AddMilestone`, `HoldType`, `InsertOne`; save = `SaveMilestone`, `FindMoved`, `HoldCalendar`, `CommitMove`, `ReadEdited`, `CommitEdit`; `NextDay` |
| `CalendarBook` | what the calendar promises (`docs/v1/milestones/feature.md`) | abstract: a book of steps that changes by whole decisions |
| `Positions` | the places of an ordered table | `Distinct` (the order key), `Ranks`, `InOrder`, `Rearranges`, `Positioned` |
| `OrderedList` | what a list the user arranges promises | abstract: append, take out, arrange |
| `TemplateItems` | items of one template | `items`, `told`; one action per read and per commit of add, save (offset or gap), remove, reorder |
| `Templates` | the table of templates | `templates`, `told`; `CreateTemplate`, `FindTemplate`, `ClearDefault`, `WriteTemplate` |
| `PhotoStrip` | the photos of one model | `photos`, `blobs`, `told`; `UploadFiles`, `PutFile`, `HoldStrip`, `AddPhoto`, and remove and reorder as for items |
| `Catalog` | seasons, drops, models, types on `postgres/tx.go` | `rows`, `told`, a pool of `MaxConns`; create and save (`OfferPaths`, `HoldParent`, `HoldRow`, `BeginTx`, `LockRow`, `WriteName`, `RecordTrail`, `CommitTx`, `StartCalendar`), `Deadlocked`; lists (`ReadSeasons`, `ReadDrops`, `ReadModels`) and cards (`ReadCard`, `ReadTrail`) |
| `SeasonChoice`, `AuditLog` | `CurrentSeason`; `Log.Scopes` | operators |
| `Accounts` | users, cookies, guards | `users`, `told`, `cookies`; `SubmitLogin`, `VerifyLogin`, `Rehash`, `SetSession`, `DropSession`, `Gate`, `CreateUser`, `HoldEdit`, `HoldChange`, `HoldReset`, `WriteUser`, and the user added from the command line |
| `Session`, `Passwords`, `Routes` | the cookie; hashes and policy; the chain of middleware and the guards of every route | operators; signature and derivation are ideal |
| `Access` | what a request brings to be let in and what it is let through | none of its own: `Accounts` with `Session`, `Passwords` and `Routes` over the keys, costs and passwords of an instance |
| `Throttle` | `auth/throttle.go` and the attempts of `Authenticate` | `failed`, `now`, `open`; `Try` (Allow), `Wrong` (Fail), `Right` and `Forgive` (Reset), `Tick` |
| `BlobStore` | what a store of files promises | abstract: a name is a whole file or none |
| `MediaStore` | `platform/media/local.go` | `named`, `entries`, `temps`, `put`; `OpenPut`, `Copy`, `EndCopy`, `Flush`, `Publish`, `FailPut`; `Persist` (the kernel), `Die`, `LosePower`, `Unpack` |
| `Server` | `cmd/pilam/serve.go`, uploads, `deploy/backup.sh` | `phase`, `signal`, `exit`, `rows`, `backup`; `Start`, `OpenStores`, `Signal`, `Shutdown`, `AwaitHandlers`, `Cut`, `CloseDB`, `Kill`, `Outage`; the upload and the serving of a file; `DumpRows`, `ListFiles`, `ReadFiles`, `Restore` |
| `Startup` | what stands before a server (`cmd/pilam/serve.go`) | none of its own: `Server` with `Config`, and `session.New` of `Session` on what was loaded |
| `Config` | `platform/config`, `cmd/pilam/migrate.go` | operators: parsers, defaults and bounds of every variable, `Load`, the schema a start waits for, and where a migration that failed may leave it |
| `Forms` | the forms of every handler | operators: the boxes, the checks, the service behind, which boxes a refusal marks |
| `Pickers`, `Cards` | controls and screens | operators: what a control offers, the reads behind a screen and what each makes of a missing row |
| `Seed`, `SeedFacts` | `seed/`, `cmd/pilam/seed.go` | `held`, `trail`, `run` with the rows of its plan that are left, taken in their order; `StartRun`, `Pass`, `Write`, `SkipUser`, `Refuse`, `Stop`, `Finish`; the place of a model in the list of its drop, which picks its facts (`InDrop`, `Called`); the dates of the facts (operators of `SeedFacts`, which ties them to the rows of `Seed`) |
| `CalendarProofs`, `ItemsProofs`, `PhotoProofs`, `PositionsProofs`, `TemplatesProofs`, `CatalogProofs`, `AccountsProofs`, `ServerProofs` | the inductive invariants, the lemmas and the theorems | `AccountsProofs` also proves about `Throttle` and all of `Access`, `ServerProofs` about `MediaStore`, `Startup` and `Seed` with its facts, `CalendarProofs` about `MilestoneRules` and `MilestoneList`, `CatalogProofs` about `SeasonChoice` and `AuditLog`, `PositionsProofs` about `Positions` and `Sorting` |
| `MC...` | instances for TLC | symmetry sets, the samples of the operators, the instance of the seed |

Composition: `Server` extends `MediaStore` (an upload is a `Put` and then a transaction);
`PhotoStrip` takes the same `Put` as one step, which is what `BlobStore` says it is;
`Accounts` and `Throttle` meet at the attempt of a login, which each module takes from its
side; `Catalog` starts the calendar of a new model as a transaction of its own, which is
`ApplyTemplate` of `Calendar`; `Cards` extends `Pickers`
and that `Forms`, so that what a control offers is checked against the handler it is posted to.

Definitions with the word Mutant in their comment are plausible bugs of the definition
that follows them; `PROJECT.json` says which property finds which. No specification uses
them.

What is abstracted: names, notes, descriptions and addresses (written like the flags they
stand beside, so that an edit may move nothing a module holds and still be an edit), the
actor and request id of a trail entry (its time is in `Catalog`, its actor in `Seed`),
passwords in `Accounts` (any outcome of a check), the content of files (a key is the
content, a size is a number of pieces). Milestone types, templates and target dates are
read by `Calendar` as any value they may hold, because they are edited elsewhere at any
time. The clocks of `Calendar` and `Catalog` never step back, and identifiers are never handed out
twice (`platform/ids`) but by the generator of the seed, where that is the question.
Edits that change no modelled field write the row back all the same when they may carry a
note (`noted` of `Calendar.ReadEdited`): the row they write may be an earlier one. What
goose does between two migrations is its own; a `migrate` that fails may have reached any
version on its way. The seed comes to the models of a drop as their list has them, by
article; the colors of one article it comes to as planned, where the list has them by
identifier, though their places in the drop are the list's.

## Runs

Twelve runs: nine that pass and three in which TLC finds what the code does against what a
comment says. A property that is a conjunction of parts is named with its parts.

| run | properties | bounds |
| --- | --- | --- |
| `calendar` | `AloneInv` (in every interleaving `TypeOK`, one step of a kind, no fact ahead, `HeldStands`; while `alone`, one request open and `HeldFresh`), `BaselineStands` in every interleaving; `TrailTellsAlone`, `ApplyFitsAlone`, `KeepsTheBookAlone` (refines `CalendarBook`); `ListsAgree` (order decided, states partition the list and turn on their night, nobody lost, groups keep) | 2 clients, 3 types, 3 rows, three plan days with the target between, 2 clock days, 3 requests, the template and the one it became after an edit; lists of up to five steps with equal days and slips among them, on four days and four screens |
| `items` | `ListStands` (`TypeOK`, `TypeOnce`, `PlacesDistinct`, `NoGapAlone`, `StepsLandAlone`), `TrailTells`, `KeepsTheListAlone` (refines `OrderedList`) | 2 clients, 3 types, 4 identifiers, offsets back to -1, 5 requests |
| `templates` | `DefaultStands` (`OneDefault`, `DefaultOffered`), `SavesLandAlone` (`DefaultLandsAlone`, `ActiveToldAlone`); `FormsHold` (forms, pickers, cards) | 2 clients, 3 templates, 6 requests; forms on both sides of every limit |
| `photos` | `StripStands` (`BlobsStand`, `PlacesDistinct`, `TrailTells`), `CoverStandsAlone`, `KeepsTheListAlone` | 2 clients, 2 files, 4 identifiers, uploads of up to 2, 4 requests |
| `accounts` | `UsersTold` (`TypeOK`, the trail tells roles and flags, alone), `RootRemainsAlone`, `SessionsEndAlone`; `SecretsHold` (cookie, hash), `RoutesGuarded` | 2 browsers, 2 users of any role and session, 4 requests; 2 signing keys, 4 moments over a lifetime that is no whole number of seconds, costs at and beyond both ends of their range; every route, asked for in every way by everyone |
| `throttle` | `RecordsDouble`, `WaitStands`, `RecentWhenFull`, `TriesWaitAlone` | 2 attempts open, 3 keys over a limit of 2, six-bit durations with base 5 and cap 12, 6 attempts, moments 0 to 14 |
| `catalog` | `TablesStand` (`TypeOK`, `NamesUnique`, `TrailOfRows`, `RefusalLeavesNoRow`), `TrailInOrder`, `ScreensAgree` (`ListedNamedAlone`, `CardNotBehind`, `TrailTellsAlone`), `EveryRequestEnds`; `ChoicesHold` (the season a list opens on, the newest entries) | 2 clients, a pool of 2, up to 3 seasons, 2 drops, 2 models, 1 type, 2 names, 2 requests; lists of up to three seasons with equal days, in every order; trails of four entries under every limit |
| `server` | `FilesStand` (`NamedIsWhole`, `TempsRemoved`, `ServedWhole`), `RowsHaveBlobs`, `BackupFits`, `CleanCutsNobody`, `StoresBlobs` (refines `BlobStore`), `WorkEnds` (`StopsWhenTold`, `UploadEnds`); `BootHolds` (configuration, migrations) | 2 clients; a file of the greatest size, one beyond it, one of another type; 2 requests, 2 starts, a power loss, a backup; each variable blank, good, unreadable and beyond its bounds |
| `seed` | `RowsOnce` (nothing twice, written as the root), `DoneIsWhole` (all it was asked for, and what follows it), `RerunWritesNothing`, `FactsLand` | 4 employees of whom one left, 2 drops, 3 articles listed in another order than planned, 4 models, a path of 2 steps; up to 3 runs of 4 sets of flags, each stopped anywhere; 5 targets, 5 days, late models in two places |
| `calendar_done_race` (violation) | `DoneStays`: a shift and a stamp | 2 types, 3 rows, 4 requests |
| `accounts_roots_race` (violation) | `RootRemains`: two roots edit each other | 2 requests |
| `seed_rerun` (violation) | `SafeToRunTwice`: a run that stopped, and another one | the plan of `seed`, a small run and then the whole |

Why the bounds are enough. A lost update takes two requests and a row, a wrong place takes
a list of two and a third request, and the repair or the damage that follows takes one
more: four to six requests reach it. Plan days on both sides of a moved row and on it are
the only distinctions `Cascade` makes; two clock days give one midnight. `calendar` makes
do with three requests, since each of them (apply, then two saves or adds that overlap)
is several transactions and three rows fill the table. Four identifiers on a list of three
let a row be removed and another one added while orders are held. Two clients suffice for
the interleavings of two; a third adds a longer queue of the same conflicts.

`catalog` counts statements, not requests: two requests are up to some twenty steps, and
with two connections both transactions are open at once, wait for each other's row and
name, deadlock, and may find the pool used up. It holds seasons, a drop and a model from
the start, so that the first request may be a save or a card.

`server` has the three files a store decides between. One power loss reaches a named file
whose directory is not on the disk; a second start finds what the first left; one backup is
three steps which two uploads surround. `throttle` makes its shift wrap below zero
(5·2^3 is -24), and its attempts reach past `MaxShift` from the second; that a longer shift
may come out positive again (5·2^4 is 16) is beyond its attempts and moments, and is what
`WaitsDouble` is proved for. `seed` has a design in two colors (so that rows share a
parent), an employee who left (a row written twice), a late model, and sets of flags which
grow, shrink and change the domain of the addresses. Two of them, one after the other, end
with no identifier taken: the second adds a model that is listed before one the first run
stamped, which then stands in a place whose facts are others and keeps the ones it has.

Symmetry is over identifiers, types, keys and clients, which no module orders or compares
but for equality. The runs with liveness (`catalog`, `server`) use none.

## Fairness and liveness

Two modules wait for something, and state what ends.

`Catalog`: `FairSpec` is weak fairness of `Serves(c)` for every client: a handler the
runtime schedules goes on, and the database answers or fails. That is all the code needs
for `EveryRequestEnds`: a connection is held by a transaction that ends, and of transactions
that wait for each other the database ends one. Fairness is not stated of `Asks` (nobody
need send a request) nor of `Fail`.

`Server`: `FairSpec` is weak fairness of what a handler does once it has its file
(`StoreFile`, `TakeStored`, `BeginTx`, `CommitRow`) and of the process (`OpenStores`,
`Shutdown`, `AwaitHandlers`, which the grace timer ends, and `CloseDB`). A browser is not
fair: it may stop in the middle of a form for ever, which is why `StopsWhenTold` rests on the
timer. Nobody need start, stop, back up or restore anything.

Elsewhere nothing in the code waits on a condition another request must establish, and the
only waiting, the window of the throttle, ends with the clock; a liveness property would say
no more than that the server runs.

## What the violations say

* `DoneStays` of `Calendar`: `cascade.go` says done work does not move. A shift that read
  the calendar before the stamp moves the step and takes the stamp away.
* `RootRemains` of `Accounts`: the guard against a lockout looks at the actor of one request
  and counts no roots, so two roots who edit each other leave none.
* `SafeToRunTwice` of `Seed`: every run draws its identifiers from the first, so a run that
  finds part of its plan in the store is refused by the identifiers of that part, and an
  employee may be counted as skipped whom nobody wrote.

Each is quoted against its sentence under `findings`. Other places where the code and its
words part, or where two requests leave what one would not, found on the way; the models
follow the code, and the `...Alone` properties are as strong as it allows:

* two saves of one milestone: `UpdateMilestone` writes back fields read before the other
  committed (`calendar.go:230`), and the trail still tells the change that was lost
  (`docs/v1/milestones/feature.md:277`);
* a step added to a template while another is removed leaves a gap (`templates.go:265`
  against `:305-306`), and the next add takes a place that is held. Photos take their
  places the same way, so a model may be left with photos and no cover;
* the template that loses the default flag has no entry in the trail (`templates.go:136`,
  `feature.md:207`); this needs no second request;
* `SaveItem` marks one of two bad boxes (`http/milestones/templates.go:205` and `:222`,
  against `platform/validate/validate.go:6-9`);
* the filter a card keeps may name a row that is gone (`http/models/models.go:804-806`);
* the list of milestones and the count of models beside it are two reads, so a model whose
  first step comes in between is on neither (`feature.md:126`); `NobodyIsLost` counts them;
* a save that is refused may have moved the plan already, by design of its two
  transactions.

## Proofs

The theorems hold for every set of clients, rows, types, users and files, for any number of
requests and in every interleaving. Their assumptions are the named `ASSUME`s of the
constants, which TLC evaluates in the run of the module. In each module `Inductive` or its
like splits `Next` into its actions, a lemma each; the table names what had to be added to
the properties to make them inductive.

| module | theorems (and the properties of runs they state) | the inductive invariant, beyond the properties |
| --- | --- | --- |
| `CalendarProofs` | `Invariance` (`IInv`), `OneStepPerType`, `NoFactAhead`, `PromiseStands` (`BaselineStands`) | `HeldStands`: a row a request holds names a row of the table, agrees with it on type and baseline, and has no fact ahead of today |
| | `AloneInvariance` (`AloneInv`), `TrailAgreesAlone` (`TrailTellsAlone`), `ApplyFits` (`ApplyFitsAlone`), `DoneStaysPut`, `KeepsTheBook` (`KeepsTheBookAlone`) | `HeldFresh`, while `alone`: what the open request has read and decided is what the tables hold; `OneOpen` |
| | `ListsAlwaysAgree` (`ListsAgree`), and of its parts `ListInOneOrder`, `StatesTurnInOrder` | none: about the operators of `MilestoneList`, on any tables, screens and days |
| `ItemsProofs` | `Invariance`, `ListStandsAlways` (`ListStands`), `TrailAgrees` (`TrailTells`), `KeepsTheList` (`KeepsTheListAlone`) | `RequestStands`: a held write or removal is of the type it read; while `alone`, the places number the rows and what a request holds `Fits` them; `OneAtATime` |
| `PhotoProofs` | `Invariance`, `EveryPhotoStands` (`StripStands`), `CoverStands` (`CoverStandsAlone`), `KeepsTheList` (`KeepsTheListAlone`) | a held file is stored, a held removal knows the file of its row; places as above |
| `TemplatesProofs` | `Invariance`, `OneIsDefault` (`DefaultStands`), `SavesLand` (`SavesLandAlone`) | a row about to be written is one the rules allow; a new one is told; `OneAtATime` |
| `CatalogProofs` | `Invariance`, `TheTablesStand` (`TablesStand`), `TheScreensAgree` (`ScreensAgree`), `TimesFollowWrites` (`TrailInOrder`) | `ParentsStand`, `LocksStand` (open transactions differ in row and in name, and a checked name is free), `ClockStands` (a stamp in hand is later than the entries of its row), `ScreensStand`, `AloneStands` |
| | `ChoicesAlwaysHold` (`ChoicesHold`) | none: about `CurrentSeason` and `Scopes`, on any seasons, days, trails, limits and scopes |
| `AccountsProofs` | `Invariance`, `RootStaysAlone` (`RootRemainsAlone`), `SessionsEndForGood` (`SessionsEndAlone`), `TrailAgreesAlone` (`UsersTold`) | while `alone`: a cookie is never ahead of its row, and behind it once the user is inactive; a row about to be written keeps a root, moves the epoch where it ends sessions, and names what it changes |
| | `ThrottleInvariance`, `WaitsStand` (`WaitStands`), `WaitsDouble` (`RecordsDouble`), `FullIsRecent` (`RecentWhenFull`), `TriesAreApart` (`TriesWaitAlone`) | a record was seen no later than now, and its `until` is the window of its attempts after its last failure; `Counted`: no key has more failures than attempts were made |
| | `SecretsAlwaysHold` (`SecretsHold`), from `CookiesOpenAsIssued`, `BrowserKeepsNoLonger` and `HashesAlwaysHold` | none: about the operators of `Session` and `Passwords` |
| | `RoutesAlwaysGuarded` (`RoutesGuarded`) | none: about the chain and the guards of `Routes` |
| `ServerProofs` | `Invariance`, `FilesStay` (`FilesStand`), `PhotosHaveFiles` (`RowsHaveBlobs`), `BackupsFit` (`BackupFits`), `CleanStop` (`CleanCutsNobody`), `ImplementsBlobStore` (`StoresBlobs`) | where a call of `Put` stands, its temporary file holds what it should; a key between the answer and the commit is stored; a backup's list was taken after its dump |
| | `SeedInvariance`, `NoRowTwice` (`RowsOnce`), `DoneLeavesAll` (`DoneIsWhole`), `NothingLeftToDo` (`RerunWritesNothing`) | `StoreSound` (a row stands with the one it follows, the colors of a design from the first on), `InOrder`, `NothingForgotten`, `CalendarsStamped` (a calendar has the facts of one place, and of the one its model has by now while the run that wrote it is the last) |
| | `FactsAlwaysLand` (`FactsLand`), from `SeededFactsFit` | none: about the operators of `SeedFacts`, on any place, path, jitter, target and day |
| | `BootAlwaysHolds` (`BootHolds`) | none: about the operators of `Config`, on any texts the variables may be set to, and from any version an earlier `migrate` left |
| `PositionsProofs` | lemmas only | `RanksNumber`, `OrderNumbers`, `GrowsAtTheEnd`, `FirstPlace`: what the operators on places give, by cardinalities; that `SortedBy` lists every row once and in order |

The arguments, a few sentences each.

*Calendar.* A commit writes back a row that was read arbitrarily long ago, so what is known
of the table must be known of every row a request holds; it stays known because no step
deletes a row or writes type and baseline with anything but what they hold, and the clock
does not step back. What holds without overlaps needs more: that the write in hand is made
from the rows as they stand, which is `HeldFresh`. From it the trail agrees (an edit names
every field it moves), an apply cannot meet the unique index, a shift cannot take a row that
is done, and every commit is a decision of `CalendarBook`: a promise, a move, a shift or an
edit. The run `calendar_done_race` shows that `DoneStaysPut` ends where overlaps begin.

*Lists.* A sort is stated by what it gives: the row at place n has n - 1 rows before it. That
there is exactly one such row follows from the order being total and never circular, by
counting: of two rows the earlier has fewer before it, so the counts are all different, and
as many as there are rows. A loop over a list is a function of how far it has come, and what
it holds is proved prefix by prefix: the groups of a list are its prefixes' groups, and
`CurrentSeason` holds the latest season begun, the earliest to come and the newest of the
part it has seen. Of `Scopes`: an entry that was cut from its scope has as many newer ones in
that scope as the limit lets through, so none of the shown ones is older than it.

*Items and photos.* The order key keeps the places distinct in every interleaving; that they
count from 0 rests on `OneAtATime` (while `alone`, a client that is not idle is the only
one), so that what a request read is still so when it commits. The refinement of
`OrderedList` maps the rows to the sequence a reader sees, and each commit appends, takes
out or arranges it. `Items` and `Photos` are finite, because places are counted.

*Templates.* One default is the partial index; that it is offered is kept because a write
carries both flags of the row it read and the service checks them together.

*Catalog.* No request looks for a name before it writes: names stay unique because the two
transactions that may hold one wait for each other, which is `LocksStand`. An entry is
stamped before it commits, yet of two writes of one row the later has the later time, since
the stamp is drawn under the row's lock; the bound on the clock is an inductive count of the
stamps still wanted. A card reads the row before the trail, so the trail it reads is as late
as the row or later. What needs no overlaps is in `AloneStands`.

*Accounts.* An epoch only grows, a cookie is set from the row, and the row of an inactive
user has moved past every cookie. *Throttle*: a key that waits failed less than the longest
window ago, so the sweep spares it, and a further failure moves its end later because windows
grow. *Cookie and hash*: a cookie is what the key signed, so one put together from parts of
others carries no signature of its parts, and truncation to seconds only shortens a lifetime;
a hash opens for its own password at a cost in range. Their hypotheses say what the
constants stand for: no garbled part is a subject, a moment or a signature, the parser
reads back what it wrote, and the password of the dummy hash is nobody's. *Routes*: the chain is unfolded link by link.
A request either has its answer when it comes to the route, and then the route did not run,
or it passed every guard in front, and the guards are those of the section the route is in;
where a guard sends somebody is a place that lets them in.

*Server.* A rename is the one step that names a file, and it comes after the last byte and
its flush; a power loss takes whole names only. The refinement maps a call to the abstract
store by what is named, and every step is an abstract one or a stutter. *Start*: each variable is parsed and refused by
itself, so the error names a variable exactly when its own text is bad; a blank text means the
default, which is accepted, so blanking what the error names gives an environment that loads.

*Seed.* What a run has left is the end of its plan, in order, whatever it met; what it has
passed is there; and what follows a row it wrote is not there early. That an article is there
is told by the count of a design's colors, which is right only because the colors of a design
are held from the first on, and this is the part of the invariant the proof turns on. Which
facts a calendar takes is read off the list of its drop, and the list stands still while
they are written: every model of a plan comes before the first calendar.
*Facts*: the steps whose day has come are a first segment of the path (offsets run forwards),
so leaving the last ones open leaves exactly those the seed means. A step that is open keeps the
day it was promised, and one that is stamped is never late, so what reads as late is read off
the rows.

The growth of the windows is proved, from two assumptions on the constants that TLC evaluates
for the six-bit instance. `Powers` says what 2^n is as far as the counters reach.
`ShiftsWrapOut` says that a shift which wraps lands outside `1..Longest`, and for the
constants of the code it is arithmetic: 10^9 is 2^9·5^9, the shifts that do not wrap (up to
33) are plain products, and a shift by 34 or more leaves a multiple of 2^43 modulo 2^64,
which is negative, zero or at least 2^43 nanoseconds, beyond the cap of 9·10^11.

The provers take no theorem with an operator for a parameter, so there is no induction over
data as such; where a proof needs one (the doubled window, the passed steps of a path) it
takes the least element of the set of counterexamples, by the well-foundedness of the
naturals.

Only model-checked:

* liveness, which rests on fairness: `EveryRequestEnds` and `WorkEnds`;
* `FormsHold`: its inputs are written out in the property (each box blank, at its limit,
  beyond it or unreadable), so TLC's run goes through all that a theorem would be about; a
  theorem for texts of any length would need the folds over lists of checks that collect the
  rejections of a form, and the provers do no induction over lists.

## Not modelled

* Labels, templ views and icons: tables of words and markup without state or decisions; the
  icon tables are generated and are a third of the lines of the repository. Logging, but for
  what the chain of a request leaves in it.
* The test kit (`http/testkit`): doubles for the tests of the handlers.
* Of screens: paging, the htmx fragments an answer is cut to, wording, and the layout of
  lists. Names, notes and descriptions are lengths where a limit is checked, and are left out
  elsewhere.
* Of the clock: time zones. A day is an integer; that `clock.Today` reads it in the business
  timezone is the library's.
* Of secrets: the HMAC of a cookie, the derivation of a hash and the characters it is
  encoded in; the libraries' correctness is assumed and what the code makes of it modelled.
* Of the seed: which words its rows hold. Of the deployment: Caddy and the shell of
  `deploy.sh`.

Room for more: `Calendar` and `Catalog` on one clock, for a model whose drop is moved while
its template is applied.
