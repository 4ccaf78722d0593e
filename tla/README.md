# routed-operations: a TLA+ model of the Route Builder

`routed-operations` is the web application in which dispatchers turn the day's
bulk jobs into runs, lock them and send them to the live system, and with which
their colleagues import jobs, keep schedules and recurring routes, draw coverage
polygons, roster drivers and watch the live runs. Behind a React single-page
client stands an ASP.NET API over one SQL Server database per tenant. Several
people work on the same day at once, each from a copy of the tables that grows
old until the next fetch; nearly every handler changes more than one table; and
the pages go on while their calls are under way. This directory models those
parts: the tables under whole requests and between the statements of concurrent
ones, and the pages with everything that may answer late.

Paths below are relative to `src/`; `S/` stands for `Core/Application/Services/`,
`app/` for `wwwroot/app/react/`, `cockpit/` for `app/components/cockpit/`.

## 1. The system

| component | code | state | hard parts |
|---|---|---|---|
| Runs and assignment | `S/Run/RunService.cs` | `tblBulkRun`, link rows `tblBulkJobRun`, `BulkRunID` of `tblBulkJob` | a job's run is stored twice; transactions of three kinds; an optimistic check on the run the caller saw |
| Void and un-void | `S/Job/VoidJobService.cs` | the same tables; the day's run named "Void Jobs" | run found by name and date; whole-row writes; read committed |
| Send to live | `S/Run/RunCommitService.cs` | none of its own | a loop of stored-procedure calls, any of which may fail |
| Job service | `S/Job/JobService.cs` | `tblBulkJob` | whole-row writes race with moves |
| Cockpit page | `cockpit/` | the last answers of two feeds | copies of different ages; dialogs between reading and acting; a build that runs while the page stays open |
| Driver scheduling | `S/DriverScheduling`, `app/pages/DriverScheduling.tsx` | schedules, slots, answers | double and overbooking, check then save; the page sends what it showed |
| Bulk import and its wizard | `S/BulkImport`, `app/components/bulk-import` | new bulk jobs; the wizard's reducer and refs | replies decide by the render that sent the request |
| Historic archive | `S/HistoricArchive`, `app/pages/HistoricArchive.tsx` | `tucJobArchive`, batches | ids allocated by MAX, 32-bit; a lost reply |
| Schedules | `S/Schedule`, `app/components/schedules-new`, `app/pages/SchedulesNew.tsx` | schedules, overrides, bundles, the cached list | forms seeded once, requests that send some fields only if changed, optimistic flips with snapshots, one gate per cached list |
| Recurring routes | `S/RecurringRoute`, `app/pages/ScheduledRoutes.tsx` | routes, rosters | writes that name some fields only; the map and the form in different effects |
| Polygons | `app/pages/PolygonBuilder.tsx` | polygons, a draft, one undo stack | answers whose handlers do not look at what is on screen |
| Route viewer | `app/pages/route-viewer`, `S/RouteViewer` | live jobs, scans | bulk actions that outlive their menu; grids that refetch under a selection |
| Connection cache, pricing, routing, lookups, partner scope | see `PROJECT.json` | | not modelled (section 5) |

How they meet: a page calls a controller of `API/Controllers`, which calls a
service; each request has its own `DbContext`; services meet only in the
database, save for the one in-memory cache of `TenantScopedCache.cs`. Send to
live hands a job to `UTL_stpJob_InsertFromRunBuilder`, a procedure that this
repository does not hold: it marks the job done and deletes its link rows
(`RunService.cs:202-206`). The courier portal, which answers driver schedules,
and the trigger against overbooking are outside it too.

What makes the parts right:

* runs: the two copies of a job's run agree; a job has one link row; no job is on
  a run that is gone; a move that another dispatcher's move overtook is refused;
  no old page takes a job off a run silently, if its job list shows it on another;
* driver scheduling: no courier twice at once, no slot over its limit, no answer
  or place left over from what is gone;
* imports: each row lands once, what did not land is told (but for one case,
  section 5), a batch holds the rows that it announces;
* editors: what the operator did not touch stays, shapes and chains are those of
  their own record, the screen rests on what the server has;
* viewers: an action touches what was shown, a selection belongs to what is on
  screen.

`PROJECT.json` lists the components, and the hazards one by one with their lines.

## 2. Modules

| module | what it is |
|---|---|
| `RunBuilder` | the three tables and every handler as one step |
| `JobBoard`, `RunBuilderBoard`, `RunRacesBoard` | abstract specification, each job in one place, and the mappings of the two models of the tables onto it |
| `Cockpit` | the page and its copies, over `RunBuilder`, with other clients |
| `RunRaces` | the run handlers split at their awaits, for several clients |
| `DriverScheduling` | the driver scheduling service, each request one step, over a clock |
| `TenantCache` | the cached schedule list: threads split at their awaits, a gate, an expiry |
| `ImportWizard`, `ImportList`, `StaffImport`, `HistoricArchive` | the pages that import, with the commit of the archive split at its statements |
| `ColumnMapping`, `ImportFixes`, `ImportSteps` | steps of the import wizard seen closely: mapping columns, correcting names and addresses, and the two together |
| `RouteViewer`, `ScanManager` | the Run Viewer and the scan grid |
| `PolygonBuilder` | drawing, editing, undo and saves of polygons |
| `ChainBuilder`, `ScheduleModal`, `SchedulesList`, `ScheduleBundles` | the schedules pages: the chain of legs and its columns, the detail with its overrides, the paged list, the bundles |
| `ScheduledRoutes`, `RouteMap` | recurring routes: list, editor and roster; the map of the editor |
| `ShiftPage` | the driver scheduling page |
| `RunBuild` | Build Runs of the cockpit |
| `Pages` | the pages but for the wizard's steps, one mounted at a time |
| `MC*` | instances for TLC |
| `*Proofs` | theorems (section 4) |

**RunBuilder.** `job` is `tblBulkJob` (`run`, `void`, `done`, `day`), `link` the
link rows of each job as a set of rows (there is no unique index in the code's
model), `run` is `tblBulkRun`, `nextRun` its identity column. A request is one
action: `CreateRun` and `SaveRun` (`InsertOrUpdateRunAsync`; the jobs whose MERGE
ran before one failed are any subset), `UpdateRun`, `DeleteRun`,
`CreateRunWithJobs`, `AssignJobs` (batch and merge), `AssignJob` (the old single
`POST /assign`), `SetJobStartEnd`, `RemoveJobFromRun`, `VoidJobs`, `UnvoidJobs`,
`BulkMove`, `DispatchJob`. What the handlers share is an operator on tables:
`Bind` (upsert of a link row), `PlaceJobs`, `ReleaseLinks`, `ReleaseJobs`
(`RemoveRunTrackedAsync`). A refused request changes nothing and is no step. Two
runs called "Void Jobs" on one day can come about by renaming; `VoidRunsOf` is a
set for that reason, and any of them may be picked.

**Cockpit.** `jobList` and `runList` are the last answers of the two GETs, which
the page sends in parallel; nothing forces a reload, because a failed one leaves
the old copy. Each gesture is a `RunBuilder` request with parameters taken from
the copy: the run a job is moved from (`SeenOn`), the status and name sent back
by a rename or a courier change, the jobs of a run to reorder, merge or send.
Sending is two steps: the jobs are fixed when the request is made, and each call
of the procedure comes later and may fail. `Elsewhere` is any request of another
client.

**RunRaces.** `rows` are link rows with their identity, because EF deletes and
updates a row by its key. Each client has one request in `req`, which remembers
what it read. A SaveChanges is one step that fails as a whole when a row it
deletes is gone. The serializable transaction of `AssignJobsToRunAsync` is a read
step and a commit step that needs the rows it read unchanged: range and row locks
held to the commit have that effect, as either the other writer waits or one of
the two is the deadlock victim (`Fail`).

**DriverScheduling.** An instant is a tick; windows and slots are ticks, and a
copy moves them to another day. `Respond` is the portal, `HasRoom` the trigger.
The batch of `StatusUpdate` is checked against the stored rows and against its
own peers, as in the code.

**TenantCache.** `stage` is where each request's thread is: before the gate, in
it, computing, storing, patching. `entry` is the cached list (the version of each
schedule), `held` what a thread has in hand, `patched` a history of the newest
version that any patch put there.

**The pages.** In each page module the server's rows, the page's copies of them
(with the query cache where it matters), the form and its seed, and the set of
calls under way are variables of their own; a call is asked for, served and
answered in three steps, and a handler that closes over a render carries that
render's values in its call. `Pages` composes them: one is mounted, the others
stay blank, since the router unmounts a page and they share no client state.
Requests are single steps of the server there, but for the archive's commit,
whose ids are allocated, rows inserted and transaction committed in steps.

**ImportFixes** and **ColumnMapping** look into steps that `ImportWizard` takes as
given, each with a reducer state of its own (`fxWiz`, `cmWiz`) and beside it what
the modals keep and what is under way. Effects are not actions: each render, which
every action that changes the wizard is, runs in the same step the effects whose
dependencies it changes (`FxRender`, `CmEffects`), each of them from the values of
that render, and cancels the calls whose step it leaves (`FxLive`). A geocode
call holds the wizard it was made from, and its reply decides by that. A name in
`ImportFixes` is a string with its lower-case form (`FxFold`); which addresses are
found is any subset. A column in `ColumnMapping` is a sequence of words, since the
automatic match compares columns with names by the words they share (`CmMatches`).
`ImportSteps` puts both into one specification: neither reads what the other
writes, so one side moves and the other waits as it was opened.

Each module's header says what it leaves out. The cuts that matter most:
`RouteViewer` leaves out react-query's older rows of a key that is looked at
again; `ScheduleModal`, `SchedulesList`, `ScanManager` and `ScheduledRoutes` leave
out fetches that fail, which leave what was there; `ShiftPage` reads and shows a
fetch in one step; a call of `ImportWizard` that fails lands nothing (a reply that
is lost after its import landed is left out).

## 3. Runs

| run | question | result |
|---|---|---|
| `builder_board` | do the tables implement the job board (`ImplementsJobBoard`), with one link row per job and both copies of its run equal (`TablesAgree`)? The single assign takes part, so that no job is on a run that is gone is the board's to say: only `Strand` puts one there, and `Close` leaves none | holds |
| `cockpit_moves` | do the tables and the page keep their types (`CockpitTypeOK`)? Can a drop or merge from an old page take a job off another run than the one its job list shows? `NoSilentTakeover` | holds |
| `races` | can interleaved requests give a job two link rows? Do batches, merges, removes and sends keep both copies of the run equal, and jobs off merged runs (`TablesAgree`), and is each commit one step of the job board (`ImplementsBoard`)? | holds |
| `driver_shifts` | does any order of drawing up, copying, answering, placing and cancelling book a courier twice, overfill a slot or leave an answer without its schedule? `NoDoubleBooking`, `FillsOnlyFreePlaces`, `PlaceHeldByAvailable`, `AnsweredScheduleStays` | holds |
| `list_cache` | is a patched row ever lost from the cached list, is each request answered, does the list settle on what is stored? `PatchIsKept`, `CallsAreAnswered`, `ListSettles` | holds |
| `pages` | for each page its own properties, see below | holds |
| `import_steps` | in whatever order settings, templates, options and replies come, does what is mapped stay (`MappedStays`) and are weight and total apart (`TruckWeightApart`)? Does a late geocode reply write only where it may (`RepliesPinTheirRows`), does what was pinned and chosen stay (`FixesStay`), and is every alias rewritten before the rows are built (`AliasesAreRewritten`)? | holds |
| `cockpit_void_send` | is the void run never sent, as the page says? `VoidRunNeverDispatched` | violated |
| `cockpit_shown` | is every job of the day in some pane? `EveryLiveJobIsShown` | violated |
| `races_steal` | can two checked moves overwrite each other? `MovesFromSeenRun` | violated |
| `polygon_drawn` | are the handles on the map those of the draft? `DrawnIsDraft` | violated |
| `chain_direct` | has a direct schedule no linehauls, as the comment says? `DirectHasNoLinehauls` | violated |

What `pages` checks: `NoRowTwice`, `TallyIsWhatLanded`, `SummaryListsTheRest`
(wizard; a property of steps, since the wizard may also close without a summary),
`BatchHoldsItsRows` (archive), `RunsFitTheirLimits` (Build Runs), `ActsOnShown`
(Run Viewer), `GridIsOfItsFilters` (scan manager), `ShapesKeptApart`,
`DraftLeavesNothing` (polygons),
`ChainShape`, `UntouchedChainKept` (chain of legs), `UntouchedKept` (schedule and
overrides), `RestsOnServer` (schedules list), `OriginFitsDirection`,
`MapTellsBound` (recurring routes and their map), `ActsOnItsDate` (driver
scheduling page). `StaffImport`, `ScheduleBundles` and `ImportList` contribute their
types to `PagesTypeOK`; no deeper property of theirs is stated. What one would ask
of the import list's ticks does not hold of its rows (section 5), and says nothing
when it is asked of their keys.

What three of these properties leave out, because the code does not keep it, is
part of their statements: `NoSilentTakeover` is about jobs that the job list shows on
a run, `SummaryListsTheRest` lets a wizard close over the rows unticked in the review
just answered, and `RestsOnServer` excepts the answer of a fetch that `invalidateQueries`
let run on. `SelectionOfTheDay`, a theorem, excepts pages on which a link was followed.

In both `TablesAgree` the parts have names of their own (`OneLinkPerJob`,
`PlacementAgrees`, `NoOrphanPlacement`; `AtMostOneRow`, `RowsAgree`,
`PlacedOnLiveRun`), by which the theorems state them. `TablesAgree` of `RunBuilder`
asks for `NoOrphanPlacement` only where `LegacyAssign` is `FALSE`, which in the
runs of those tables that must hold it is not. Three more invariants are stated
by a theorem and checked by no run, since a property of a run says more or the
proof has taken the run's place: `OneAtATime` of the cached list's gate,
`SelectionOfTheDay` of the Run Viewer, `TruckIsSpotted` of the mapping.

The five violations, as the code behaves:

* *Voided jobs go live.* `handleDispatch` sends every run with a status above 0,
  and the void run has status 1. Void a job, reload, Send to Live.
  `cockpit/CockpitPage.tsx:753` and the title at `cockpit/RunList.tsx:321` say
  the void run is not dispatched.
* *A job in no pane.* Void a job, press Remove on its row of the void run (or
  delete the void run). It has no run and is still void; the jobs list hides void
  jobs. Nothing in the page shows it again.
* *Silent overwrite.* Two calls of `POST /assign` read the link row, both find
  the job on the run they name, and both MERGE. The doc of `UpdateJobToRunAsync`
  says the check prevents this. The current page sends batches through
  `assign-many`, whose serializable transaction does prevent it (`races`); the
  single endpoint remains in the API.
* *A draft that is not what is drawn.* The effect that draws a draft's handles
  depends on ring and vertex counts; undoing a moved vertex changes neither, so
  the map keeps the moved shape and Finish drawing saves the other.
* *A direct schedule with linehauls.* The Route tab sends linehauls only when they
  were changed, and the server's check of a direct origin looks at the ones sent.

Bounds, and why they are enough:

* Two jobs in the table runs, since the handlers treat the jobs of a batch alike
  and no property relates three; one job in the page runs of the cockpit, where
  the question is about one job and a page of any age. Both have the single
  assign. Two runs give a source and
  a target, either of which may be the void run; `races_steal` needs the run seen
  and two targets. `cockpit_moves` takes three, so that the run a job was seen on,
  the one it is on and the one it goes to may all differ; `Bounded` of `MCCockpit`
  keeps sending to states with one run, and status and name changes to those with
  two at most.
* `MaxRuns` (`MaxRows` for link rows) bounds the ids given out. Handlers stop
  creating there, so ids are not used again, as an identity column promises.
* One day: days only partition jobs and void runs, and of the code here a second
  adds an un-void sent with the date of another day, a step that finds no void
  run. The proofs hold for any set of days.
* `Statuses` 0 and 1 are draft and locked; 2 stands for the two that handlers
  write beside them (prebook 2, preassign 18), and is there where those handlers
  are to be reached.
* `Names` is one ordinary name. A run renamed away from "Void Jobs" is reached by
  it, a run a client names "Void Jobs" is not; the proofs allow any names.
* `Pins` has the start flag in `builder_board` and none elsewhere: the flags
  travel with the link row and nothing else reads them.
* `races`: two clients, as a third adds no new pair of statements to interleave.
  Every kind of request with one job, and, with two jobs, assign, remove and send
  only. With single moves and plain deletes `TablesAgree` asks for one link row
  only, because with them the code does not keep the rest
  (hazard `RunService.cs:700`): the MERGE and the UPDATE commit one by one, and a
  delete reads links before jobs without a transaction.
* `driver_shifts` (`Bounded` of `MCDriverScheduling`): two schedules, two slots
  for clashes and copies, two couriers of whom the slot's vehicle type fits one,
  two days of two ticks; the clock stays in the first day, one answer once the
  second day is in use.
* `list_cache`: three requests, so that a reader, a patch and a drop meet at the
  gate, two rows, each saved once.
* `pages` (`MCPages`): each page with its own constants and its part of `Bounded`,
  which names the detours (another date, filter, tab, dialog) that are taken one
  at a time; two or three records, two dates, two calls or writes. In
  `PolygonBuilder` two calls (`MaxCalls`) are out at once only if both create the
  draft, and `MaxDrawings` is how many drawings may have left something, so that one
  may be drawn over another. The page's own
  counters (`MaxEdits`, `MaxWrites`, `MaxSlCalls`, ...) are bounds in guards.
* `import_steps` (`MCImportSteps`): for the mapping, a New Zealand client with
  trucks and a file whose columns name a truck speed, a total weight and a blank
  suburb, a US client and a file of its own, one template. `CmByHand` and `CmTried`
  are the columns chosen by hand and the options switched: those that let trucks in
  and out and move Weight and Speed; the other fields behave alike. For the
  corrections, two files of a New Zealand client, an alias and a name that is not
  listed among their rows, so that a row number stands for two rows, and a US
  client.
* `CmPatient` and `FxPatient` say that the operator waits for the replies that
  are not cancelled (uploads, the check of references, a deletion, the details of a
  place). `FxReliable` says that the reference list does arrive. Without the former
  a late reply writes into the wizard of another client or file, without the latter
  no name is normalised; the hazards say so, and the theorems name these
  assumptions.

Deadlock is checked wherever some request is always possible. It is off in
`pages`, where a page stops when its bound of calls is used up, in `list_cache`,
where all requests end, and in the runs that end in a violation.

Fairness is assumed in `TenantCache` only: `WF` of a thread that is under way,
since request threads run on whatever others do, and of `Expire`, since the entry
has an absolute expiry. Elsewhere requests come from people, a failed call ends
its request, and nothing retries.

## 4. Proofs

TLAPS proves the theorems below for all values of the constants, from the named
assumptions of the modules: ids are positive numbers or sets of any kind, bounds
are natural numbers, values such as `Nil` or `Absent` that stand for null are none
of the data, and what the proofs count is finite (`FiniteAssumption` of
`DriverScheduling`, `Rows`, `SlIds`, `ScJobs`). None of them limits sizes: the
bounds in the guards are constants as well. `THEOREM`s are the results, `LEMMA`s
the facts and steps they rest on; a step lemma has the name of its action.

| module | theorems |
|---|---|
| `CockpitProofs` | of the tables `Typing`, `AtMostOneLink`, `CopiesAgree`, `BoardRefinement`, `NoOrphans`; all three in `TablesTell`; of the page over them `PageIsAClient`, `PageKeepsCopies`, `PageOnTheBoard`, `PageTyping`, `TakeoverSeen` |
| `RequestProofs` | `RacesTypes`, `OneRow`, `CopiesAgree`, `OnLiveRun`, all three in `TablesTold`; `RacesOnTheBoard`; of the cached list `GateQueue`, `OneInside`, `PatchKept` |
| `DriverSchedulingProofs` | `ShiftTypes`, `NeverTwice`, `PlacesHeld`, `AnsweredStay`, `OnlyFreePlaces` |
| `ImportProofs` | `RowsLandOnce`, `TallyTells`, `SummaryTells`; `BatchesWholeBelowTop`; types: `ImportListTypesHold`, `ArchiveTypesHold`, `WizTypesHold` |
| `ImportStepsProofs` | of the corrections `RepliesPinTheirs`, `FixedStays`, `AliasesTold`, `FixTypesHold`; of the mapping `WeightApart`, `TruckSpotted`, `ColumnsKept`, `ColumnTypesHold`; of both `StepsKeepApart`, `StepsTypesHold` |
| `ViewerProofs` | `BulkOfShown`, `SelectedOfTheDay`; `GridKept`; `ShapesApart`, `NothingLeft`; types: `PolygonTypesHold`, `ScanTypesHold`, `ViewTypesHold` |
| `EditorProofs` | `MapTells`; `RoutesFit`; `UntouchedStays`; `ListRests`; `ChainKeepsShape`, `UntouchedChainStays`; types: `MapTypesHold`, `ChainTypesHold`, `ModalTypesHold`, `RouteTypesHold`, `ListTypesHold` |
| `PagesProofs` | of Build Runs `PlansFit`, `RunsFit`, `BuildTypes`; of the shift page `PageOfItsDate`, `ShiftTypesHold`; `BundleTypesHold`, `StaffTypesHold`; of the application `PagesStayApart`, `PagesTypesHold`, `PagesKeepLaws`, `CarefulImports`, `ArchivedBatches` |

The arguments, by their inductive invariants:

* **RunBuilder**: `Inv == TypeOK /\ Agree(job, link)`, where `Agree` says of every
  job that it has at most one link row and, if it is not done, that the row's run
  is its `BulkRunID`. Neither half is inductive alone: that a batch leaves one row
  needs one row before, and that a release clears both copies needs both to name
  the released run, since it finds jobs by their links and clears them by their
  own `BulkRunID`. One lemma per row operation, one step per request.
  Each request maps to `Place`, `Release`, `Close`, `Send` or a stutter of the
  board, and the single assign, which does not test that its run exists
  (`RunService.cs:678-717`), to `Place` or `Strand`. `NoOrphans` assumes
  `LegacyAssign = FALSE`: with it a job can be put on a run that is gone, and only
  the page's no longer calling it keeps that from happening. No run checks that
  invariant by itself: the theorem has taken its place.
* **Cockpit**: `CockpitInv == Inv /\ GivenOut /\ PageInv`. A run id is given out
  once, and what the feeds hold was once in the tables; so whatever a page asks
  from an old copy is a request of `RunBuilder` (`PageIsAClient`), and everything
  proved of the tables holds behind the page (`PageKeepsCopies`,
  `PageOnTheBoard`). `NoSilentTakeover` is an action
  property over the same invariant: the request carries the run of the job list, and
  the server compares it with the link row.
* **RunRaces**: besides the properties, what a request remembers must stay true
  until its save. `RemovalsKnow`: the row that a removal found is of its job for
  good and its id is not given out again. `NullMeansGone`: a removal that read a
  job without a run found its link row gone, or the job sent; without it the save
  could clear one copy only. `RacesOnTheBoard` maps each commit to one board step
  from the same invariant: that a merge releases whatever else is on its source
  rests on `PlacedOnLiveRun` after the step. It says nothing of single moves and
  deletes of a run, which the code does not protect.
* **DriverScheduling**: the safety properties together are inductive, no one of
  them alone: a status turned back to Available must find its slot given up
  already, and the windows of answered schedules must no longer change. The rest
  is arithmetic on ticks (`DayAndTime`, `MulLe`): a copied window stays in its
  day, and schedules of different days share no instant.
  `OnlyFreePlaces` counts with the library's facts on finite sets.
* **TenantCache**: who is inside the gate is first in its queue (`InsideHolds`);
  a list on its way into the cache has every row that was patched
  (`HeldHasPatches`), for which nothing may be ahead of what is stored
  (`NotAhead`).
* **Imports**: the wizard's `WizInv` files every landed row under a completed
  depot, accounts for every other row of a completed one in the tally, and says
  that the render that a reply decides by still agrees with the wizard in what
  counts (`ClosureIsCurrent`): all but the failed rows, which lack in it those just
  unticked. So `SummaryTells` follows: at a summary every ticked depot is completed and
  its rows accounted for, and when the wizard closes the tally has no failure, nothing
  came back, and the only failed rows are those that the closure lacks. `WizInv` holds under `Careful`, an operator who
  abandons neither a call under way nor a started import; without that the code
  does import rows twice. The archive's ranges are apart from each other and from
  the rows inserted, under `BelowTop`, that no range reaches the largest 32-bit
  id: `BatchesWholeBelowTop` has it as a hypothesis, since the code has no check.
* **Corrections**: `FxInv` says of an operator who waits that a geocode call holds
  the wizard as it still is: whatever changes it also leaves the step, which cancels
  the call (`FxLive`), or waits for it. So the pins that a reply finds free are
  free. For `AliasesTold` the invariant follows the entries of alias keys
  (`FxSpelt`): at any time each is empty or holds the suburb, and from the arrival
  of the list on, none that a row of the sheet has is empty, so a geocode reply
  writes none either. A list of another tenant that is still in the modal could
  write a third name; that needs a US zip code that reads as an alias, which
  `FxZipsApart` excludes.
* **Columns**: `TruckWeightApart`, `TruckIsSpotted` and all of `MappedStays` but the
  deletion are about one render and hold for any operator: the effects are read off
  case by case, each from the mapping of the render. The deletion of one who waits
  puts back the mapping that is there. That a match is a column of the file
  (`CmMatchType`, on which `CmTypeOK` rests) needs none of the arithmetic that ranks
  the claims: every claim is on a free column, and the best one, if there is one, is
  a claim.
* **Viewers**: what a bulk action has left was shown when it was chosen; all runs
  listed and selected are of the date; what is cached under a key of the scan grid
  is of that key, and the rank of a row among the rows found gives the page with
  rows that the pager keeps. In the polygon page every copy of a shape, stored,
  listed, drawn, on the undo stack or in a call, is of the polygon it is filed
  under, or of a drawing if it is filed under the draft (`PolyInv`); and once the
  draft is gone its snapshots are, since each way to lose it filters the stack and
  nothing but an edit of a draft pushes one.
* **Editors**: the map is blank before it is ready and tells the form that it
  rendered. A stored route has an origin exactly when it is final-mile, for which
  every call under way must carry one if it asks for the final mile, and the form
  and its dialogs are followed for that. For the detail modal types are enough:
  that a save leaves what was not touched follows from the form's seed. For the
  list, `Rested`: once no call is unsettled, every cached answer is marked stale, is
  one of the exceptions that the property names, or is what the server has; with
  calls under way nothing is claimed, as a flip is shown before it is stored. For the chain, `Shapely` strengthens
  `ChainShape`: a depot leg for the client's address is the first of its kind by
  comparing places, not by a search for it, so that inserting, removing and moving
  legs are all one lemma about rearranged sequences (`Rearranged`); saved columns
  open as such a chain again (`SeedsOf`), which also gives `UntouchedChainStays`.
* **Build Runs**: the split of a bucket's order is a recursive function whose turns
  take from the order what still fits. `SplitCuts` is an induction over those turns
  (`UpTo`: the least turn at which the fact fails, which the library's
  well-foundedness of the naturals gives without an operator as a parameter): after
  each, the runs made so far cut the order up to where the current one starts, and
  each fits, or is one job, and would not have fitted one job more. `BdInv` says
  that every plan that waits was made by the split, so `RunsFit` follows. On the
  shift page a dialog is about a record of the date shown, and a call keeps its
  date.
* **Types**: of each page, the type invariant as an inductive one needs more than
  it says: that the values of a call, of a snapshot or of a closed form are those
  of a record there was, that a queue has no key twice, that what is counted is
  finite. `PbTypeOK` once allowed the undo stack one call beyond its limit, which
  holds for one call at a time only; the proof found it, and the bound now grows
  with the undo calls that are out.
* **The application**: a step of `Pages` is a step of the page mounted and leaves
  the variables of the others as they were, hence a step or a stutter of each page
  (`OnePageSteps`); mounting changes none. So `PagesSpec` implements the
  specification of every page (`PagesStayApart`), and what was proved of a page
  alone holds in the application, in one theorem for the types, one for what the
  pages keep whoever uses them, and one each for what needs a careful operator or
  ids below the top.

Only model-checked:

* `CallsAreAnswered` and `ListSettles`, which are liveness under fairness.
* what a recursive computation returns for given data, which TLC evaluates on the
  data of the instances: which column a field is matched with, the words of a name.

Every property of the passing runs but the two of liveness is stated by a theorem.

## 5. Not modelled, and the plan

Left out of the modelled parts: the order of jobs in a run, couriers, money,
routing modes, the optimiser's minimum of two stops, multibox families (a request
names the whole expanded set), the database's foreign keys and procedures.
Components without a module, with the reasons, are in `PROJECT.json`: the tenant
connection cache, the route viewer's services (mostly stored procedures),
recurring linehaul, pricing, partner scope, routing and lookups.

Seen while modelling, with no run of its own:

* Column mapping: a template with Weight on "Total Weight", chosen while truck jobs
  are in play, leaves the total as the weight per pallet. The effect that lets
  Weight go (`MapColumnsModal.tsx:158`) ran when they came into play and does not
  run again, although `wizardState.ts:940-942` says of such templates that it does.
* Fix addresses: pins are kept by row number and outlive a second upload. A row of
  the new file whose address is found gets no pin where the old file's row of that
  number had one (`FixAddressesModal.tsx:127`), although the comment at `:114-117`
  has every row that was found written back.
* Fix names: only the first row of a lower-cased key is looked at
  (`FixZipCodesModal.tsx:153`). When it is spelled as in the list, nothing is stored
  for the key, and the rows below it in another case are sent as they are, against
  the comment at `:127-130`.
* Map columns: Next waits for the check of references (`MapColumnsModal.tsx:227`)
  between its test of the required fields (`:213`) and leaving the step (`:228`), and
  only Next itself is disabled meanwhile (`:251`). A required field unmapped then is
  missing past the step, against `:178-187`.
* Import wizard: rows unticked in a km-rated review count as failed, and both
  `KmRatedReviewModal.tsx:26-31` (with `:164-168`) and `wizardState.ts:139` promise them
  on the summary. If the review is of the last depot and goes through with no other
  failure, `advanceOrFinish` (`NewImportWizard.tsx:259`) reads the list of the render
  before them, and the wizard closes with its toast; no summary names them.
* Cockpit: a merge takes a run's jobs from the run list and sends as `fromRunId` what
  the job list has for them (`cockpit/CockpitPage.tsx:1474, 1483-1489`). The job list has no
  void jobs, so those of a merged void run go with null, which the server does not
  check: one that was moved since is taken off its new run.
* Polygons: a draft drawn over another has the same id and keeps the other's
  snapshots, so an undo puts the other's shape in its place, against the comments at
  `PolygonBuilder.tsx:1555` and `:2574`. Cancel of the save dialog forgets that a save is
  under way (`:3176`, `:3229`): the draft can be created twice, and the first answer
  drops whatever is drawn by then.
* Schedules list: `invalidateQueries` does not start again the first fetch of a page or
  filter just chosen; what it read before the call is shown until the next fetch.
* Archive: a reply that is lost leaves Import on, and a second press commits the
  file again; the drill-down does not cancel older requests.
* Build Runs uses the jobs and the configuration of the render that opened its
  dialog; the end of a build clears ticks made meanwhile; HERE's order drops jobs
  without coordinates.
* Import list: pre-bookings are listed as "ondemand", so deleting pre-booking N
  asks for live job N (`S/BulkImport/BulkImportServiceV2.cs`), and pre-booking N and
  live job N have one key (`BulkImport.tsx:642`): a tick made on the one stays for the
  other when the list changes (`:172-183`), and Delete Selected takes both, against the
  comment at `:52`.
* Staff import: a reply that arrives after the modal was closed and opened again
  lands in the next import.
* Recurring routes: Pause and Resume send no direction, and the server makes the
  route first-mile; a save that is answered late closes whichever editor is open;
  a copy drops the polygons.
* Driver scheduling page: changing only Wanted of a slot succeeds and stores
  nothing; a submitting dialog can be closed, and its answer closes the next one.
* Cockpit: two voids of one job add two link rows, on which the runs feed throws.

Next, in this order:

1. `VoidRaces`: void, un-void, date moves and field edits split at their awaits,
   at read committed and with whole-row writes; composes with `RunRaces`.
2. `ConnectionCache`: two cache levels, the semaphore and the retry loop; after a
   set no reader serves an older string for good.
3. `RouteViewerAssignment`: families of live jobs, assign and un-assign.
4. The pages still missing: linehaul viewer, zone groups, the cockpit's other
   panes; the occurrence and cut-off algorithms of schedules as functions against
   reference definitions.
5. Deeper properties of `StaffImport` and `ScheduleBundles`, and runs for the
   bundle that leaves a schedule without clients and for the keys of the import list.
