------------------------------- MODULE RouteViewer -------------------------------
(***************************************************************************)
(* The Run Viewer page (RunViewer.tsx): its run list, the jobs grid of the *)
(* selected run, the context menus with their dialogs and bulk actions,    *)
(* and drag and drop, over the server's jobs, which other operators change *)
(* too.  A bulk action goes on after its menu is gone, one call per job.   *)
(*                                                                         *)
(* A job row has two ids: jobId of tucJob and bulkJobId of tblBulkJob, 0   *)
(* for a row of a recurring route.  Clients, speeds, layout, sort order,   *)
(* prints and the boxes that only read are left out.                       *)
(***************************************************************************)
EXTENDS Integers, Sequences, FiniteSets, SequencesExt

CONSTANTS
  RvJobs,    \* jobs
  RvRuns,    \* runs: a sequence, in the order of the list
  RunDay,    \* date of each run
  RvDays,    \* dates (and regions) of the filter bar
  BulkIdOf,  \* bulkJobId of each job
  LegOf,     \* "LHP", "pickup" or "delivery"
  Linked,    \* jobs that a ?jobNumber= link may name
  MaxLoops   \* bound: bulk actions under way

ASSUME RvAssumption ==
  /\ RvRuns \in Seq(Nat \ {0}) /\ RvRuns # << >>
  /\ \A r \in ToSet(RvRuns) : RunDay[r] \in RvDays
  /\ \A j \in RvJobs : BulkIdOf[j] \in Nat

Views == {"Combined", "Inbound", "Outbound"}

Statuses == {"N", "D", "V"}

\* No run: a job in the run builder, no anchor; and no row.
Nowhere == 0

RunIds == ToSet(RvRuns)

Gone == "gone"

NoDrag == [from |-> Nowhere, jobs |-> {}]

NoLoop == [todo |-> {}, shown |-> {}]

VARIABLES
  onRun,  \* server: the run of each job
  status, \* server: its status
  page,   \* the page's state
  drag,   \* the drag payload
  loops   \* bulk actions under way: jobs left, and the rows shown at the click

rvVars == <<onRun, status, page, drag, loops>>

\* filters.runDate, viewMode, rjShowCancelled, the runs query (listed in the order of
\* RvRuns), the run-jobs query by its
\* key, selectedRunIds, selectedJobId(s), runAnchorRef, the menu on the screen, the job of
\* the address, and whether a link was followed.
NewPage(link) ==
  [day |-> CHOOSE d \in RvDays : TRUE, view |-> "Combined", cancelled |-> FALSE, runs |-> {},
   rows |-> [j \in RvJobs |-> Gone], selRuns |-> {}, selJobs |-> {}, anchor |-> Nowhere,
   menu |-> "none", menuRun |-> Nowhere, ids |-> {}, link |-> link, linked |-> FALSE]

RvInit ==
  /\ onRun = [j \in RvJobs |-> Head(RvRuns)]
  /\ status = [j \in RvJobs |-> "N"]
  /\ \E link \in SUBSET Linked : Cardinality(link) <= 1 /\ page = NewPage(link)
  /\ drag = NoDrag
  /\ loops = [l \in 1..MaxLoops |-> NoLoop]

-------------------------------------------------------------------------------
(* What is on the screen                                                   *)

\* matchesViewMode.
MatchesView(j, view) ==
  \/ view = "Combined"
  \/ view = "Inbound" /\ LegOf[j] = "LHP"
  \/ view = "Outbound" /\ LegOf[j] = "delivery"

\* runJobs: the rows fetched, less the cancelled ones and those of the other direction.
RowsShown(p) ==
  {j \in RvJobs : /\ p.rows[j] # Gone
                  /\ p.rows[j] = "V" => p.cancelled
                  /\ MatchesView(j, p.view)}

SingleRun(p) == IF Cardinality(p.selRuns) = 1 THEN CHOOSE r \in p.selRuns : TRUE ELSE Nowhere

\* Mutant of MenuJobs: every selected job, whether it is still in the grid or not.
MenuAllSelected(p) == p.selJobs

\* The jobs prop of RvJobContextMenu, at every render.
MenuJobs(p) == RowsShown(p) \cap p.selJobs

JobMenu(p) == p.menu \in {"jobs", "assignJobs", "transferJobs", "moveBack"} /\ p.selJobs # {}

\* The menu renders jobs[0]: with no job left the render throws and the page is gone.
Crashed == JobMenu(page) /\ MenuJobs(page) = {}

\* A click reaches the grids only when neither a menu nor a dialog is open, since a press
\* beside a menu closes it first.
Free == ~Crashed /\ (page.menu = "none" \/ (page.selJobs = {} /\ page.menu = "jobs"))

Shows(p) == page' = p /\ UNCHANGED <<onRun, status, drag, loops>>

\* A change of the query key shows no rows until the answer; the older rows react-query may still
\* have cached for a key that was looked at before are left out.
Keyed(p) == [p EXCEPT !.rows = [j \in RvJobs |-> Gone]]

-------------------------------------------------------------------------------
(* Queries                                                                 *)

\* The runs query answers: the poll of 25 s, a refresh, a change of date.
FetchRuns ==
  /\ ~Crashed
  /\ Shows([page EXCEPT !.runs = {r \in RunIds : RunDay[r] = page.day}])

\* The run-jobs query of the single selected run answers.
FetchRunJobs ==
  /\ ~Crashed
  /\ SingleRun(page) # Nowhere
  /\ Shows([page EXCEPT !.rows =
       [j \in RvJobs |-> IF onRun[j] = SingleRun(page) THEN status[j] ELSE Gone]])

\* The ?jobNumber= lookup answers: the job's run is selected, whatever the filters say now.
LinkAnswers(j) ==
  /\ ~Crashed
  /\ j \in page.link
  /\ LET p == [page EXCEPT !.link = {}, !.linked = TRUE]
     IN  Shows(IF onRun[j] # Nowhere THEN Keyed([p EXCEPT !.selRuns = {onRun[j]}]) ELSE p)

-------------------------------------------------------------------------------
(* Selection                                                               *)

\* The effect on filterIdentity.
Unselected(p) == Keyed([p EXCEPT !.selRuns = {}, !.selJobs = {}, !.anchor = Nowhere])

ChangeDay(d) ==
  /\ Free /\ d # page.day
  /\ Shows(Unselected([page EXCEPT !.day = d, !.runs = {}]))

\* viewMode is part of both query keys; selection stays.
ChangeView(v) ==
  /\ Free /\ v # page.view
  /\ Shows(Keyed([page EXCEPT !.view = v, !.runs = {}]))

ToggleCancelled == Free /\ Shows([page EXCEPT !.cancelled = ~@])

Position(r) == CHOOSE i \in DOMAIN RvRuns : RvRuns[i] = r

\* Shift: the runs from the anchor to r in the list of the moment, if both are in it.
RangeTo(r) ==
  IF page.anchor \in page.runs
  THEN LET a == Position(page.anchor)
           b == Position(r)
       IN  {s \in page.runs : \/ a <= Position(s) /\ Position(s) <= b
                              \/ b <= Position(s) /\ Position(s) <= a}
  ELSE page.selRuns

\* onSelectRun and the arrow keys.
SelectRun(r, key) ==
  LET shift == key = "shift" /\ page.anchor # Nowhere
      runs == IF shift THEN RangeTo(r)
              ELSE IF key = "ctrl"
              THEN IF r \in page.selRuns THEN page.selRuns \ {r} ELSE page.selRuns \cup {r}
              ELSE {r}
      p == [page EXCEPT !.selRuns = runs, !.selJobs = {}, !.anchor = IF shift THEN @ ELSE r]
  IN  /\ Free
      /\ r \in page.runs
      /\ Shows(IF SingleRun(p) = SingleRun(page) THEN p ELSE Keyed(p))

\* onSelectJob.
SelectJob(j, key) ==
  /\ Free
  /\ j \in RowsShown(page)
  /\ Shows([page EXCEPT !.selJobs = IF key # "ctrl" THEN {j}
                                    ELSE IF j \in @ THEN @ \ {j} ELSE @ \cup {j}])

\* onContextMenu: the run's menu; a run outside the selection replaces it, the jobs stay.
OpenRunMenu(r) ==
  /\ Free
  /\ r \in page.runs
  /\ LET p == [page EXCEPT !.menu = "run", !.menuRun = r,
                           !.selRuns = IF r \in @ THEN @ ELSE {r}]
     IN  Shows(IF SingleRun(p) = SingleRun(page) THEN p ELSE Keyed(p))

\* onJobContextMenu.
OpenJobMenu(j) ==
  /\ Free
  /\ j \in RowsShown(page)
  /\ Shows([page EXCEPT !.menu = "jobs", !.selJobs = IF j \in @ THEN @ ELSE {j}])

Closed(p) == [p EXCEPT !.menu = "none", !.menuRun = Nowhere, !.ids = {}]

CloseMenu == page.menu # "none" /\ ~Crashed /\ Shows(Closed(page))

Reload == Crashed /\ Shows(NewPage({}))

-------------------------------------------------------------------------------
(* The menus' dialogs.  The server takes jobs by jobId or by bulkJobId.    *)

WithBulkId(jobs) == {j \in jobs : BulkIdOf[j] > 0}

PutOn(jobs, r) == onRun' = [j \in RvJobs |-> IF j \in jobs THEN r ELSE onRun[j]]

\* Transfer Route and Assign need one job; Move back takes several.
OpenDialog(d) ==
  /\ ~Crashed /\ page.menu = "jobs"
  /\ d # "moveBack" => Cardinality(MenuJobs(page)) = 1
  /\ Shows([page EXCEPT !.menu = d])

\* doTransfer of the job menu, with the jobs of the moment.
TransferJobs(r) ==
  /\ ~Crashed /\ page.menu = "transferJobs"
  /\ PutOn(MenuJobs(page), r)
  /\ page' = Closed(page)
  /\ UNCHANGED <<status, drag, loops>>

\* submit of MoveBackToRunBuilderDialog: copies, and the originals are voided unless kept.
MoveBack(keep) ==
  /\ ~Crashed /\ page.menu = "moveBack"
  /\ WithBulkId(MenuJobs(page)) # {}
  /\ LET moved == WithBulkId(MenuJobs(page))
     IN  status' = [j \in RvJobs |-> IF j \in moved /\ ~keep THEN "V" ELSE status[j]]
  /\ page' = Closed(page)
  /\ UNCHANGED <<onRun, drag, loops>>

\* doAssign of the run menu fetches the run's jobs, whatever is in the grid, and keeps
\* the ids that match the view; the menu closes on nothing to assign.
FetchAssignIds ==
  /\ ~Crashed /\ page.menu = "run"
  /\ LET ids == {j \in RvJobs : onRun[j] = page.menuRun /\ MatchesView(j, page.view)}
     IN  ids # {} /\ Shows([page EXCEPT !.menu = "assignRun", !.ids = ids])

\* assignRoute from either menu; a job may fail.
AssignJobs(failed) ==
  /\ ~Crashed /\ page.menu \in {"assignRun", "assignJobs"}
  /\ LET jobs == IF page.menu = "assignRun" THEN page.ids ELSE MenuJobs(page)
     IN  /\ failed \subseteq jobs /\ failed # jobs
         /\ status' = [j \in RvJobs |-> IF j \in jobs \ failed THEN "D" ELSE status[j]]
  /\ page' = Closed(page)
  /\ UNCHANGED <<onRun, drag, loops>>

\* doVoid: one call with the bulk ids.
VoidMenuJobs ==
  /\ ~Crashed /\ page.menu = "jobs"
  /\ status' = [j \in RvJobs |-> IF j \in WithBulkId(MenuJobs(page)) THEN "V" ELSE status[j]]
  /\ page' = Closed(page)
  /\ UNCHANGED <<onRun, drag, loops>>

-------------------------------------------------------------------------------
(* Bulk actions: useSequentialBulkAction                                   *)

\* bulkRun and its kin: the menu closes, and after the confirmation the jobs of the click
\* are called for one after the other.  The running flag is gone with the menu.
StartBulk(l) ==
  /\ ~Crashed /\ page.menu = "jobs"
  /\ loops[l] = NoLoop
  /\ loops' = [loops EXCEPT ![l] = [todo |-> MenuJobs(page), shown |-> RowsShown(page)]]
  /\ page' = Closed(page)
  /\ UNCHANGED <<onRun, status, drag>>

\* One call, which may fail; the loop goes on either way.
CallNext(l, j, ok) ==
  /\ j \in loops[l].todo
  /\ status' = IF ok THEN [status EXCEPT ![j] = "D"] ELSE status
  /\ loops' = [loops EXCEPT ![l] = IF @.todo = {j} THEN NoLoop
                                ELSE [todo |-> @.todo \ {j}, shown |-> @.shown]]
  /\ UNCHANGED <<onRun, page, drag>>

-------------------------------------------------------------------------------
(* Drag and drop                                                           *)

\* onDragStart on a row with a bulk row: with the rest of the selection if it is part of it.
DragStart(j) ==
  /\ Free
  /\ j \in WithBulkId(RowsShown(page))
  /\ drag' = [from |-> SingleRun(page),
              jobs |-> IF j \in page.selJobs THEN WithBulkId(MenuJobs(page)) ELSE {j}]
  /\ UNCHANGED <<onRun, status, page, loops>>

\* onDropRunJobs.  The payload carries bulk ids; that the server reads them as jobIds is
\* left out here.
Drop(r) ==
  /\ drag # NoDrag
  /\ r \in page.runs
  /\ IF r = drag.from THEN UNCHANGED onRun ELSE PutOn(drag.jobs, r)
  /\ drag' = NoDrag
  /\ UNCHANGED <<status, page, loops>>

\* Another operator, or the jobs' own progress.
Elsewhere(j) ==
  /\ \/ \E r \in RunIds : onRun' = [onRun EXCEPT ![j] = r] /\ UNCHANGED status
     \/ \E s \in Statuses : status' = [status EXCEPT ![j] = s] /\ UNCHANGED onRun
  /\ UNCHANGED <<page, drag, loops>>

-------------------------------------------------------------------------------
Select ==
  \/ \E d \in RvDays : ChangeDay(d)
  \/ \E v \in Views : ChangeView(v)
  \/ ToggleCancelled
  \/ \E r \in RunIds, key \in {"none", "ctrl", "shift"} : SelectRun(r, key)
  \/ \E j \in RvJobs, key \in {"none", "ctrl"} : SelectJob(j, key)
  \/ \E r \in RunIds : OpenRunMenu(r)
  \/ \E j \in RvJobs : OpenJobMenu(j) \/ DragStart(j)
  \/ CloseMenu \/ Reload

Act ==
  \/ \E d \in {"assignJobs", "transferJobs", "moveBack"} : OpenDialog(d)
  \/ \E r \in RunIds : TransferJobs(r) \/ Drop(r)
  \/ \E keep \in BOOLEAN : MoveBack(keep)
  \/ FetchAssignIds
  \/ \E failed \in SUBSET RvJobs : AssignJobs(failed)
  \/ VoidMenuJobs
  \/ \E l \in 1..MaxLoops : StartBulk(l)

RvNext ==
  \/ FetchRuns \/ FetchRunJobs \/ \E j \in RvJobs : LinkAnswers(j)
  \/ Select \/ Act
  \/ \E l \in 1..MaxLoops, j \in RvJobs, ok \in BOOLEAN : CallNext(l, j, ok)
  \/ \E j \in RvJobs : Elsewhere(j)

RvSpec == RvInit /\ [][RvNext]_rvVars

-------------------------------------------------------------------------------
(* Properties                                                              *)

\* Types; and rows are fetched for one run only, jobs are selected and dragged with ids
\* the page has shown.
RvTypeOK ==
  /\ onRun \in [RvJobs -> RunIds]
  /\ status \in [RvJobs -> Statuses]
  /\ page.selRuns \subseteq RunIds /\ page.selJobs \subseteq RvJobs
  /\ page.rows \in [RvJobs -> Statuses \cup {Gone}]
  /\ SingleRun(page) = Nowhere => RowsShown(page) = {}
  /\ \A l \in 1..MaxLoops : loops[l].todo \subseteq RvJobs

\* However long a selection outlives its rows (another run, another view, a poll that took
\* them away), a bulk action calls only for jobs that were in the grid when it was chosen.
ActsOnShown == \A l \in 1..MaxLoops : loops[l].todo \subseteq loops[l].shown

\* Run ids are scoped by date: no run of another date stays selected or anchored after a
\* change of the date, until a link puts one there.
SelectionOfTheDay ==
  ~page.linked =>
    /\ \A r \in page.selRuns : RunDay[r] = page.day
    /\ page.anchor # Nowhere => RunDay[page.anchor] = page.day

===============================================================================
