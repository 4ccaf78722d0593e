------------------------------ MODULE RunBuilder ------------------------------
(***************************************************************************)
(* The server side of the Route Builder: the three tables tblBulkJob,      *)
(* tblBulkJobRun and tblBulkRun, and the handlers of RunService,           *)
(* VoidJobService, JobService.BulkUpdateRouteDateAsync and                 *)
(* RunCommitService, each as one step.  Any client may send any request    *)
(* that names existing jobs.  A request that the code refuses changes      *)
(* nothing and is not a step.                                              *)
(*                                                                         *)
(* A job's run is stored twice: in the link row (tblBulkJobRun.RunID) and  *)
(* denormalised in the job row (tblBulkJob.BulkRunID).  The conflict       *)
(* check and the run delete read the link; the screens read the job row.   *)
(*                                                                         *)
(* Left out: sequence numbers, couriers, money, routing mode and the       *)
(* wording of messages.  RunRaces splits the handlers at their awaits.     *)
(***************************************************************************)
EXTENDS Naturals

CONSTANTS
  Jobs,          \* rows of tblBulkJob
  MaxRuns,       \* bound: how many ids the identity column of tblBulkRun gives out
  Days,          \* booking and despatch dates
  Pins,          \* flag columns of a link row: "start" (IsStart), "end" (IsEnd)
  Statuses,      \* run statuses clients send; 0 is a draft, above 0 is locked
  Names,         \* run names clients type
  VoidJobsName,  \* the name VoidAsync looks the void run up by
  LegacyAssign   \* whether a client still calls POST /assign, as the React cockpit does not

RunIds == 1 .. MaxRuns

\* A null BulkRunID, FromRunId or DeleteRunId.
None == 0

ASSUME MaxRunsAssumption == MaxRuns \in Nat \ {0}

ASSUME StatusesAssumption == {0, 1} \subseteq Statuses /\ Statuses \subseteq Nat

ASSUME DaysAssumption == Days # {}

ASSUME LegacyAssumption == LegacyAssign \in BOOLEAN

VARIABLES
  job,      \* tblBulkJob: run (BulkRunID), void, done, day (BookDate)
  link,     \* tblBulkJobRun: for each job, the set of its link rows
  run,      \* tblBulkRun; a row that does not exist is Blank
  nextRun   \* the id the next inserted run gets

vars == <<job, link, run, nextRun>>

JobRow == [run : RunIds \cup {None}, void : BOOLEAN, done : BOOLEAN, day : Days]

LinkRow == [run : RunIds, pins : SUBSET Pins]

RunRow == [live : BOOLEAN, status : Statuses, name : Names \cup {VoidJobsName},
           isVoid : BOOLEAN, day : Days]

Blank == [live |-> FALSE, status |-> 0, name |-> VoidJobsName, isVoid |-> FALSE,
          day |-> CHOOSE d \in Days : TRUE]

LiveRuns == {r \in RunIds : run[r].live}

LinkedTo(lk, r) == {j \in Jobs : \E l \in lk[j] : l.run = r}

Init ==
  /\ job \in [Jobs -> {[run |-> None, void |-> FALSE, done |-> FALSE, day |-> d] : d \in Days}]
  /\ link = [j \in Jobs |-> {}]
  /\ run = [r \in RunIds |-> Blank]
  /\ nextRun = 1

-------------------------------------------------------------------------------
(* Row operations the handlers share, as functions of the tables.          *)

\* What FirstOrDefault picks.
First(rows) == CHOOSE l \in rows : TRUE

\* The MERGE on tblBulkJobRun, and what StageJobAssignmentsAsync stages: a job
\* without a link row gets one, every row it has is pointed at r and keeps its flags.
Bind(rows, r) ==
  IF rows = {} THEN {[run |-> r, pins |-> {}]} ELSE {[l EXCEPT !.run = r] : l \in rows}

\* The same in VoidAsync, which touches the first row only.
BindFirst(rows, r) ==
  IF rows = {} THEN {[run |-> r, pins |-> {}]}
  ELSE {IF l = First(rows) THEN [l EXCEPT !.run = r] ELSE l : l \in rows}

\* Removing the first row of a job.
DropFirst(rows) == {l \in rows : l # First(rows)}

PlaceLinks(lk, S, r) == [j \in Jobs |-> IF j \in S THEN Bind(lk[j], r) ELSE lk[j]]

PlaceJobs(jb, S, r) == [j \in Jobs |-> IF j \in S THEN [jb[j] EXCEPT !.run = r] ELSE jb[j]]

\* RemoveRunTrackedAsync: the link rows of r go, and so does the BulkRunID of the
\* jobs those rows name, where it still is r.
ReleaseLinks(lk, r) == [j \in Jobs |-> {l \in lk[j] : l.run # r}]

\* Mutant of ReleaseJobs: the release is not mirrored onto the job rows.
ReleaseJobsNot(jb, lk, r) == jb

ReleaseJobs(jb, lk, r) ==
  [j \in Jobs |-> IF j \in LinkedTo(lk, r) /\ jb[j].run = r
                  THEN [jb[j] EXCEPT !.run = None] ELSE jb[j]]

InsertedRun(s, n, v, d) == [live |-> TRUE, status |-> s, name |-> n, isVoid |-> v, day |-> d]

\* Mutant of InsertRun: the id is given out again.
InsertRunAgain(s, n, v, d) ==
  /\ nextRun \in RunIds
  /\ run' = [run EXCEPT ![nextRun] = InsertedRun(s, n, v, d)]
  /\ UNCHANGED nextRun

InsertRun(s, n, v, d) ==
  /\ nextRun \in RunIds
  /\ run' = [run EXCEPT ![nextRun] = InsertedRun(s, n, v, d)]
  /\ nextRun' = nextRun + 1

\* Mutant of Conflict: no check.
NoConflict(j, from) == FALSE

\* The optimistic check: the caller names the run it saw the job on, and the link
\* row says otherwise.
Conflict(j, from) == from # None /\ link[j] # {} /\ First(link[j]).run # from

-------------------------------------------------------------------------------
(* RunService                                                              *)

\* InsertOrUpdateRunAsync without an id.  The run is saved, then each job is merged
\* by a statement of its own: T is the jobs whose statement ran before one failed,
\* every job of the request when none did.
CreateRun(s, n, d, T) ==
  /\ InsertRun(s, n, FALSE, d)
  /\ job' = PlaceJobs(job, T, nextRun)
  /\ link' = PlaceLinks(link, T, nextRun)

\* InsertOrUpdateRunAsync with an id: the reorder, optimise and route-and-lock saves.
SaveRun(r, s, n, T) ==
  /\ r \in LiveRuns
  /\ run' = [run EXCEPT ![r].status = s, ![r].name = n]
  /\ job' = PlaceJobs(job, T, r)
  /\ link' = PlaceLinks(link, T, r)
  /\ UNCHANGED nextRun

\* UpdateRunAsync: lock, unlock, rename, courier, prebook.  The row takes whatever
\* status and name the body holds.
UpdateRun(r, s, n) ==
  /\ r \in LiveRuns
  /\ run' = [run EXCEPT ![r].status = s, ![r].name = n]
  /\ UNCHANGED <<job, link, nextRun>>

DeleteRun(r) ==
  /\ r \in LiveRuns
  /\ job' = ReleaseJobs(job, link, r)
  /\ link' = ReleaseLinks(link, r)
  /\ run' = [run EXCEPT ![r] = Blank]
  /\ UNCHANGED nextRun

\* CreateRunWithJobsAsync: run and jobs in one serializable transaction.
CreateRunWithJobs(s, n, d, S) ==
  /\ S # {}
  /\ InsertRun(s, n, FALSE, d)
  /\ job' = PlaceJobs(job, S, nextRun)
  /\ link' = PlaceLinks(link, S, nextRun)

\* AssignJobsToRunAsync, one serializable transaction: every job of S moves to r, or
\* none does.  With del it is a merge, and what is left on del after the move is
\* released before the run row goes.
AssignJobs(r, S, from, del) ==
  /\ S # {}
  /\ del # r
  /\ r \in LiveRuns
  /\ \A j \in S : ~Conflict(j, from[j])
  /\ LET moved == PlaceLinks(link, S, r)
         placed == PlaceJobs(job, S, r)
     IN  IF del \in LiveRuns
         THEN /\ job' = ReleaseJobs(placed, moved, del)
              /\ link' = ReleaseLinks(moved, del)
              /\ run' = [run EXCEPT ![del] = Blank]
         ELSE /\ job' = placed
              /\ link' = moved
              /\ UNCHANGED run
  /\ UNCHANGED nextRun

\* UpdateJobToRunAsync.  Nothing checks that run r still exists.
AssignJob(r, j, from) ==
  /\ LegacyAssign
  /\ r < nextRun
  /\ ~Conflict(j, from)
  /\ job' = PlaceJobs(job, {j}, r)
  /\ link' = PlaceLinks(link, {j}, r)
  /\ UNCHANGED <<run, nextRun>>

\* SetJobStartEndAsync: the flags in on are set on j's row and cleared on every other
\* row of the run; the flags in off are cleared on j's row.
SetJobStartEnd(r, j, on, off) ==
  /\ on \cap off = {}
  /\ j \in LinkedTo(link, r)
  /\ link' = [k \in Jobs |->
        {IF l.run # r THEN l
         ELSE [l EXCEPT !.pins = IF k = j THEN (@ \cup on) \ off ELSE @ \ on] : l \in link[k]}]
  /\ UNCHANGED <<job, run, nextRun>>

\* Mutant of RemoveJobFromRun: BulkRunID is not cleared.
RemoveLinkOnly(j) ==
  /\ link[j] # {}
  /\ link' = [link EXCEPT ![j] = DropFirst(@)]
  /\ UNCHANGED <<job, run, nextRun>>

RemoveJobFromRun(j) ==
  /\ link[j] # {}
  /\ link' = [link EXCEPT ![j] = DropFirst(@)]
  /\ job' = [job EXCEPT ![j].run = None]
  /\ UNCHANGED <<run, nextRun>>

-------------------------------------------------------------------------------
(* VoidJobService                                                          *)

VoidRunsOf(d) == {r \in LiveRuns : run[r].name = VoidJobsName /\ run[r].day = d}

\* Parking S on run v; the flags of a link row survive.
Park(S, v) ==
  /\ job' = [j \in Jobs |-> IF j \in S THEN [job[j] EXCEPT !.void = TRUE, !.run = v] ELSE job[j]]
  /\ link' = [j \in Jobs |-> IF j \in S THEN BindFirst(link[j], v) ELSE link[j]]

VoidJobs(S, d) ==
  /\ S # {}
  /\ IF VoidRunsOf(d) = {}
     THEN InsertRun(1, VoidJobsName, TRUE, d) /\ Park(S, nextRun)
     ELSE \E v \in VoidRunsOf(d) :
            /\ run' = [run EXCEPT ![v].isVoid = TRUE, ![v].status = 1]
            /\ Park(S, v)
            /\ UNCHANGED nextRun

\* No job but those of S is linked to v.
NoneRemain(v, S) == LinkedTo(link, v) \subseteq S

\* Un-voiding takes the jobs off whatever run they are on, and drops the day's void
\* run when no other job is linked to it.
UnvoidJobs(S, d) ==
  /\ S # {}
  /\ job' = [j \in Jobs |-> IF j \in S THEN [job[j] EXCEPT !.void = FALSE, !.run = None] ELSE job[j]]
  /\ link' = [j \in Jobs |-> IF j \in S THEN DropFirst(link[j]) ELSE link[j]]
  /\ IF VoidRunsOf(d) = {}
     THEN UNCHANGED run
     ELSE \E v \in VoidRunsOf(d) :
            run' = IF NoneRemain(v, S) THEN [run EXCEPT ![v] = Blank] ELSE run
  /\ UNCHANGED nextRun

-------------------------------------------------------------------------------
(* JobService and RunCommitService                                         *)

\* BulkUpdateRouteDateAsync, and UpdateJobDetailAsync of BookDate for one job.
BulkMove(S, d) ==
  /\ S # {}
  /\ job' = [j \in Jobs |-> IF j \in S THEN [job[j] EXCEPT !.day = d] ELSE job[j]]
  /\ UNCHANGED <<link, run, nextRun>>

\* One successful call of UTL_stpJob_InsertFromRunBuilder: the job is done and its link
\* rows are gone.  DispatchAsync and DispatchJobsAsync make one call per job and test
\* nothing about it; a failed call changes nothing and the loop goes on.
DispatchJob(j) ==
  /\ job' = [job EXCEPT ![j].done = TRUE]
  /\ link' = [link EXCEPT ![j] = {}]
  /\ UNCHANGED <<run, nextRun>>

-------------------------------------------------------------------------------
\* The names a client may save run r under: what is typed and, a void run being saved as it
\* came, the name VoidAsync gave it.
SavedNames(r) == Names \cup (IF run[r].isVoid THEN {VoidJobsName} ELSE {})

RunRequest ==
  \/ \E s \in Statuses, n \in Names, d \in Days, T \in SUBSET Jobs : CreateRun(s, n, d, T)
  \/ \E s \in Statuses, n \in Names, d \in Days, S \in SUBSET Jobs : CreateRunWithJobs(s, n, d, S)
  \/ \E r \in RunIds, s \in Statuses, T \in SUBSET Jobs : \E n \in SavedNames(r) : SaveRun(r, s, n, T)
  \/ \E r \in RunIds, s \in Statuses : \E n \in SavedNames(r) : UpdateRun(r, s, n)
  \/ \E r \in RunIds : DeleteRun(r)

JobRequest ==
  \/ \E r \in RunIds, S \in SUBSET Jobs, del \in RunIds \cup {None} :
        \E from \in [S -> RunIds \cup {None}] : AssignJobs(r, S, from, del)
  \/ \E r \in RunIds, j \in Jobs, from \in RunIds \cup {None} : AssignJob(r, j, from)
  \/ \E r \in RunIds, j \in Jobs, on, off \in SUBSET Pins : SetJobStartEnd(r, j, on, off)
  \/ \E j \in Jobs : RemoveJobFromRun(j)
  \/ \E S \in SUBSET Jobs, d \in Days : VoidJobs(S, d)
  \/ \E S \in SUBSET Jobs, d \in Days : UnvoidJobs(S, d)
  \/ \E S \in SUBSET Jobs, d \in Days : BulkMove(S, d)
  \/ \E j \in Jobs : DispatchJob(j)

Next == RunRequest \/ JobRequest

Spec == Init /\ [][Next]_vars

-------------------------------------------------------------------------------
(* Properties                                                              *)

\* Every row has the columns the tables give it.
TypeOK ==
  /\ job \in [Jobs -> JobRow]
  /\ link \in [Jobs -> SUBSET LinkRow]
  /\ run \in [RunIds -> RunRow]
  /\ nextRun \in 1 .. MaxRuns + 1

\* A job has at most one link row.  No unique index says so, yet every FirstOrDefault
\* over tblBulkJobRun, and the ToDictionary of GetBulkRunsAsync, relies on it.
OneLinkPerJob == \A j \in Jobs : \A a, b \in link[j] : a = b

\* For a job that has not gone live the two copies of its run agree: the run its link
\* row names, which the conflict check and the delete go by, is the BulkRunID the
\* screens show it under.
PlacementAgrees ==
  \A j \in Jobs : ~job[j].done => {l.run : l \in link[j]} = {job[j].run} \ {None}

\* A job that has not gone live never points at a run that was deleted, whichever of
\* delete, merge and un-void took the run away.
NoOrphanPlacement ==
  \A j \in Jobs : ~job[j].done /\ job[j].run # None => run[job[j].run].live

\* The three tables tell one story of a job, after every request: one link row, both copies of its
\* run equal and, but for POST /assign, which asks nothing about the run, a run that is there.
TablesAgree == OneLinkPerJob /\ PlacementAgrees /\ (LegacyAssign \/ NoOrphanPlacement)

===============================================================================
