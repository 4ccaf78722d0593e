------------------------------- MODULE Cockpit -------------------------------
(***************************************************************************)
(* One operator's Route Builder page (CockpitPage.tsx) in front of the     *)
(* RunBuilder server, while other clients may change the same tables.      *)
(*                                                                         *)
(* The page keeps the answers of GET /api/jobs and GET /api/runs and       *)
(* builds every request from that copy.  The two are read in parallel, at  *)
(* two moments with other requests in between; the reload after a request  *)
(* may fail (its catch shows a toast), so the copy can be of any age.      *)
(* LoadJobs and LoadRuns are those two moments.  A request the server      *)
(* refuses leaves tables and copy alone and is not a step.                 *)
(***************************************************************************)
EXTENDS RunBuilder

CONSTANTS
  Day,          \* the date filter of the page
  OtherClients  \* whether other clients change the tables too

ASSUME DayAssumption == Day \in Days

ASSUME OtherClientsAssumption == OtherClients \in BOOLEAN

VARIABLES
  jobList,  \* state.jobs: the BulkRunID of each listed job
  runList,  \* state.runs: status, name, isVoid and job ids of each listed run
  sending   \* the POST dispatch under way: the jobs whose SP call is still to come

pageVars == <<jobList, runList, sending>>

allVars == <<vars, pageVars>>

Listed == DOMAIN jobList

ListedRuns == DOMAIN runList

\* Nothing is listed.
EmptyList == [x \in {} |-> x]

CockpitInit ==
  /\ Init
  /\ jobList = EmptyList
  /\ runList = EmptyList
  /\ sending = {}

-------------------------------------------------------------------------------
(* What the two GETs answer                                                *)

\* GetBulkJobsAsync for a date: neither done nor void.
JobsFeed(d) == {j \in Jobs : ~job[j].done /\ ~job[j].void /\ job[j].day = d}

\* The jobs GetBulkRunsAsync lists under run r: done ones drop out, void ones do not.
RunJobs(r, d) == {j \in Jobs : ~job[j].done /\ job[j].run = r /\ job[j].day = d}

\* The runs it returns: those with a listed job, and the date's empty drafts.
RunsFeed(d) ==
  {r \in LiveRuns : RunJobs(r, d) # {} \/ (run[r].day = d /\ run[r].status = 0)}

\* displayedJobs: listed jobs with no run, or with a run that is not listed.
DisplayedJobs(d) == {j \in JobsFeed(d) : job[j].run \notin RunsFeed(d)}

LoadJobs ==
  /\ jobList' = [j \in JobsFeed(Day) |-> job[j].run]
  /\ UNCHANGED <<vars, runList, sending>>

LoadRuns ==
  /\ runList' = [r \in RunsFeed(Day) |->
        [status |-> run[r].status, name |-> run[r].name, isVoid |-> run[r].isVoid,
         jobs |-> RunJobs(r, Day)]]
  /\ UNCHANGED <<vars, jobList, sending>>

-------------------------------------------------------------------------------
(* The operator's gestures                                                 *)

\* The fromRunId of assignJobsToRun: what the job list says, null for a job not in it.
SeenOn(j) == IF j \in Listed THEN jobList[j] ELSE None

\* assignJobsToRun from the list, a drop or the map menu.
DropJobs(r, S) ==
  /\ r \in ListedRuns
  /\ S \subseteq Listed
  /\ AssignJobs(r, S, [j \in S |-> SeenOn(j)], None)
  /\ UNCHANGED pageVars

\* doMergeRun: every job listed under the source goes to an unlocked target that is
\* not a void run, and the source is deleted.
MergeRun(source, target) ==
  /\ {source, target} \subseteq ListedRuns
  /\ runList[target].status = 0 /\ ~runList[target].isVoid
  /\ LET S == runList[source].jobs
     IN  AssignJobs(target, S, [j \in S |-> SeenOn(j)], source)
  /\ UNCHANGED pageVars

\* handleRemoveJobFromRun, from a job's menu or the Remove button of a run's row.
RemoveJob(j) ==
  /\ \/ j \in Listed /\ jobList[j] # None
     \/ \E r \in ListedRuns : j \in runList[r].jobs
  /\ RemoveJobFromRun(j)
  /\ UNCHANGED pageVars

RemoveRun(r) ==
  /\ r \in ListedRuns
  /\ DeleteRun(r)
  /\ UNCHANGED pageVars

\* handleLockRun and bulkLockSelected: the copied row with another status.
LockRun(r, lock) ==
  /\ r \in ListedRuns
  /\ (runList[r].status > 0) # lock
  /\ UpdateRun(r, IF lock THEN 1 ELSE 0, runList[r].name)
  /\ UNCHANGED pageVars

\* 2, prebooked, and 18, preassigned: both lock a run, and no request here tells them apart.
Advanced == {s \in Statuses : s > 1}

\* handleAssignCourier: the copied row with another courier.  Preassign also flags a
\* run seen as a draft as preassigned.
AssignCourier(r) ==
  /\ r \in ListedRuns
  /\ ~runList[r].isVoid
  /\ \/ UpdateRun(r, runList[r].status, runList[r].name)
     \/ runList[r].status = 0 /\ \E s \in Advanced : UpdateRun(r, s, runList[r].name)
  /\ UNCHANGED pageVars

RenameRun(r, n) ==
  /\ r \in ListedRuns
  /\ UpdateRun(r, runList[r].status, n)
  /\ UNCHANGED pageVars

\* handlePrebook, one run of its loop.
PrebookRun(r) ==
  /\ r \in ListedRuns
  /\ runList[r].status = 1 /\ ~runList[r].isVoid
  /\ \E s \in Advanced : UpdateRun(r, s, runList[r].name)
  /\ UNCHANGED pageVars

\* handleReorderRunJobs and handleOptimizeRun, which with lock is "Route and Lock": the
\* listed jobs of the run, in another order.  The save may stop after the jobs of T.  A
\* void run is not reordered; its menu offers to optimise, which needs jobs of it in the
\* job list.  That optimising needs two of them is left out.
ReorderRun(r, lock) ==
  /\ r \in ListedRuns
  /\ lock => runList[r].status = 0
  /\ runList[r].isVoid => ~lock /\ runList[r].jobs \cap Listed # {}
  /\ \E T \in SUBSET runList[r].jobs :
       SaveRun(r, IF lock THEN 1 ELSE runList[r].status, runList[r].name, T)
  /\ UNCHANGED pageVars

NewRun(n) ==
  /\ CreateRun(0, n, Day, {})
  /\ UNCHANGED pageVars

\* doBuildRuns, one run of its loop, over listed jobs.
BuildRun(n, S) ==
  /\ S \subseteq Listed
  /\ \E T \in SUBSET S : CreateRun(0, n, Day, T)
  /\ UNCHANGED pageVars

\* createRunFromGroup.
RunFromGroup(n, S) ==
  /\ S \subseteq Listed
  /\ CreateRunWithJobs(0, n, Day, S)
  /\ UNCHANGED pageVars

\* voidWithIds and executeVoid: for listed jobs and for jobs of a listed run.
VoidListed(S, isVoid) ==
  /\ S \subseteq Listed \cup UNION {runList[r].jobs : r \in ListedRuns}
  /\ IF isVoid THEN VoidJobs(S, Day) ELSE UnvoidJobs(S, Day)
  /\ UNCHANGED pageVars

MoveDate(S, d) ==
  /\ S \subseteq Listed \cup UNION {runList[r].jobs : r \in ListedRuns}
  /\ BulkMove(S, d)
  /\ UNCHANGED pageVars

-------------------------------------------------------------------------------
(* Send to live                                                            *)

\* The listed runs handleDispatch counts as locked.
LockedRuns == {r \in ListedRuns : runList[r].status > 0}

\* handleDispatch sends all of them, handleBulkDispatchSelected the ticked ones.
Dispatch(R) ==
  /\ sending = {}
  /\ R # {} /\ R \subseteq LockedRuns
  /\ sending' = UNION {runList[r].jobs : r \in R}
  /\ UNCHANGED <<vars, jobList, runList>>

\* doSendSelected: listed jobs, with or without a run.
SendSelected(S) ==
  /\ sending = {}
  /\ S # {} /\ S \subseteq Listed
  /\ sending' = S
  /\ UNCHANGED <<vars, jobList, runList>>

\* One SP call of the loop; a failed one is recorded and the loop goes on.
SendNext(j) ==
  /\ j \in sending
  /\ sending' = sending \ {j}
  /\ DispatchJob(j) \/ UNCHANGED vars
  /\ UNCHANGED <<jobList, runList>>

-------------------------------------------------------------------------------
OperatorRun ==
  \/ \E r \in RunIds : RemoveRun(r) \/ AssignCourier(r) \/ PrebookRun(r)
  \/ \E r \in RunIds, lock \in BOOLEAN : LockRun(r, lock) \/ ReorderRun(r, lock)
  \/ \E r \in RunIds, n \in Names : RenameRun(r, n)
  \/ \E r, q \in RunIds : MergeRun(r, q)
  \/ \E n \in Names : NewRun(n)
  \/ \E n \in Names, S \in SUBSET Jobs : BuildRun(n, S) \/ RunFromGroup(n, S)

OperatorJob ==
  \/ \E r \in RunIds, S \in SUBSET Jobs : DropJobs(r, S)
  \/ \E j \in Jobs : RemoveJob(j)
  \/ \E S \in SUBSET Jobs, isVoid \in BOOLEAN : VoidListed(S, isVoid)
  \/ \E S \in SUBSET Jobs, d \in Days : MoveDate(S, d)
  \/ \E S \in SUBSET Jobs : SendSelected(S)
  \/ \E R \in SUBSET RunIds : Dispatch(R)
  \/ \E j \in Jobs : SendNext(j)

\* Any other client's request.
Elsewhere == OtherClients /\ Next /\ UNCHANGED pageVars

CockpitNext == LoadJobs \/ LoadRuns \/ OperatorRun \/ OperatorJob \/ Elsewhere

CockpitSpec == CockpitInit /\ [][CockpitNext]_allVars

-------------------------------------------------------------------------------
(* Properties                                                              *)

\* The rows have their columns, and the page lists jobs and runs that exist, under runs that were
\* given out.
CockpitTypeOK ==
  /\ TypeOK
  /\ Listed \subseteq Jobs
  /\ \A j \in Listed : jobList[j] \in 0 .. nextRun - 1
  /\ ListedRuns \subseteq 1 .. nextRun - 1
  /\ sending \subseteq Jobs

\* A drop or a merge takes a job off no other run than the one the job list shows it on: when another
\* operator has moved it since, the request is refused.  What the list shows unassigned goes without
\* a check, and so does a job of a merged run that the job list does not have: a void one, which only
\* the run shows, or one that only the later of the two feeds has.  Its fromRunId is null.
NoSilentTakeover ==
  [][\A r \in RunIds, j \in Jobs :
        /\ ~job[j].done
        /\ job[j].run \notin {None, r}
        /\ \/ \E S \in SUBSET Jobs : j \in S /\ DropJobs(r, S)
           \/ \E q \in RunIds : q \in ListedRuns /\ j \in runList[q].jobs /\ MergeRun(q, r)
        /\ j \in Listed /\ jobList[j] # None
        => jobList[j] = job[j].run]_allVars

\* The jobs of a void run are never in a dispatch: RunList.tsx titles the run "locked,
\* cannot be dispatched".
VoidRunNeverDispatched ==
  [][\A R \in SUBSET RunIds : Dispatch(R) => \A r \in R : ~runList[r].isVoid]_allVars

\* A job that is not done can be found on the page of its day, in the unbuilt list or
\* under a run, as RemoveRunTrackedAsync means to ensure for what it releases.
EveryLiveJobIsShown ==
  \A j \in Jobs : ~job[j].done =>
     LET d == job[j].day
     IN  j \in DisplayedJobs(d) \cup UNION {RunJobs(r, d) : r \in RunsFeed(d)}

===============================================================================
