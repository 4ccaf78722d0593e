------------------------------- MODULE RunRaces -------------------------------
(***************************************************************************)
(* The run handlers of RunService split at their awaits.  Each client has  *)
(* one request under way; between two of its database round trips any      *)
(* other client's statements may run.                                      *)
(*                                                                         *)
(*   upsert  UpdateJobToRunAsync, and one turn of the job loop of          *)
(*           InsertOrUpdateRunAsync: check, MERGE, UPDATE of the job row,  *)
(*           no transaction around them                                    *)
(*   assign  AssignJobsToRunAsync: one serializable transaction            *)
(*   remove  RemoveJobFromRunAsync: two reads, then one SaveChanges        *)
(*   delete  DeleteAsync: three reads, then one SaveChanges                *)
(*   send    one call of UTL_stpJob_InsertFromRunBuilder                   *)
(*                                                                         *)
(* A SaveChanges is atomic.  It finds the rows it deletes by primary key,  *)
(* and fails as a whole when one of them is gone.  A serializable          *)
(* transaction keeps what it read from changing until it commits; here it  *)
(* reads, and commits only if what it read is still so.  Void and un-void  *)
(* are left out.                                                           *)
(***************************************************************************)
EXTENDS Naturals

CONSTANTS
  Jobs,     \* rows of tblBulkJob
  Runs,     \* ids of tblBulkRun, all there at first
  Clients,  \* requests that can be under way at once
  MaxRows,  \* bound: how many ids the identity column of tblBulkJobRun gives out
  KindSets  \* which of the requests above may be sent in one behaviour

None == 0

ASSUME RunsAssumption == Runs \subseteq Nat \ {None}

ASSUME MaxRowsAssumption == MaxRows \in Nat

VARIABLES
  kinds,    \* the requests that the clients send, the same throughout
  jobRun,   \* tblBulkJob.BulkRunID
  sent,     \* the jobs that are done
  rows,     \* tblBulkJobRun: id, job, run
  nextRow,  \* the id the next link row gets
  runs,     \* the rows of tblBulkRun
  req       \* what each client's request has read, and where it is

vars == <<kinds, jobRun, sent, rows, nextRow, runs, req>>

Idle == [at |-> "idle"]

RowsOf(j) == {x \in rows : x.job = j}

RowsOn(r) == {x \in rows : x.run = r}

Begin(c, kind, q) ==
  /\ kind \in kinds
  /\ req[c] = Idle
  /\ req' = [req EXCEPT ![c] = q]

Finish(c) == req' = [req EXCEPT ![c] = Idle]

Init ==
  /\ kinds \in KindSets
  /\ jobRun = [j \in Jobs |-> None]
  /\ sent = {}
  /\ rows = {}
  /\ nextRow = 1
  /\ runs = Runs
  /\ req = [c \in Clients |-> Idle]

\* A deadlock victim, a time-out, a refused foreign key or a row that is gone: the
\* statement or the transaction under way does nothing and the request ends.
Fail(c) ==
  /\ req[c] # Idle
  /\ Finish(c)
  /\ UNCHANGED <<jobRun, sent, rows, nextRow, runs>>

-------------------------------------------------------------------------------
(* upsert                                                                  *)

\* The check on fromRunId, skipped for a null one and passed by a job on no run.
UpsertCheck(c, j, r, from) ==
  /\ from = None \/ RowsOf(j) = {} \/ \E x \in RowsOf(j) : x.run = from
  /\ Begin(c, "upsert", [at |-> "merge", job |-> j, run |-> r,
                         seenOn |-> IF RowsOf(j) = {} THEN None ELSE from])
  /\ UNCHANGED <<jobRun, sent, rows, nextRow, runs>>

\* MERGE tblBulkJobRun WITH (HOLDLOCK).
UpsertMerge(c) ==
  /\ req[c].at = "merge"
  /\ LET j == req[c].job
         r == req[c].run
     IN  IF RowsOf(j) = {}
         THEN /\ nextRow <= MaxRows
              /\ rows' = rows \cup {[id |-> nextRow, job |-> j, run |-> r]}
              /\ nextRow' = nextRow + 1
         ELSE /\ rows' = (rows \ RowsOf(j)) \cup {[x EXCEPT !.run = r] : x \in RowsOf(j)}
              /\ UNCHANGED nextRow
  /\ req' = [req EXCEPT ![c].at = "mirror"]
  /\ UNCHANGED <<jobRun, sent, runs>>

\* The UPDATE of tblBulkJob in the same batch.
UpsertMirror(c) ==
  /\ req[c].at = "mirror"
  /\ jobRun' = [jobRun EXCEPT ![req[c].job] = req[c].run]
  /\ Finish(c)
  /\ UNCHANGED <<sent, rows, nextRow, runs>>

-------------------------------------------------------------------------------
(* assign                                                                  *)

RowsOfAll(S) == UNION {RowsOf(j) : j \in S}

\* What StageJobAssignmentsAsync reads and tests.  The jobs' fromRunIds are not needed
\* after the test.
AssignFind(c, S, r, from, del) ==
  /\ S # {}
  /\ r \in runs /\ del # r
  /\ \A j \in S : from[j] # None => \A x \in RowsOf(j) : x.run = from[j]
  /\ Begin(c, "assign", [at |-> "commit", jobs |-> S, run |-> r, del |-> del,
                         read |-> RowsOfAll(S)])
  /\ UNCHANGED <<jobRun, sent, rows, nextRow, runs>>

\* The rows after the jobs of S, linked or not, went to r.  New rows take the ids from
\* nextRow on, in some order.
Moved(S, r, ids) ==
  (rows \ RowsOfAll(S))
    \cup {[x EXCEPT !.run = r] : x \in RowsOfAll(S)}
    \cup {[id |-> ids[j], job |-> j, run |-> r] : j \in DOMAIN ids}

\* The job rows without del, for the jobs that the rows left on del name.
Released(placed, left, del) ==
  [j \in Jobs |-> IF placed[j] = del /\ \E x \in left : x.job = j THEN None ELSE placed[j]]

\* The writes and the commit; with del # None the rows left on del and the jobs they
\* name are released, and the run goes.
AssignWrite(S, r, del, read) ==
  LET linked == {x.job : x \in read}
      new == S \ linked
  IN  \E last \in nextRow - 1 .. MaxRows :
      \E ids \in [new -> nextRow .. last] :
        /\ {ids[j] : j \in new} = nextRow .. last
        /\ \A j, k \in new : ids[j] = ids[k] => j = k
        /\ nextRow' = last + 1
        /\ LET moved == Moved(S, r, ids)
               left == {x \in moved : del # None /\ del \in runs /\ x.run = del}
               placed == [j \in Jobs |-> IF j \in S THEN r ELSE jobRun[j]]
           IN  /\ rows' = moved \ left
               /\ jobRun' = Released(placed, left, del)
               /\ runs' = runs \ {del}

\* Mutant of AssignCommit: a batch is put on a run that is gone by now.
AssignCommitGone(c) ==
  /\ req[c].at = "commit"
  /\ RowsOfAll(req[c].jobs) = req[c].read
  /\ AssignWrite(req[c].jobs, req[c].run, req[c].del, req[c].read)
  /\ Finish(c)
  /\ UNCHANGED sent

AssignCommit(c) ==
  /\ req[c].at = "commit"
  /\ req[c].run \in runs
  /\ RowsOfAll(req[c].jobs) = req[c].read
  /\ AssignWrite(req[c].jobs, req[c].run, req[c].del, req[c].read)
  /\ Finish(c)
  /\ UNCHANGED sent

-------------------------------------------------------------------------------
(* remove                                                                  *)

RemoveFindLink(c, j) ==
  /\ \E x \in RowsOf(j) : Begin(c, "remove", [at |-> "findJob", job |-> j, id |-> x.id])
  /\ UNCHANGED <<jobRun, sent, rows, nextRow, runs>>

RemoveFindJob(c) ==
  /\ req[c].at = "findJob"
  /\ req' = [req EXCEPT ![c] = [at |-> "removeSave", job |-> req[c].job, id |-> req[c].id,
                                had |-> jobRun[req[c].job]]]
  /\ UNCHANGED <<jobRun, sent, rows, nextRow, runs>>

\* Mutant of RemoveSave: a row that is gone is no error.
RemoveSaveLenient(c) ==
  /\ req[c].at = "removeSave"
  /\ rows' = {x \in rows : x.id # req[c].id}
  /\ jobRun' = IF req[c].had = None THEN jobRun ELSE [jobRun EXCEPT ![req[c].job] = None]
  /\ Finish(c)
  /\ UNCHANGED <<sent, nextRow, runs>>

\* The change tracker writes BulkRunId only if it was not null when it was read.
RemoveSave(c) ==
  /\ req[c].at = "removeSave"
  /\ \E x \in rows : x.id = req[c].id /\ rows' = rows \ {x}
  /\ jobRun' = IF req[c].had = None THEN jobRun ELSE [jobRun EXCEPT ![req[c].job] = None]
  /\ Finish(c)
  /\ UNCHANGED <<sent, nextRow, runs>>

-------------------------------------------------------------------------------
(* delete                                                                  *)

\* FindAsync of the run, and its link rows.  The save tests again that the run is there.
DeleteFindLinks(c, r) ==
  /\ r \in runs
  /\ Begin(c, "delete", [at |-> "findJobs", run |-> r, links |-> RowsOn(r)])
  /\ UNCHANGED <<jobRun, sent, rows, nextRow, runs>>

DeleteFindJobs(c) ==
  /\ req[c].at = "findJobs"
  /\ LET q == req[c]
     IN  req' = [req EXCEPT ![c] =
           [at |-> "deleteSave", run |-> q.run, ids |-> {x.id : x \in q.links},
            jobs |-> {j \in {x.job : x \in q.links} : jobRun[j] = q.run}]]
  /\ UNCHANGED <<jobRun, sent, rows, nextRow, runs>>

\* Mutant of DeleteSave: the link rows stay, with a null RunID.
DeleteSaveToNull(c) ==
  /\ req[c].at = "deleteSave"
  /\ req[c].run \in runs
  /\ req[c].ids \subseteq {x.id : x \in rows}
  /\ rows' = {IF x.id \in req[c].ids THEN [x EXCEPT !.run = None] ELSE x : x \in rows}
  /\ jobRun' = [j \in Jobs |-> IF j \in req[c].jobs THEN None ELSE jobRun[j]]
  /\ runs' = runs \ {req[c].run}
  /\ Finish(c)
  /\ UNCHANGED <<sent, nextRow>>

DeleteSave(c) ==
  /\ req[c].at = "deleteSave"
  /\ req[c].run \in runs
  /\ req[c].ids \subseteq {x.id : x \in rows}
  /\ rows' = {x \in rows : x.id \notin req[c].ids}
  /\ jobRun' = [j \in Jobs |-> IF j \in req[c].jobs THEN None ELSE jobRun[j]]
  /\ runs' = runs \ {req[c].run}
  /\ Finish(c)
  /\ UNCHANGED <<sent, nextRow>>

-------------------------------------------------------------------------------
(* send                                                                    *)

Send(j) ==
  /\ "send" \in kinds
  /\ sent' = sent \cup {j}
  /\ rows' = rows \ RowsOf(j)
  /\ UNCHANGED <<jobRun, nextRow, runs, req>>

-------------------------------------------------------------------------------
Start(c) ==
  \/ \E j \in Jobs, r \in Runs, from \in Runs \cup {None} : UpsertCheck(c, j, r, from)
  \/ \E S \in SUBSET Jobs, r \in Runs, del \in Runs \cup {None} :
        \E from \in [S -> Runs \cup {None}] : AssignFind(c, S, r, from, del)
  \/ \E j \in Jobs : RemoveFindLink(c, j)
  \/ \E r \in Runs : DeleteFindLinks(c, r)

Continue(c) ==
  \/ UpsertMerge(c)
  \/ UpsertMirror(c)
  \/ AssignCommit(c)
  \/ RemoveFindJob(c)
  \/ RemoveSave(c)
  \/ DeleteFindJobs(c)
  \/ DeleteSave(c)
  \/ Fail(c)

Next ==
  /\ UNCHANGED kinds
  /\ \/ \E c \in Clients : Start(c) \/ Continue(c)
     \/ \E j \in Jobs : Send(j)

Spec == Init /\ [][Next]_vars

-------------------------------------------------------------------------------
(* Properties                                                              *)

\* Ids are unique and below the next one, and every row names a job and a run there is
\* or was.
TypeOK ==
  /\ kinds \in KindSets /\ jobRun \in [Jobs -> Runs \cup {None}]
  /\ sent \subseteq Jobs /\ runs \subseteq Runs
  /\ rows \subseteq [id : 1 .. nextRow - 1, job : Jobs, run : Runs]
  /\ \A x, y \in rows : x.id = y.id => x = y

\* However the requests interleave, a job never gets a second link row: GetBulkRunsAsync
\* keys a dictionary by (run, job) and every FirstOrDefault picks one row of a job.
AtMostOneRow == \A x, y \in rows : x.job = y.job => x = y

\* The link row and the job row of a job on the board name the same run, however whole moves,
\* removals and sends interleave.  Single moves, whose two statements commit one by one, and
\* deletes of a run, which a MERGE can follow, have no such protection.
RowsAgree ==
  kinds \cap {"upsert", "delete"} = {} => \A j \in Jobs \ sent : {x.run : x \in RowsOf(j)} = {jobRun[j]} \ {None}

\* A job on the board is never left on a run that a merge took away, with the same requests.
PlacedOnLiveRun ==
  kinds \cap {"upsert", "delete"} = {} => \A j \in Jobs \ sent : jobRun[j] \in runs \cup {None}

\* Between any two statements of any requests: one link row per job and, with the requests that are
\* whole, both copies of its run equal and that run there.
TablesAgree == AtMostOneRow /\ RowsAgree /\ PlacedOnLiveRun

\* A move whose check found the job on the run it named takes it from that run: the doc
\* of UpdateJobToRunAsync says simultaneous moves by two operators "can't overwrite each
\* other silently".
MovesFromSeenRun ==
  [][\A c \in Clients : \A x \in rows :
        UpsertMerge(c) /\ x.job = req[c].job /\ req[c].seenOn # None
          => x.run \in {req[c].seenOn, req[c].run}]_vars

===============================================================================
