---------------------------- MODULE RequestProofs -----------------------------
(***************************************************************************)
(* The two places where requests run through each other in the server.     *)
(* The run handlers, split at their awaits, for any number of jobs, runs   *)
(* and clients: a job never gets a second link row, and with whole moves,  *)
(* removals and sends alone the two copies of its run agree, name a run    *)
(* that is there, and move as the job board says.  TenantScopedCache for   *)
(* any number of requests, schedules and saves: the gate admits one        *)
(* request at a time, and no patched row is lost from the list.            *)
(***************************************************************************)
EXTENDS RunRacesBoard, TenantCache, TLAPS


RunOrNone == Runs \cup {None}

LinkRows == [id : Nat, job : Jobs, run : Runs]

UpsertReq == [at : {"merge", "mirror"}, job : Jobs, run : Runs, seenOn : RunOrNone]

AssignReq == [at : {"commit"}, jobs : SUBSET Jobs, run : Runs, del : RunOrNone, read : SUBSET LinkRows]

RemoveReq == [at : {"findJob"}, job : Jobs, id : Nat]

RemoveSaveReq == [at : {"removeSave"}, job : Jobs, id : Nat, had : RunOrNone]

DeleteReq == [at : {"findJobs"}, run : Runs, links : SUBSET LinkRows]

DeleteSaveReq == [at : {"deleteSave"}, run : Runs, ids : SUBSET Nat, jobs : SUBSET Jobs]

Reqs ==
  {Idle} \cup UpsertReq \cup AssignReq \cup RemoveReq \cup RemoveSaveReq \cup DeleteReq
    \cup DeleteSaveReq

RequestsOK ==
  /\ nextRow \in Nat \ {0}
  /\ req \in [Clients -> Reqs]
  /\ \A c \in Clients : req[c].at = "commit" => req[c].del # req[c].run

\* A link row found by a removal is of its job for good, and its id is not given out again.
RemovalsKnow ==
  \A c \in Clients : req[c].at \in {"findJob", "removeSave"} =>
    /\ req[c].id < nextRow
    /\ \A x \in rows : x.id = req[c].id => x.job = req[c].job

\* Requests with two statements of their own are not under way where they are not sent.
OnlyKinds ==
  \A c \in Clients :
    /\ req[c].at \in {"merge", "mirror"} => "upsert" \in kinds
    /\ req[c].at \in {"findJobs", "deleteSave"} => "delete" \in kinds

\* A removal that read a job without a run found its link row already gone, or the job sent.
NullMeansGone ==
  WholeMoves => \A c \in Clients : req[c].at = "removeSave" /\ req[c].had = None =>
    req[c].job \in sent \/ \A x \in rows : x.id # req[c].id

\* The inductive invariant.
Inv ==
  /\ TypeOK /\ RequestsOK /\ RemovalsKnow /\ OnlyKinds /\ NullMeansGone
  /\ AtMostOneRow /\ RowsAgree /\ PlacedOnLiveRun

-------------------------------------------------------------------------------
\* There are no rows and no requests.
LEMMA RacesStart == Init => Inv
<1> SUFFICES ASSUME Init PROVE Inv
  OBVIOUS
<1> USE DEF Init
<1>1. TypeOK
  BY DEF TypeOK
<1>2. RequestsOK
  BY DEF RequestsOK, Reqs, Idle
<1>3. RemovalsKnow /\ OnlyKinds /\ NullMeansGone
  BY DEF RemovalsKnow, OnlyKinds, NullMeansGone, Idle
<1>4. AtMostOneRow /\ RowsAgree /\ PlacedOnLiveRun
  BY DEF AtMostOneRow, RowsAgree, PlacedOnLiveRun, RowsOf
<1> QED
  BY <1>1, <1>2, <1>3, <1>4 DEF Inv

\* What is assumed of the request that a step of client c leaves behind.
ReqFits(c, q) ==
  /\ q \in Reqs
  /\ q.at = "commit" => q.del # q.run
  /\ q.at \in {"findJob", "removeSave"} => q.id < nextRow /\ \A x \in rows : x.id = q.id => x.job = q.job
  /\ q.at \in {"merge", "mirror"} => "upsert" \in kinds
  /\ q.at \in {"findJobs", "deleteSave"} => "delete" \in kinds
  /\ WholeMoves /\ q.at = "removeSave" /\ q.had = None => q.job \in sent \/ \A x \in rows : x.id # q.id

\* A step that writes no table, only the request of c.
LEMMA ReadsOnly ==
  ASSUME Inv, NEW c \in Clients, NEW q, ReqFits(c, q), req' = [req EXCEPT ![c] = q],
         UNCHANGED <<kinds, jobRun, sent, rows, nextRow, runs>>
  PROVE  Inv'
<1>1. TypeOK' /\ AtMostOneRow' /\ RowsAgree' /\ PlacedOnLiveRun'
  BY DEF Inv, TypeOK, AtMostOneRow, RowsAgree, PlacedOnLiveRun, RowsOf
<1>2. RequestsOK'
  BY DEF Inv, RequestsOK, ReqFits
<1>3. RemovalsKnow'
  BY DEF Inv, RequestsOK, RemovalsKnow, ReqFits
<1>4. OnlyKinds'
  BY DEF Inv, RequestsOK, OnlyKinds, ReqFits
<1>5. NullMeansGone'
  BY DEF Inv, RequestsOK, NullMeansGone, ReqFits, WholeMoves
<1> QED
  BY <1>1, <1>2, <1>3, <1>4, <1>5 DEF Inv

\* A request that ends, or goes on as it must, while the step writes tables: rows given out ids
\* below the next one before keep them, or go.
LEMMA OthersKnow ==
  ASSUME Inv, NEW c \in Clients, req' = [req EXCEPT ![c] = Idle] \/ UNCHANGED req,
         UNCHANGED kinds, nextRow' \in Nat, nextRow' >= nextRow, sent \subseteq sent',
         \A y \in rows' : y.id >= nextRow \/ \E x \in rows : x.id = y.id /\ x.job = y.job
  PROVE  RequestsOK' /\ RemovalsKnow' /\ OnlyKinds' /\ NullMeansGone'
<1>1. req' \in [Clients -> Reqs] /\ \A d \in Clients : req'[d] = req[d] \/ req'[d] = Idle
  BY DEF Inv, RequestsOK, Reqs
<1>2. Idle.at = "idle"
  BY DEF Idle
<1>3. RequestsOK'
  BY <1>1, <1>2 DEF Inv, RequestsOK
<1>4. RemovalsKnow'
  <2> SUFFICES ASSUME NEW d \in Clients, req'[d].at \in {"findJob", "removeSave"}
               PROVE  /\ req'[d].id < nextRow'
                      /\ \A x \in rows' : x.id = req'[d].id => x.job = req'[d].job
    BY DEF RemovalsKnow
  <2>1. req'[d] = req[d]
    BY <1>1, <1>2
  <2>2. req[d].id \in Nat
    BY <2>1 DEF Inv, RequestsOK, Reqs, Idle, UpsertReq, AssignReq, RemoveReq, RemoveSaveReq, DeleteReq,
                DeleteSaveReq
  <2>3. req[d].id < nextRow /\ \A x \in rows : x.id = req[d].id => x.job = req[d].job
    BY <2>1 DEF Inv, RemovalsKnow
  <2> QED
    BY <2>1, <2>2, <2>3 DEF Inv, RequestsOK
<1>5. OnlyKinds'
  BY <1>1, <1>2 DEF Inv, OnlyKinds
<1>6. NullMeansGone'
  <2> SUFFICES ASSUME WholeMoves, NEW d \in Clients, req'[d].at = "removeSave", req'[d].had = None,
                      req'[d].job \notin sent'
               PROVE  \A x \in rows' : x.id # req'[d].id
    BY DEF NullMeansGone, WholeMoves
  <2>1. req'[d] = req[d]
    BY <1>1, <1>2
  <2>2. req[d].id < nextRow /\ \A x \in rows : x.id # req[d].id
    BY <2>1 DEF Inv, RemovalsKnow, NullMeansGone
  <2>3. req[d].id \in Nat
    BY <2>1 DEF Inv, RequestsOK, Reqs, Idle, UpsertReq, AssignReq, RemoveReq, RemoveSaveReq, DeleteReq,
                DeleteSaveReq
  <2> QED
    BY <2>1, <2>2, <2>3 DEF Inv, RequestsOK
<1> QED
  BY <1>3, <1>4, <1>5, <1>6
-------------------------------------------------------------------------------
(* The steps that start or read                                            *)

\* The checks of a single move.
LEMMA StepUpsertCheck ==
  ASSUME Inv, NEW c \in Clients, NEW j \in Jobs, NEW r \in Runs, NEW from \in RunOrNone,
         UpsertCheck(c, j, r, from), UNCHANGED kinds
  PROVE  Inv'
<1> DEFINE q == [at |-> "merge", job |-> j, run |-> r, seenOn |-> IF RowsOf(j) = {} THEN None ELSE from]
<1>1. q \in UpsertReq
  BY DEF UpsertReq, RunOrNone
<1>2. ReqFits(c, q)
  BY <1>1 DEF ReqFits, Reqs, UpsertCheck, Begin
<1> HIDE DEF q
<1> QED
  BY <1>2, ReadsOnly DEF UpsertCheck, Begin, q

\* What a batch reads.
LEMMA StepAssignFind ==
  ASSUME Inv, NEW c \in Clients, NEW S \in SUBSET Jobs, NEW r \in Runs, NEW del \in RunOrNone,
         NEW from, AssignFind(c, S, r, from, del), UNCHANGED kinds
  PROVE  Inv'
<1> DEFINE q == [at |-> "commit", jobs |-> S, run |-> r, del |-> del, read |-> RowsOfAll(S)]
<1>1. RowsOfAll(S) \subseteq LinkRows
  BY DEF RowsOfAll, RowsOf, Inv, TypeOK, RequestsOK, LinkRows
<1>2. q \in AssignReq
  BY <1>1 DEF AssignReq
<1>3. ReqFits(c, q)
  BY <1>2 DEF ReqFits, Reqs, AssignFind
<1> HIDE DEF q
<1> QED
  BY <1>3, ReadsOnly DEF AssignFind, Begin, q

\* The link row that a removal finds.
LEMMA StepRemoveFindLink ==
  ASSUME Inv, NEW c \in Clients, NEW j \in Jobs, RemoveFindLink(c, j), UNCHANGED kinds
  PROVE  Inv'
<1>1. PICK x \in RowsOf(j) : Begin(c, "remove", [at |-> "findJob", job |-> j, id |-> x.id])
  BY DEF RemoveFindLink
<1> DEFINE q == [at |-> "findJob", job |-> j, id |-> x.id]
<1>2. x \in rows /\ x.job = j /\ x.id \in Nat /\ x.id < nextRow /\ \A y \in rows : y.id = x.id => y = x
  BY <1>1 DEF RowsOf, Inv, TypeOK, RequestsOK
<1>3. q \in RemoveReq
  BY <1>2 DEF RemoveReq
<1>4. ReqFits(c, q)
  BY <1>2, <1>3 DEF ReqFits, Reqs
<1> HIDE DEF q
<1> QED
  BY <1>1, <1>4, ReadsOnly DEF RemoveFindLink, Begin, q

\* The job it finds: without a run, the job has no link row any more.
LEMMA StepRemoveFindJob ==
  ASSUME Inv, NEW c \in Clients, RemoveFindJob(c), UNCHANGED kinds
  PROVE  Inv'
<1>1. req[c].at = "findJob" /\ req[c] \in RemoveReq
  BY DEF RemoveFindJob, Inv, RequestsOK, Reqs, Idle, UpsertReq, AssignReq, RemoveReq, RemoveSaveReq,
         DeleteReq, DeleteSaveReq
<1> DEFINE j == req[c].job
           q == [at |-> "removeSave", job |-> j, id |-> req[c].id, had |-> jobRun[j]]
<1>2. j \in Jobs /\ req[c].id \in Nat /\ jobRun[j] \in RunOrNone
  BY <1>1 DEF RemoveReq, Inv, TypeOK, RunOrNone
<1>3. q \in RemoveSaveReq
  BY <1>2 DEF RemoveSaveReq
<1>4. req[c].id < nextRow /\ \A x \in rows : x.id = req[c].id => x.job = j
  BY <1>1 DEF Inv, RemovalsKnow
<1>5. WholeMoves /\ jobRun[j] = None => j \in sent \/ \A x \in rows : x.id # req[c].id
  <2> SUFFICES ASSUME WholeMoves, jobRun[j] = None, j \notin sent, NEW x \in rows, x.id = req[c].id
               PROVE  FALSE
    OBVIOUS
  <2>1. x \in RowsOf(j)
    BY <1>4 DEF RowsOf
  <2>2. {y.run : y \in RowsOf(j)} = {}
    BY <1>2 DEF Inv, RowsAgree, WholeMoves
  <2> QED
    BY <2>1, <2>2
<1> HIDE DEF j
<1>6. ReqFits(c, q)
  BY <1>3, <1>4, <1>5 DEF ReqFits, Reqs
<1> HIDE DEF q
<1> QED
  BY <1>6, ReadsOnly DEF RemoveFindJob, q, j

\* The reads of a delete.
LEMMA StepDeleteFinds ==
  ASSUME Inv, NEW c \in Clients, UNCHANGED kinds,
         DeleteFindJobs(c) \/ \E r \in Runs : DeleteFindLinks(c, r)
  PROVE  Inv'
<1>1. ASSUME NEW r \in Runs, DeleteFindLinks(c, r) PROVE Inv'
  <2> DEFINE q == [at |-> "findJobs", run |-> r, links |-> RowsOn(r)]
  <2>1. RowsOn(r) \subseteq LinkRows
    BY DEF RowsOn, Inv, TypeOK, RequestsOK, LinkRows
  <2>2. q \in DeleteReq
    BY <2>1 DEF DeleteReq
  <2>3. ReqFits(c, q)
    BY <1>1, <2>2 DEF ReqFits, Reqs, DeleteFindLinks, Begin
  <2> HIDE DEF q
  <2> QED
    BY <1>1, <2>3, ReadsOnly DEF DeleteFindLinks, Begin, q
<1>2. CASE DeleteFindJobs(c)
  <2>1. req[c].at = "findJobs" /\ req[c] \in DeleteReq /\ "delete" \in kinds
    BY <1>2 DEF DeleteFindJobs, Inv, OnlyKinds, RequestsOK, Reqs, Idle, UpsertReq, AssignReq, RemoveReq,
                RemoveSaveReq, DeleteReq, DeleteSaveReq
  <2> DEFINE o == req[c]
             ids == {x.id : x \in o.links}
             jobs == {j \in {x.job : x \in o.links} : jobRun[j] = o.run}
             q == [at |-> "deleteSave", run |-> o.run, ids |-> ids, jobs |-> jobs]
  <2>2. o.run \in Runs /\ ids \subseteq Nat /\ jobs \subseteq Jobs
    BY <2>1 DEF DeleteReq, LinkRows
  <2>3. req' = [req EXCEPT ![c] = q]
    BY <1>2 DEF DeleteFindJobs
  <2> HIDE DEF ids, jobs
  <2>4. q \in DeleteSaveReq
    BY <2>2 DEF DeleteSaveReq
  <2>5. ReqFits(c, q)
    BY <2>1, <2>4 DEF ReqFits, Reqs
  <2> HIDE DEF q
  <2> QED
    BY <1>2, <2>3, <2>5, ReadsOnly DEF DeleteFindJobs
<1> QED
  BY <1>1, <1>2

\* A request that fails.
LEMMA StepFail ==
  ASSUME Inv, NEW c \in Clients, Fail(c), UNCHANGED kinds
  PROVE  Inv'
<1>1. ReqFits(c, Idle)
  BY DEF ReqFits, Reqs, Idle
<1> QED
  BY <1>1, ReadsOnly DEF Fail, Finish

-------------------------------------------------------------------------------
(* The steps that write                                                    *)

\* The link rows of a step that leaves no new ones.
LEMMA FewerRows ==
  ASSUME Inv, rows' \subseteq rows, UNCHANGED nextRow, jobRun' \in [Jobs -> RunOrNone],
         sent' \subseteq Jobs, runs' \subseteq Runs, UNCHANGED kinds
  PROVE  TypeOK' /\ AtMostOneRow'
  BY DEF Inv, TypeOK, AtMostOneRow, RunOrNone

\* MERGE of one job.
LEMMA StepUpsertMerge ==
  ASSUME Inv, NEW c \in Clients, UpsertMerge(c), UNCHANGED kinds
  PROVE  Inv'
<1>1. req[c].at = "merge" /\ req[c] \in UpsertReq /\ "upsert" \in kinds
  BY DEF UpsertMerge, Inv, OnlyKinds, RequestsOK, Reqs, Idle, UpsertReq, AssignReq, RemoveReq,
         RemoveSaveReq, DeleteReq, DeleteSaveReq
<1> DEFINE j == req[c].job
           r == req[c].run
           new == [id |-> nextRow, job |-> j, run |-> r]
<1>2. j \in Jobs /\ r \in Runs /\ nextRow \in Nat \ {0}
  BY <1>1 DEF UpsertReq, Inv, RequestsOK
<1>3. PICK S : /\ S = RowsOf(j)
               /\ \/ S = {} /\ rows' = rows \cup {new} /\ nextRow' = nextRow + 1
                  \/ /\ rows' = (rows \ S) \cup {[x EXCEPT !.run = r] : x \in S} /\ nextRow' = nextRow
  BY DEF UpsertMerge
<1>4. /\ rows \subseteq [id : 1 .. nextRow - 1, job : Jobs, run : Runs]
      /\ \A x, y \in rows : x.id = y.id => x = y
      /\ \A x, y \in rows : x.job = y.job => x = y
  BY DEF Inv, TypeOK, AtMostOneRow
<1>5. S = {x \in rows : x.job = j}
  BY <1>3 DEF RowsOf
<1> HIDE DEF j, r
<1>6. /\ rows' \subseteq [id : 1 .. nextRow' - 1, job : Jobs, run : Runs]
      /\ \A x, y \in rows' : x.id = y.id => x = y
      /\ \A x, y \in rows' : x.job = y.job => x = y
      /\ nextRow' \in Nat \ {0} /\ nextRow' >= nextRow
      /\ \A y \in rows' : y.id >= nextRow \/ \E x \in rows : x.id = y.id /\ x.job = y.job
  <2>1. CASE S = {} /\ rows' = rows \cup {new} /\ nextRow' = nextRow + 1
    BY <2>1, <1>2, <1>4, <1>5
  <2>2. CASE rows' = (rows \ S) \cup {[x EXCEPT !.run = r] : x \in S} /\ nextRow' = nextRow
    <3>1. \A x \in S : [x EXCEPT !.run = r] = [id |-> x.id, job |-> j, run |-> r]
      BY <1>4, <1>5
    <3>2. rows' = (rows \ S) \cup {[id |-> x.id, job |-> j, run |-> r] : x \in S}
      BY <2>2, <3>1
    <3> QED
      BY <3>2, <2>2, <1>2, <1>4, <1>5
  <2> QED
    BY <1>3, <2>1, <2>2
<1>7. TypeOK' /\ AtMostOneRow'
  BY <1>6 DEF UpsertMerge, Inv, TypeOK, AtMostOneRow
<1>8. RowsAgree' /\ PlacedOnLiveRun'
  BY <1>1 DEF RowsAgree, PlacedOnLiveRun
<1> DEFINE q == [at |-> "mirror", job |-> req[c].job, run |-> req[c].run, seenOn |-> req[c].seenOn]
<1>9. req' = [req EXCEPT ![c] = q] /\ q \in UpsertReq
  <2>1. req' = [req EXCEPT ![c] = [req[c] EXCEPT !.at = "mirror"]]
    BY DEF UpsertMerge
  <2>2. [req[c] EXCEPT !.at = "mirror"] = q
    BY <1>1 DEF UpsertReq
  <2>3. q \in UpsertReq
    BY <1>1 DEF UpsertReq
  <2> QED
    BY <2>1, <2>2, <2>3
<1>10. RequestsOK'
  BY <1>6, <1>9 DEF Inv, RequestsOK, Reqs
<1>11. RemovalsKnow'
  <2> SUFFICES ASSUME NEW d \in Clients, req'[d].at \in {"findJob", "removeSave"}
               PROVE  /\ req'[d].id < nextRow'
                      /\ \A x \in rows' : x.id = req'[d].id => x.job = req'[d].job
    BY DEF RemovalsKnow
  <2>1. req'[d] = req[d]
    BY <1>9 DEF Inv, RequestsOK
  <2>2. req[d].id \in Nat
    BY <2>1 DEF Inv, RequestsOK, Reqs, Idle, UpsertReq, AssignReq, RemoveReq, RemoveSaveReq, DeleteReq,
                DeleteSaveReq
  <2>3. req[d].id < nextRow /\ \A x \in rows : x.id = req[d].id => x.job = req[d].job
    BY <2>1 DEF Inv, RemovalsKnow
  <2> QED
    BY <1>2, <1>6, <2>1, <2>2, <2>3
<1>12. OnlyKinds' /\ NullMeansGone'
  BY <1>1, <1>9 DEF Inv, RequestsOK, OnlyKinds, NullMeansGone, WholeMoves
<1> QED
  BY <1>7, <1>8, <1>10, <1>11, <1>12 DEF Inv

\* A step that ends a request and takes link rows away: what is left of the tables decides.
LEMMA EndsRequest ==
  ASSUME Inv, NEW c \in Clients, req' = [req EXCEPT ![c] = Idle] \/ UNCHANGED req, UNCHANGED kinds,
         rows' \subseteq rows, UNCHANGED nextRow, sent \subseteq sent', sent' \subseteq Jobs,
         jobRun' \in [Jobs -> RunOrNone], runs' \subseteq Runs, RowsAgree', PlacedOnLiveRun'
  PROVE  Inv'
<1>1. TypeOK' /\ AtMostOneRow'
  BY FewerRows
<1>2. RequestsOK' /\ RemovalsKnow' /\ OnlyKinds' /\ NullMeansGone'
  <2>1. nextRow' \in Nat /\ nextRow' >= nextRow
    BY DEF Inv, RequestsOK
  <2>2. \A y \in rows' : \E x \in rows : x.id = y.id /\ x.job = y.job
    OBVIOUS
  <2> QED
    BY <2>1, <2>2, OthersKnow
<1> QED
  BY <1>1, <1>2 DEF Inv

\* UPDATE of one job's row.
LEMMA StepUpsertMirror ==
  ASSUME Inv, NEW c \in Clients, UpsertMirror(c), UNCHANGED kinds
  PROVE  Inv'
<1>1. req[c].at = "mirror" /\ req[c] \in UpsertReq /\ "upsert" \in kinds
  BY DEF UpsertMirror, Inv, OnlyKinds, RequestsOK, Reqs, Idle, UpsertReq, AssignReq, RemoveReq,
         RemoveSaveReq, DeleteReq, DeleteSaveReq
<1>2. jobRun' = [jobRun EXCEPT ![req[c].job] = req[c].run] /\ req[c].job \in Jobs /\ req[c].run \in Runs
  BY <1>1 DEF UpsertMirror, UpsertReq
<1>3. jobRun' \in [Jobs -> RunOrNone] /\ runs' \subseteq Runs /\ sent' \subseteq Jobs
  BY <1>2 DEF UpsertMirror, Inv, TypeOK, RunOrNone
<1>4. RowsAgree' /\ PlacedOnLiveRun'
  BY <1>1 DEF RowsAgree, PlacedOnLiveRun
<1> QED
  BY <1>3, <1>4, EndsRequest DEF UpsertMirror, Finish

\* The save of a removal.
LEMMA StepRemoveSave ==
  ASSUME Inv, NEW c \in Clients, RemoveSave(c), UNCHANGED kinds
  PROVE  Inv'
<1>1. req[c].at = "removeSave" /\ req[c] \in RemoveSaveReq
  BY DEF RemoveSave, Inv, RequestsOK, Reqs, Idle, UpsertReq, AssignReq, RemoveReq, RemoveSaveReq,
         DeleteReq, DeleteSaveReq
<1>0. PICK j : j = req[c].job
  OBVIOUS
<1>2. PICK x \in rows : x.id = req[c].id /\ rows' = rows \ {x}
  BY DEF RemoveSave
<1>3. j \in Jobs /\ x.job = j
  BY <1>0, <1>1, <1>2 DEF RemoveSaveReq, Inv, RemovalsKnow
<1>4. \/ req[c].had = None /\ jobRun' = jobRun
      \/ req[c].had # None /\ jobRun' = [jobRun EXCEPT ![j] = None]
  BY <1>0 DEF RemoveSave
<1>5. jobRun' \in [Jobs -> RunOrNone] /\ runs' \subseteq Runs /\ sent' \subseteq Jobs
  BY <1>3, <1>4 DEF RemoveSave, Inv, TypeOK, RunOrNone
<1>6. RowsOf(j)' = {} /\ \A k \in Jobs \ {j} : RowsOf(k)' = RowsOf(k)
  BY <1>2, <1>3 DEF Inv, AtMostOneRow, RowsOf
<1>7. \A k \in Jobs \ {j} : jobRun'[k] = jobRun[k]
  BY <1>3, <1>4 DEF Inv, TypeOK
<1>8. WholeMoves /\ j \notin sent => jobRun'[j] = None
  BY <1>0, <1>1, <1>2, <1>3, <1>4 DEF Inv, TypeOK, NullMeansGone
<1>9. sent' = sent /\ runs' = runs
  BY DEF RemoveSave
<1>10. RowsAgree'
  BY <1>6, <1>7, <1>8, <1>9 DEF Inv, RowsAgree, WholeMoves
<1>11. PlacedOnLiveRun'
  BY <1>7, <1>8, <1>9 DEF Inv, PlacedOnLiveRun, WholeMoves
<1> QED
  BY <1>2, <1>5, <1>9, <1>10, <1>11, EndsRequest DEF RemoveSave, Finish

\* The save of a delete.
LEMMA StepDeleteSave ==
  ASSUME Inv, NEW c \in Clients, DeleteSave(c), UNCHANGED kinds
  PROVE  Inv'
<1>1. "delete" \in kinds
  BY DEF DeleteSave, Inv, OnlyKinds
<1>2. rows' \subseteq rows /\ runs' \subseteq Runs /\ sent' = sent /\ sent \subseteq Jobs
  BY DEF DeleteSave, Inv, TypeOK
<1>3. jobRun' \in [Jobs -> RunOrNone]
  BY DEF DeleteSave, Inv, TypeOK, RunOrNone
<1>4. RowsAgree' /\ PlacedOnLiveRun'
  BY <1>1 DEF RowsAgree, PlacedOnLiveRun
<1> QED
  BY <1>2, <1>3, <1>4, EndsRequest DEF DeleteSave, Finish

\* A call of the procedure.
LEMMA StepSend ==
  ASSUME Inv, NEW j \in Jobs, Send(j), UNCHANGED kinds
  PROVE  Inv'
<1>1. /\ sent' = sent \cup {j} /\ rows' = rows \ RowsOf(j) /\ UNCHANGED <<jobRun, nextRow, runs, req>>
  BY DEF Send
<1>2. \A k \in Jobs \ {j} : RowsOf(k)' = RowsOf(k)
  BY <1>1 DEF RowsOf
<1>3. RowsAgree' /\ PlacedOnLiveRun'
  BY <1>1, <1>2 DEF Inv, RowsAgree, PlacedOnLiveRun
<1>4. TypeOK' /\ AtMostOneRow'
  BY <1>1 DEF Inv, TypeOK, AtMostOneRow
<1>5. RequestsOK' /\ RemovalsKnow' /\ OnlyKinds' /\ NullMeansGone'
  BY <1>1 DEF Inv, RequestsOK, RemovalsKnow, OnlyKinds, NullMeansGone, WholeMoves
<1> QED
  BY <1>3, <1>4, <1>5 DEF Inv

\* The commit of a batch or a merge.
LEMMA StepAssignCommit ==
  ASSUME Inv, NEW c \in Clients, AssignCommit(c), UNCHANGED kinds
  PROVE  Inv'
<1>1. req[c].at = "commit" /\ req[c] \in AssignReq /\ req[c].del # req[c].run
  BY DEF AssignCommit, Inv, RequestsOK, Reqs, Idle, UpsertReq, AssignReq, RemoveReq, RemoveSaveReq,
         DeleteReq, DeleteSaveReq
<1> DEFINE S == req[c].jobs
           r == req[c].run
           del == req[c].del
           old == RowsOfAll(S)
           linked == {x.job : x \in old}
           new == S \ linked
<1>2. S \subseteq Jobs /\ r \in Runs /\ r \in runs /\ del \in RunOrNone /\ del # r
  BY <1>1 DEF AssignReq, AssignCommit
<1>3. old = {x \in rows : x.job \in S}
  BY DEF RowsOfAll, RowsOf
<1>4. AssignWrite(S, r, del, old) /\ req' = [req EXCEPT ![c] = Idle] /\ sent' = sent
  BY DEF AssignCommit, Finish
<1>5. PICK last \in nextRow - 1 .. MaxRows : \E ids \in [new -> nextRow .. last] :
        /\ \A j, k \in new : ids[j] = ids[k] => j = k
        /\ nextRow' = last + 1
        /\ LET moved == Moved(S, r, ids)
               left == {x \in moved : del # None /\ del \in runs /\ x.run = del}
               placed == [j \in Jobs |-> IF j \in S THEN r ELSE jobRun[j]]
           IN  /\ rows' = moved \ left
               /\ jobRun' = Released(placed, left, del)
               /\ runs' = runs \ {del}
  BY <1>4 DEF AssignWrite
<1>6. PICK ids \in [new -> nextRow .. last] :
        /\ \A j, k \in new : ids[j] = ids[k] => j = k
        /\ nextRow' = last + 1
        /\ LET moved == Moved(S, r, ids)
               left == {x \in moved : del # None /\ del \in runs /\ x.run = del}
               placed == [j \in Jobs |-> IF j \in S THEN r ELSE jobRun[j]]
           IN  /\ rows' = moved \ left
               /\ jobRun' = Released(placed, left, del)
               /\ runs' = runs \ {del}
  BY <1>5
<1> DEFINE moved == Moved(S, r, ids)
           left == {x \in moved : del # None /\ del \in runs /\ x.run = del}
           placed == [j \in Jobs |-> IF j \in S THEN r ELSE jobRun[j]]
<1>7. /\ rows \subseteq [id : 1 .. nextRow - 1, job : Jobs, run : Runs]
      /\ \A x, y \in rows : x.id = y.id => x = y
      /\ \A x, y \in rows : x.job = y.job => x = y
      /\ nextRow \in Nat \ {0} /\ last \in Nat /\ last + 1 >= nextRow
  BY <1>5, MaxRowsAssumption DEF Inv, TypeOK, AtMostOneRow, RequestsOK
<1>8. moved = (rows \ old) \cup {[id |-> x.id, job |-> x.job, run |-> r] : x \in old}
                \cup {[id |-> ids[j], job |-> j, run |-> r] : j \in new}
  <2>1. \A x \in old : [x EXCEPT !.run = r] = [id |-> x.id, job |-> x.job, run |-> r]
    BY <1>3, <1>7
  <2>2. DOMAIN ids = new
    BY <1>6
  <2>3. {[x EXCEPT !.run = r] : x \in old} = {[id |-> x.id, job |-> x.job, run |-> r] : x \in old}
    <3> HIDE DEF old, r, S
    <3> QED
      BY <2>1, Zenon
  <2>4. moved = (rows \ old) \cup {[x EXCEPT !.run = r] : x \in old}
                  \cup {[id |-> ids[j], job |-> j, run |-> r] : j \in DOMAIN ids}
    BY Zenon DEF Moved
  <2> HIDE DEF new, moved, old, S, r
  <2>5. {[id |-> ids[j], job |-> j, run |-> r] : j \in DOMAIN ids}
          = {[id |-> ids[j], job |-> j, run |-> r] : j \in new}
    BY <2>2, Zenon
  <2> QED
    BY <2>3, <2>4, <2>5, Zenon
<1> HIDE DEF S, r, del, old, moved
<1>9. /\ moved \subseteq [id : 1 .. last, job : Jobs, run : Runs]
      /\ \A x, y \in moved : x.id = y.id => x = y
      /\ \A x, y \in moved : x.job = y.job => x = y
      /\ \A y \in moved : y.id >= nextRow \/ \E x \in rows : x.id = y.id /\ x.job = y.job
  <2>1. \A x \in rows : x.id \in 1 .. nextRow - 1 /\ x.job \in Jobs /\ x.run \in Runs
    BY <1>7
  <2>2. \A j \in new : ids[j] \in Nat /\ ids[j] >= nextRow /\ ids[j] <= last /\ j \in Jobs /\ j \in S
    BY <1>2, <1>6, <1>7
  <2>3. \A j \in new, x \in rows : x.job # j /\ x.id # ids[j]
    BY <1>3, <1>7, <2>2
  <2>4. moved \subseteq [id : 1 .. last, job : Jobs, run : Runs]
    BY <1>2, <1>3, <1>7, <1>8, <2>1, <2>2
  <2>5. \A x, y \in moved : x.id = y.id => x = y
    BY <1>3, <1>6, <1>7, <1>8, <2>2, <2>3
  <2>6. \A x, y \in moved : x.job = y.job => x = y
    BY <1>3, <1>7, <1>8, <2>3
  <2>7. \A y \in moved : y.id >= nextRow \/ \E x \in rows : x.id = y.id /\ x.job = y.job
    BY <1>3, <1>8, <2>2
  <2> QED
    BY <2>4, <2>5, <2>6, <2>7
<1>10. \A j \in Jobs : IF j \in S
                       THEN \E x \in moved : x.job = j /\ \A y \in moved : y.job = j => y.run = r
                       ELSE \A y : y.job = j => (y \in moved <=> y \in rows)
  <2>1. ASSUME NEW j \in S PROVE \E x \in moved : x.job = j
    <3>1. CASE j \in linked
      <4>1. PICK x \in old : x.job = j
        BY <3>1
      <4>2. [id |-> x.id, job |-> x.job, run |-> r] \in moved
        BY <1>8
      <4> QED
        BY <4>1, <4>2
    <3>2. CASE j \in new
      <4>1. [id |-> ids[j], job |-> j, run |-> r] \in moved
        BY <1>8, <3>2
      <4> QED
        BY <4>1
    <3> QED
      BY <2>1, <3>1, <3>2
  <2>2. ASSUME NEW j \in S, NEW y \in moved, y.job = j PROVE y.run = r
    BY <1>3, <1>8, <2>2
  <2>3. ASSUME NEW j \in Jobs \ S, NEW y, y.job = j PROVE y \in moved <=> y \in rows
    BY <1>3, <1>8, <2>3
  <2> QED
    BY <2>1, <2>2, <2>3
<1>11. rows' = moved \ left /\ jobRun' = Released(placed, left, del) /\ runs' = runs \ {del}
  BY <1>6 DEF moved, S, r, del
<1>12. placed \in [Jobs -> RunOrNone]
  BY <1>2 DEF Inv, TypeOK, RunOrNone
<1>13. \A j \in Jobs : jobRun'[j] = IF placed[j] = del /\ \E x \in left : x.job = j THEN None ELSE placed[j]
  BY <1>11 DEF Released
<1>14. jobRun' \in [Jobs -> RunOrNone]
  BY <1>11, <1>12 DEF Released, RunOrNone
<1>15. /\ left \subseteq moved
       /\ \A x \in moved : x \in left <=> del # None /\ del \in runs /\ x.run = del
  OBVIOUS
<1>16. \A j \in Jobs : placed[j] = IF j \in S THEN r ELSE jobRun[j]
  OBVIOUS
<1>17. None \notin Runs
  BY RunsAssumption
<1> HIDE DEF placed, left
<1>18. ASSUME WholeMoves, NEW j \in Jobs \ sent
       PROVE  {x.run : x \in {y \in moved : y.job = j}} = {placed[j]} \ {None}
  <2>1. CASE j \in S
    BY <1>2, <1>10, <1>16, <1>17, <2>1
  <2>2. CASE j \notin S
    <3>1. {y \in moved : y.job = j} = RowsOf(j)
      BY <1>10, <2>2 DEF RowsOf
    <3> QED
      BY <1>16, <1>18, <2>2, <3>1 DEF Inv, RowsAgree, WholeMoves
  <2> QED
    BY <2>1, <2>2
<1>19. ASSUME WholeMoves, NEW j \in Jobs \ sent
       PROVE  /\ {x.run : x \in RowsOf(j)'} = {jobRun'[j]} \ {None}
              /\ jobRun'[j] \in runs' \cup {None}
  <2>1. RowsOf(j)' = {y \in moved : y.job = j} \ left
    BY <1>11 DEF RowsOf
  <2>2. CASE \E x \in left : x.job = j
    <3>1. PICK x \in left : x.job = j
      BY <2>2
    <3>2. x \in moved /\ x.run = del /\ del # None
      BY <1>15, <3>1
    <3>3. {y \in moved : y.job = j} = {x}
      BY <1>9, <3>1, <3>2
    <3>4. placed[j] = del
      BY <1>18, <1>19, <3>2, <3>3
    <3> QED
      BY <1>13, <2>1, <3>1, <3>3, <3>4
  <2>3. CASE \A x \in left : x.job # j
    <3>1. RowsOf(j)' = {y \in moved : y.job = j} /\ jobRun'[j] = placed[j]
      BY <1>13, <2>1, <2>3
    <3>2. placed[j] \in runs \cup {None}
      BY <1>2, <1>16, <1>19 DEF Inv, PlacedOnLiveRun, WholeMoves
    <3>3. placed[j] = del => del = None
      <4> SUFFICES ASSUME placed[j] = del, del # None PROVE FALSE
        OBVIOUS
      <4>1. PICK x \in moved : x.job = j /\ x.run = del
        BY <1>18, <1>19
      <4> QED
        BY <1>15, <2>3, <3>2, <4>1
    <3> QED
      BY <1>11, <1>18, <1>19, <3>1, <3>2, <3>3
  <2> QED
    BY <2>2, <2>3
<1>20. RowsAgree' /\ PlacedOnLiveRun'
  BY <1>4, <1>19 DEF RowsAgree, PlacedOnLiveRun, WholeMoves
<1>21. TypeOK' /\ AtMostOneRow'
  <2>1. rows' \subseteq moved /\ runs' \subseteq Runs /\ nextRow' = last + 1
    BY <1>6, <1>11 DEF Inv, TypeOK
  <2>2. rows' \subseteq [id : 1 .. nextRow' - 1, job : Jobs, run : Runs]
    BY <1>7, <1>9, <2>1
  <2> QED
    BY <1>4, <1>9, <1>14, <2>1, <2>2 DEF Inv, TypeOK, AtMostOneRow, RunOrNone
<1>22. RequestsOK' /\ RemovalsKnow' /\ OnlyKinds' /\ NullMeansGone'
  <2>1. nextRow' \in Nat /\ nextRow' >= nextRow /\ rows' \subseteq moved /\ sent \subseteq sent'
    BY <1>4, <1>6, <1>7, <1>11
  <2>2. \A y \in rows' : y.id >= nextRow \/ \E x \in rows : x.id = y.id /\ x.job = y.job
    BY <1>9, <2>1
  <2> QED
    BY <1>4, <2>1, <2>2, OthersKnow
<1> QED
  BY <1>20, <1>21, <1>22 DEF Inv

-------------------------------------------------------------------------------
\* Every step keeps the invariant.
LEMMA RacesStep == Inv /\ [Next]_vars => Inv'
<1> SUFFICES ASSUME Inv, [Next]_vars PROVE Inv'
  OBVIOUS
<1>1. CASE UNCHANGED vars
  BY <1>1 DEF vars, Inv, TypeOK, RequestsOK, RemovalsKnow, OnlyKinds, NullMeansGone, AtMostOneRow,
              RowsAgree, PlacedOnLiveRun, RowsOf, WholeMoves
<1>2. ASSUME UNCHANGED kinds, NEW c \in Clients, Start(c) PROVE Inv'
  <2>1. CASE \E j \in Jobs, r \in Runs, from \in RunOrNone : UpsertCheck(c, j, r, from)
    BY <1>2, <2>1, StepUpsertCheck
  <2>2. CASE \E S \in SUBSET Jobs, r \in Runs, del \in RunOrNone :
               \E from \in [S -> RunOrNone] : AssignFind(c, S, r, from, del)
    BY <1>2, <2>2, StepAssignFind
  <2>3. CASE \E j \in Jobs : RemoveFindLink(c, j)
    BY <1>2, <2>3, StepRemoveFindLink
  <2>4. CASE \E r \in Runs : DeleteFindLinks(c, r)
    BY <1>2, <2>4, StepDeleteFinds
  <2> QED
    BY <1>2, <2>1, <2>2, <2>3, <2>4 DEF Start, RunOrNone
<1>3. ASSUME UNCHANGED kinds, NEW c \in Clients, Continue(c) PROVE Inv'
  BY <1>3, StepUpsertMerge, StepUpsertMirror, StepAssignCommit, StepRemoveFindJob, StepRemoveSave,
     StepDeleteFinds, StepDeleteSave, StepFail DEF Continue
<1>4. ASSUME UNCHANGED kinds, NEW j \in Jobs, Send(j) PROVE Inv'
  BY <1>4, StepSend
<1> QED
  BY <1>1, <1>2, <1>3, <1>4 DEF Next

\* What every reachable state has.
LEMMA RacesAlways == Spec => []Inv
  BY RacesStart, RacesStep, PTL DEF Spec

\* Link rows have their own ids, below the next one, and name jobs and runs.
THEOREM RacesTypes == Spec => []TypeOK
<1>1. Inv => TypeOK
  BY DEF Inv
<1> QED
  BY <1>1, RacesAlways, PTL

\* However the requests interleave, a job never gets a second link row.
THEOREM OneRow == Spec => []AtMostOneRow
<1>1. Inv => AtMostOneRow
  BY DEF Inv
<1> QED
  BY <1>1, RacesAlways, PTL

\* With whole moves, removals and sends, the link row and the job row name the same run.
THEOREM CopiesAgree == Spec => []RowsAgree
<1>1. Inv => RowsAgree
  BY DEF Inv
<1> QED
  BY <1>1, RacesAlways, PTL

\* With the same requests, no job on the board is left on a run that a merge took away.
THEOREM OnLiveRun == Spec => []PlacedOnLiveRun
<1>1. Inv => PlacedOnLiveRun
  BY DEF Inv
<1> QED
  BY <1>1, RacesAlways, PTL

\* However many clients' requests interleave, the two tables agree as far as their requests are whole.
THEOREM TablesTold == Spec => []TablesAgree
  BY OneRow, CopiesAgree, OnLiveRun, PTL DEF TablesAgree

-------------------------------------------------------------------------------
(* The board                                                               *)

\* Where the jobs are, told apart from a job that was sent.
LEMMA PlaceOf ==
  ASSUME Inv
  PROVE  /\ \A j \in Jobs : place[j] = IF j \in sent THEN Sent ELSE jobRun[j]
         /\ Sent \notin RunOrNone /\ jobRun \in [Jobs -> RunOrNone] /\ sent \subseteq Jobs
<1>1. jobRun \in [Jobs -> RunOrNone] /\ sent \subseteq Jobs
  BY DEF Inv, TypeOK, RunOrNone
<1>2. Sent \notin RunOrNone
  BY RunsAssumption DEF Sent, RunOrNone, None
<1> QED
  BY <1>1, <1>2 DEF place

\* The commit of a batch puts it on its run; that of a merge closes the other one as well.
LEMMA CommitOnBoard ==
  ASSUME Inv, Inv', WholeMoves, NEW c \in Clients, AssignCommit(c), UNCHANGED kinds
  PROVE  Board!Next
<1>1. req[c] \in AssignReq /\ req[c].del # req[c].run
  BY DEF AssignCommit, Inv, RequestsOK, Reqs, Idle, UpsertReq, AssignReq, RemoveReq, RemoveSaveReq,
         DeleteReq, DeleteSaveReq
<1>2. PICK S, r, del : S = req[c].jobs /\ r = req[c].run /\ del = req[c].del
  OBVIOUS
<1>3. S \subseteq Jobs /\ r \in Runs /\ r \in runs /\ del \in RunOrNone /\ del # r
  BY <1>1, <1>2 DEF AssignReq, AssignCommit
<1>4. AssignWrite(S, r, del, req[c].read) /\ sent' = sent
  BY <1>2 DEF AssignCommit
<1>5. PICK left :
        /\ del = None \/ del \notin runs => left = {}
        /\ jobRun' = Released([j \in Jobs |-> IF j \in S THEN r ELSE jobRun[j]], left, del)
        /\ runs' = runs \ {del}
  BY <1>4 DEF AssignWrite
<1>6. \A j \in Jobs : jobRun'[j] \in {None, IF j \in S THEN r ELSE jobRun[j]}
  BY <1>5 DEF Released
<1>7. \A j \in Jobs : j \in S \/ jobRun[j] # del \/ left = {} =>
        jobRun'[j] = IF j \in S THEN r ELSE jobRun[j]
  BY <1>3, <1>5 DEF Released
<1>8. /\ \A j \in Jobs : place[j] = IF j \in sent THEN Sent ELSE jobRun[j]
      /\ \A j \in Jobs : place'[j] = IF j \in sent THEN Sent ELSE jobRun'[j]
      /\ Sent \notin RunOrNone /\ jobRun \in [Jobs -> RunOrNone]
  BY <1>4, PlaceOf DEF place
<1>9. place' = [j \in Jobs |-> place'[j]]
  BY DEF place
<1>10. runs \subseteq Runs /\ None \notin Runs
  BY RunsAssumption DEF Inv, TypeOK
<1>11. CASE del \notin runs
  <2>1. \A j \in Jobs : place'[j] = IF j \in S /\ place[j] # Sent THEN r ELSE place[j]
    BY <1>5, <1>7, <1>8, <1>11
  <2>2. place' = Board!Put(S, r)
    BY <1>9, <2>1 DEF Board!Put
  <2>3. runs' = runs \cup {r}
    BY <1>3, <1>5, <1>11
  <2> QED
    BY <1>3, <2>2, <2>3 DEF Board!Next, Board!Place
<1>12. CASE del \in runs
  <2>1. \A j \in Jobs \ sent : jobRun'[j] \in runs' \cup {None}
    BY <1>4 DEF Inv, PlacedOnLiveRun, WholeMoves
  <2>2. \A j \in Jobs \ sent : j \notin S /\ jobRun[j] = del => jobRun'[j] = None
    BY <1>5, <1>6, <2>1
  <2>3. \A j \in Jobs : place'[j] = IF place[j] # del \/ j \in S
                                    THEN IF j \in S /\ place[j] # Sent THEN r ELSE place[j]
                                    ELSE None
    <3> SUFFICES ASSUME NEW j \in Jobs
                 PROVE  place'[j] = IF place[j] # del \/ j \in S
                                    THEN IF j \in S /\ place[j] # Sent THEN r ELSE place[j]
                                    ELSE None
      OBVIOUS
    <3>1. CASE j \in sent
      BY <1>3, <1>8, <3>1
    <3>2. CASE j \notin sent
      BY <1>7, <1>8, <2>2, <3>2
    <3> QED
      BY <3>1, <3>2
  <2>4. place' = [j \in Jobs |-> IF place[j] # del \/ j \in S THEN Board!Put(S, r)[j] ELSE None]
    BY <1>9, <2>3 DEF Board!Put
  <2>5. Board!Close(del, S, r)
    BY <1>3, <1>5, <1>12, <2>4 DEF Board!Close
  <2> QED
    BY <1>3, <1>10, <1>12, <2>5 DEF Board!Next
<1> QED
  BY <1>11, <1>12

\* The save of a removal makes its job unbuilt, if it did not read that it is already.
LEMMA RemovalOnBoard ==
  ASSUME Inv, WholeMoves, NEW c \in Clients, RemoveSave(c), UNCHANGED kinds
  PROVE  Board!Next \/ UNCHANGED <<place, runs>>
<1>1. req[c] \in RemoveSaveReq
  BY DEF RemoveSave, Inv, RequestsOK, Reqs, Idle, UpsertReq, AssignReq, RemoveReq, RemoveSaveReq,
         DeleteReq, DeleteSaveReq
<1>2. PICK j \in Jobs : j = req[c].job
  BY <1>1 DEF RemoveSaveReq
<1>3. UNCHANGED <<sent, runs>>
  BY DEF RemoveSave
<1>4. CASE req[c].had = None
  BY <1>3, <1>4 DEF RemoveSave, place
<1>5. CASE req[c].had # None
  <2>1. jobRun' = [jobRun EXCEPT ![j] = None]
    BY <1>2, <1>5 DEF RemoveSave
  <2>2. \A k \in Jobs : place'[k] = IF k \in {j} /\ place[k] # Sent THEN None ELSE place[k]
    BY <1>3, <2>1, PlaceOf DEF place
  <2>3. place' = Board!Put({j}, None)
    BY <2>2 DEF Board!Put, place
  <2> QED
    BY <1>2, <1>3, <2>3 DEF Board!Next, Board!Release
<1> QED
  BY <1>4, <1>5

\* A call of the procedure sends its job.
LEMMA SendOnBoard ==
  ASSUME Inv, NEW j \in Jobs, Send(j)
  PROVE  Board!Next
<1>1. \A k \in Jobs : place'[k] = IF k = j THEN Sent ELSE place[k]
  BY DEF Send, place
<1>2. place' = [place EXCEPT ![j] = Sent]
  BY <1>1 DEF place
<1> QED
  BY <1>2 DEF Board!Next, Board!Send, Send

\* A step of the requests is a step of the board, or none.
LEMMA StepOnBoard ==
  ASSUME Inv, Inv', [Next]_vars
  PROVE  [WholeMoves => Board!Next]_<<place, runs>>
<1> SUFFICES ASSUME WholeMoves PROVE Board!Next \/ UNCHANGED <<place, runs>>
  OBVIOUS
<1>1. CASE UNCHANGED vars
  BY <1>1 DEF vars, place
<1>2. ASSUME NEW c \in Clients, Start(c) PROVE UNCHANGED <<place, runs>>
  BY <1>2 DEF Start, UpsertCheck, AssignFind, RemoveFindLink, DeleteFindLinks, place
<1>3. ASSUME NEW c \in Clients, Continue(c), UNCHANGED kinds PROVE Board!Next \/ UNCHANGED <<place, runs>>
  <2>1. ~ UpsertMirror(c) /\ ~ UpsertMerge(c) /\ ~ DeleteSave(c)
    BY DEF Inv, OnlyKinds, WholeMoves, UpsertMirror, UpsertMerge, DeleteSave
  <2>2. CASE RemoveFindJob(c) \/ DeleteFindJobs(c) \/ Fail(c)
    BY <2>2 DEF RemoveFindJob, DeleteFindJobs, Fail, place
  <2> QED
    BY <1>3, <2>1, <2>2, CommitOnBoard, RemovalOnBoard DEF Continue
<1> QED
  BY <1>1, <1>2, <1>3, SendOnBoard DEF Next

\* Batches, merges, removals and sends, interleaved at their awaits, implement the job board.
THEOREM RacesOnTheBoard == Spec => ImplementsBoard
<1>1. Init => Board!Init
  BY RunsAssumption DEF Init, Board!Init, place
<1>2. Inv /\ Inv' /\ [Next]_vars => [WholeMoves => Board!Next]_<<place, runs>>
  BY StepOnBoard
<1> QED
  BY <1>1, <1>2, RacesAlways, PTL DEF Spec, ImplementsBoard

-------------------------------------------------------------------------------
(* TenantScopedCache                                                       *)

InGate(g, p) == \E i \in DOMAIN g : g[i] = p

Distinct(g) == \A i, j \in DOMAIN g : g[i] = g[j] => i = j

\* Who is inside the gate is first in its queue.
InsideHolds == \A p \in Requests : stage[p] \in Inside => Holds(p)

\* Nothing is newer than what is stored.
NotAhead ==
  /\ \A s \in Listed : patched[s] <= stored[s] /\ entry[s] <= stored[s]
  /\ \A p \in Requests, s \in Listed : held[p][s] <= stored[s]

\* A list on its way into the cache has every row that was patched: this is where the gate is
\* needed, for nobody else patches while the list is in hand.
HeldHasPatches ==
  \A p \in Requests : stage[p] \in {"store", "patch", "patchStore"} =>
    \A s \in Listed : held[p][s] >= patched[s]

QueueOK ==
  /\ stage \in [Requests -> Stages]
  /\ gate \in Seq(Requests) /\ Distinct(gate)
  /\ \A p \in Requests : stage[p] \in Gated <=> InGate(gate, p)
  /\ InsideHolds

ListsOK ==
  /\ stored \in [Listed -> 0..MaxVersion]
  /\ entry \in Lists
  /\ held \in [Requests -> Lists]
  /\ about \in [Requests -> Listed \X (0..MaxVersion)]
  /\ patched \in [Listed -> 0..MaxVersion]
  /\ confirmed \in [Listed -> 0..MaxVersion]

\* The inductive invariant.
CacheInv == QueueOK /\ ListsOK /\ NotAhead /\ HeldHasPatches /\ PatchIsKept

-------------------------------------------------------------------------------
(* The queue of the gate                                                   *)

\* One that was not waiting joins the end.
LEMMA Joins ==
  ASSUME NEW g \in Seq(Requests), Distinct(g), NEW p \in Requests, ~InGate(g, p)
  PROVE  /\ Append(g, p) \in Seq(Requests) /\ Distinct(Append(g, p))
         /\ \A q : InGate(Append(g, p), q) <=> InGate(g, q) \/ q = p
         /\ Append(g, p) # << >>
         /\ g # << >> => Head(Append(g, p)) = Head(g)
<1> DEFINE h == Append(g, p)
<1>1. /\ h \in Seq(Requests) /\ Len(h) = Len(g) + 1 /\ Len(g) \in Nat
      /\ DOMAIN h = 1 .. Len(g) + 1 /\ DOMAIN g = 1 .. Len(g)
  OBVIOUS
<1>2. h[Len(g) + 1] = p /\ \A i \in 1 .. Len(g) : h[i] = g[i]
  OBVIOUS
<1>3. g # << >> => Len(g) > 0
  OBVIOUS
<1>4. Head(h) = h[1] /\ (g # << >> => Head(g) = g[1])
  BY <1>1
<1>5. h # << >>
  BY <1>1
<1> HIDE DEF h
<1>6. Distinct(h)
  BY <1>1, <1>2 DEF Distinct, InGate
<1>7. ASSUME NEW q PROVE InGate(h, q) <=> InGate(g, q) \/ q = p
  <2>1. Len(g) + 1 \in DOMAIN h
    BY <1>1
  <2>2. ASSUME NEW i \in DOMAIN h PROVE i = Len(g) + 1 \/ i \in DOMAIN g
    BY <1>1
  <2>3. DOMAIN g \subseteq DOMAIN h
    BY <1>1
  <2> QED
    BY <2>1, <2>2, <2>3, <1>1, <1>2 DEF InGate
<1>8. g # << >> => Head(h) = Head(g)
  BY <1>1, <1>2, <1>3, <1>4
<1> QED
  BY <1>1, <1>5, <1>6, <1>7, <1>8 DEF h

\* The first one leaves.
LEMMA Leaves ==
  ASSUME NEW g \in Seq(Requests), Distinct(g), g # << >>
  PROVE  /\ Tail(g) \in Seq(Requests) /\ Distinct(Tail(g))
         /\ \A q : InGate(Tail(g), q) <=> InGate(g, q) /\ q # Head(g)
<1> DEFINE h == Tail(g)
<1>1. /\ h \in Seq(Requests) /\ Len(h) = Len(g) - 1 /\ Len(g) \in Nat \ {0}
      /\ DOMAIN h = 1 .. Len(g) - 1 /\ DOMAIN g = 1 .. Len(g)
  OBVIOUS
<1>2. \A i \in 1 .. Len(g) - 1 : h[i] = g[i + 1]
  OBVIOUS
<1>3. Head(g) = g[1]
  OBVIOUS
<1> HIDE DEF h
<1>4. Distinct(h)
  <2>1. ASSUME NEW i \in DOMAIN h, NEW j \in DOMAIN h, h[i] = h[j] PROVE i = j
    <3>1. i + 1 \in DOMAIN g /\ j + 1 \in DOMAIN g /\ g[i + 1] = g[j + 1] /\ i \in Nat /\ j \in Nat
      BY <2>1, <1>1, <1>2
    <3>2. i + 1 = j + 1
      BY <3>1 DEF Distinct
    <3> QED
      BY <3>1, <3>2
  <2> QED
    BY <2>1 DEF Distinct
<1>5. ASSUME NEW q PROVE InGate(h, q) <=> InGate(g, q) /\ q # Head(g)
  <2>1. ASSUME InGate(h, q) PROVE InGate(g, q) /\ q # Head(g)
    <3>1. PICK i \in 1 .. Len(g) - 1 : h[i] = q
      BY <2>1, <1>1 DEF InGate
    <3>2. i + 1 \in DOMAIN g /\ 1 \in DOMAIN g /\ g[i + 1] = q /\ i + 1 # 1
      BY <3>1, <1>1, <1>2
    <3> QED
      BY <3>2, <1>3 DEF InGate, Distinct
  <2>2. ASSUME InGate(g, q), q # Head(g) PROVE InGate(h, q)
    <3>1. PICK i \in DOMAIN g : g[i] = q
      BY <2>2 DEF InGate
    <3>2. i # 1
      BY <3>1, <2>2, <1>3
    <3>3. i - 1 \in DOMAIN h /\ h[i - 1] = g[i - 1 + 1] /\ i - 1 + 1 = i
      BY <3>2, <1>1, <1>2
    <3> QED
      BY <3>1, <3>3 DEF InGate
  <2> QED
    BY <2>1, <2>2
<1> QED
  BY <1>1, <1>4, <1>5 DEF h

-------------------------------------------------------------------------------
(* What the ways through the gate do to the queue                          *)

\* A request that has nothing to do with the gate goes on.
LEMMA PassesBy ==
  ASSUME QueueOK, NEW p \in Requests, NEW to \in Stages \ Gated, stage[p] \notin Gated,
         Goes(p, to), UNCHANGED gate
  PROVE  QueueOK'
  BY DEF QueueOK, Goes, InsideHolds, Holds, Gated, Inside

\* A request queues.
LEMMA Queues ==
  ASSUME QueueOK, NEW p \in Requests, NEW to \in {"fillWait", "patchWait"}, stage[p] \notin Gated,
         Wait(p, to)
  PROVE  QueueOK'
<1>1. ~InGate(gate, p)
  BY DEF QueueOK
<1>2. /\ gate' \in Seq(Requests) /\ Distinct(gate')
      /\ \A q : InGate(gate', q) <=> InGate(gate, q) \/ q = p
      /\ gate' # << >>
      /\ gate # << >> => Head(gate') = Head(gate)
  BY <1>1, Joins DEF Wait, QueueOK
<1>3. stage' = [stage EXCEPT ![p] = to] /\ stage' \in [Requests -> Stages]
  BY DEF Wait, Goes, QueueOK, Stages
<1>4. \A q \in Requests : stage'[q] \in Gated <=> InGate(gate', q)
  BY <1>2, <1>3 DEF QueueOK, Gated
<1>5. ASSUME NEW q \in Requests, stage'[q] \in Inside PROVE Holds(q)'
  <2>1. stage[q] \in Inside
    BY <1>3, <1>5 DEF QueueOK, Inside
  <2> QED
    BY <2>1, <1>2 DEF QueueOK, InsideHolds, Holds
<1> QED
  BY <1>2, <1>3, <1>4, <1>5 DEF QueueOK, InsideHolds

\* The holder goes on inside the gate.
LEMMA GoesOn ==
  ASSUME QueueOK, NEW p \in Requests, NEW to \in Inside, stage[p] \in Gated, Holds(p),
         Goes(p, to), UNCHANGED gate
  PROVE  QueueOK'
  BY DEF QueueOK, Goes, InsideHolds, Holds, Gated, Inside, Stages

\* The holder leaves: nobody is inside.
LEMMA HandsOver ==
  ASSUME QueueOK, NEW p \in Requests, NEW to \in Stages \ Gated, stage[p] \in Gated, Holds(p),
         Leave(p, to)
  PROVE  QueueOK' /\ \A q \in Requests : stage'[q] \notin Inside
<1>1. /\ gate' \in Seq(Requests) /\ Distinct(gate')
      /\ \A q : InGate(gate', q) <=> InGate(gate, q) /\ q # p
  BY Leaves DEF Leave, QueueOK, Holds
<1>2. stage' = [stage EXCEPT ![p] = to] /\ stage' \in [Requests -> Stages]
  BY DEF Leave, Goes, QueueOK
<1>3. \A q \in Requests : stage'[q] \in Gated <=> InGate(gate', q)
  BY <1>1, <1>2 DEF QueueOK
<1>4. \A q \in Requests : stage'[q] \notin Inside
  BY <1>2 DEF QueueOK, InsideHolds, Holds, Gated
<1> QED
  BY <1>1, <1>2, <1>3, <1>4 DEF QueueOK, InsideHolds

-------------------------------------------------------------------------------
(* The steps                                                               *)

\* Nothing is cached and every request is idle.
LEMMA CacheStart == CacheInit => CacheInv
<1> SUFFICES ASSUME CacheInit PROVE CacheInv
  OBVIOUS
<1>1. QueueOK
  <2>1. gate \in Seq(Requests) /\ DOMAIN gate = {}
    BY DEF CacheInit
  <2>2. stage = [p \in Requests |-> "idle"]
    BY DEF CacheInit
  <2> QED
    BY <2>1, <2>2 DEF QueueOK, Distinct, InGate, InsideHolds, Stages, Gated, Inside
<1>2. ListsOK
  BY MaxVersionAssumption DEF CacheInit, ListsOK, Lists, Empty
<1>3. NotAhead /\ HeldHasPatches /\ PatchIsKept
  BY DEF CacheInit, NotAhead, HeldHasPatches, PatchIsKept, Empty
<1> QED
  BY <1>1, <1>2, <1>3 DEF CacheInv

\* Steps that write neither the list nor what a request has in hand, nor a version.
LEMMA QueueOnly ==
  ASSUME CacheInv, QueueOK', UNCHANGED <<stored, entry, held, about, patched, confirmed>>,
         \A p \in Requests : stage'[p] \in {"store", "patch", "patchStore"} => stage'[p] = stage[p]
  PROVE  CacheInv'
  BY DEF CacheInv, ListsOK, NotAhead, HeldHasPatches, PatchIsKept

\* Every step keeps the invariant.
LEMMA CacheStep == CacheInv /\ [CacheNext]_cacheVars => CacheInv'
<1> SUFFICES ASSUME CacheInv, [CacheNext]_cacheVars PROVE CacheInv'
  OBVIOUS
<1>0. /\ QueueOK
      /\ stage \in [Requests -> Stages] /\ stored \in [Listed -> 0..MaxVersion] /\ entry \in Lists
      /\ held \in [Requests -> Lists] /\ about \in [Requests -> Listed \X (0..MaxVersion)]
      /\ patched \in [Listed -> 0..MaxVersion] /\ confirmed \in [Listed -> 0..MaxVersion]
      /\ MaxVersion \in Nat /\ Empty \in Lists
  BY MaxVersionAssumption DEF CacheInv, QueueOK, ListsOK, Empty, Lists
<1>1. CASE UNCHANGED cacheVars
  BY <1>1 DEF cacheVars, CacheInv, QueueOK, ListsOK, NotAhead, HeldHasPatches, PatchIsKept,
              InsideHolds, Holds, InGate, Distinct
<1>2. ASSUME NEW p \in Requests, Read(p) PROVE CacheInv'
  <2>1. CASE UNCHANGED <<stage, gate>>
    BY <1>2, <2>1, <1>0, QueueOnly DEF Read, QueueOK, InsideHolds, Holds
  <2>2. CASE Wait(p, "fillWait")
    <3>1. QueueOK'
      BY <1>2, <2>2, <1>0, Queues DEF Read, Gated, Inside
    <3> QED
      BY <1>2, <2>2, <3>1, <1>0, QueueOnly DEF Read, Wait, Goes
  <2> QED
    BY <1>2, <2>1, <2>2 DEF Read
<1>3. ASSUME NEW p \in Requests, Recheck(p) PROVE CacheInv'
  <2>1. QueueOK'
    BY <1>3, <1>0, GoesOn, HandsOver DEF Recheck, Gated, Inside, Stages
  <2> QED
    BY <1>3, <2>1, <1>0, QueueOnly DEF Recheck, Leave, Goes
<1>4. ASSUME NEW p \in Requests, Load(p) PROVE CacheInv'
  <2>1. stage[p] \in Inside /\ stage[p] \in Gated /\ Holds(p)
    BY <1>4, <1>0 DEF Load, Gated, Inside, QueueOK, InsideHolds
  <2>2. QueueOK'
    BY <1>4, <2>1, <1>0, GoesOn DEF Load, Inside
  <2>3. held' = [held EXCEPT ![p] = stored] /\ stage' = [stage EXCEPT ![p] = "store"]
        /\ UNCHANGED <<stored, entry, about, patched, confirmed>>
    BY <1>4 DEF Load, Holding, Goes
  <2>4. ListsOK'
    BY <2>3, <1>0 DEF ListsOK, Lists
  <2>5. NotAhead' /\ PatchIsKept'
    BY <2>3, <1>0 DEF CacheInv, NotAhead, PatchIsKept
  <2>6. HeldHasPatches'
    BY <2>3, <1>0 DEF CacheInv, NotAhead, HeldHasPatches
  <2> QED
    BY <2>2, <2>4, <2>5, <2>6 DEF CacheInv
<1>5. ASSUME NEW p \in Requests, LoadFails(p) PROVE CacheInv'
  <2>1. stage[p] \in Gated /\ Holds(p)
    BY <1>5, <1>0 DEF LoadFails, Gated, Inside, QueueOK, InsideHolds
  <2>2. QueueOK'
    BY <1>5, <2>1, <1>0, HandsOver DEF LoadFails, Stages, Gated, Inside
  <2> QED
    BY <1>5, <2>2, <1>0, QueueOnly DEF LoadFails, Leave, Goes
<1>6. ASSUME NEW p \in Requests, Store(p) PROVE CacheInv'
  <2>1. stage[p] \in Gated /\ Holds(p)
    BY <1>6, <1>0 DEF Store, Gated, Inside, QueueOK, InsideHolds
  <2>2. QueueOK' /\ \A q \in Requests : stage'[q] \notin Inside
    BY <1>6, <2>1, <1>0, HandsOver DEF Store, Stages, Gated, Inside
  <2>3. entry' = held[p] /\ held' = [held EXCEPT ![p] = Empty]
        /\ UNCHANGED <<stored, about, patched, confirmed>>
    BY <1>6 DEF Store, Holding
  <2>4. ListsOK'
    BY <2>3, <1>0 DEF ListsOK
  <2>5. NotAhead'
    BY <2>3, <1>0 DEF CacheInv, NotAhead, Empty
  <2>6. HeldHasPatches'
    BY <2>2 DEF HeldHasPatches, Inside
  <2>7. PatchIsKept'
    BY <1>6, <2>3, <1>0 DEF CacheInv, HeldHasPatches, PatchIsKept, Store
  <2> QED
    BY <2>2, <2>4, <2>5, <2>6, <2>7 DEF CacheInv
<1>7. ASSUME NEW p \in Requests, NEW s \in Listed, NEW next \in {"refresh", "drop"}, Save(p, s, next)
      PROVE  CacheInv'
  <2>1. QueueOK'
    BY <1>7, <1>0, PassesBy DEF Save, Stages, Gated, Inside
  <2>2. /\ stored' = [stored EXCEPT ![s] = @ + 1] /\ stored[s] < MaxVersion
        /\ about' = [about EXCEPT ![p] = <<s, stored[s] + 1>>]
        /\ stage' = [stage EXCEPT ![p] = next]
        /\ UNCHANGED <<entry, held, patched, confirmed>>
    BY <1>7 DEF Save, Goes
  <2>3. stored' \in [Listed -> 0..MaxVersion] /\ \A t \in Listed : stored[t] <= stored'[t]
    BY <2>2, <1>0
  <2>4. ListsOK'
    BY <2>2, <2>3, <1>0 DEF ListsOK
  <2>5. NotAhead'
    BY <2>2, <2>3, <1>0 DEF CacheInv, NotAhead, Lists
  <2>6. HeldHasPatches' /\ PatchIsKept'
    BY <2>2, <1>0 DEF CacheInv, HeldHasPatches, PatchIsKept
  <2> QED
    BY <2>1, <2>4, <2>5, <2>6 DEF CacheInv
<1>8. ASSUME NEW p \in Requests, Refresh(p) PROVE CacheInv'
  <2>1. QueueOK'
    BY <1>8, <1>0, PassesBy, Queues DEF Refresh, Stages, Gated, Inside
  <2> QED
    BY <1>8, <2>1, <1>0, QueueOnly DEF Refresh, Wait, Goes
<1>9. ASSUME NEW p \in Requests, PatchRead(p) PROVE CacheInv'
  <2>1. stage[p] \in Gated /\ Holds(p)
    BY <1>9 DEF PatchRead, Gated
  <2>2. CASE entry = Empty
    <3>1. QueueOK'
      BY <1>9, <2>1, <2>2, <1>0, HandsOver DEF PatchRead, Stages, Gated, Inside
    <3> QED
      BY <1>9, <2>2, <3>1, <1>0, QueueOnly DEF PatchRead, Leave, Goes
  <2>3. CASE entry # Empty
    <3>1. QueueOK'
      BY <1>9, <2>1, <2>3, <1>0, GoesOn DEF PatchRead, Inside
    <3>2. held' = [held EXCEPT ![p] = entry] /\ stage' = [stage EXCEPT ![p] = "patch"]
          /\ UNCHANGED <<stored, entry, about, patched, confirmed>>
      BY <1>9, <2>3 DEF PatchRead, Holding, Goes
    <3>3. ListsOK' /\ NotAhead' /\ PatchIsKept'
      BY <3>2, <1>0 DEF CacheInv, ListsOK, NotAhead, PatchIsKept
    <3>4. HeldHasPatches'
      BY <3>2, <2>3, <1>0 DEF CacheInv, HeldHasPatches, PatchIsKept
    <3> QED
      BY <3>1, <3>3, <3>4 DEF CacheInv
  <2> QED
    BY <2>2, <2>3
<1>10. ASSUME NEW p \in Requests, Patch(p) PROVE CacheInv'
  <2>1. stage[p] \in Gated /\ Holds(p)
    BY <1>10, <1>0 DEF Patch, Gated, Inside, QueueOK, InsideHolds
  <2>2. QueueOK'
    BY <1>10, <2>1, <1>0, GoesOn DEF Patch, Inside
  <2> DEFINE row == about[p][1]
             list == [held[p] EXCEPT ![row] = stored[row]]
  <2>3. row \in Listed
    BY <1>0
  <2>4. held' = [held EXCEPT ![p] = list] /\ stage' = [stage EXCEPT ![p] = "patchStore"]
        /\ UNCHANGED <<stored, entry, about, patched, confirmed>>
    BY <1>10 DEF Patch, Holding, Goes, Row
  <2>5. /\ list \in Lists
        /\ \A s \in Listed : list[s] <= stored[s] /\ list[s] >= patched[s]
    BY <2>3, <1>0, <1>10 DEF CacheInv, NotAhead, HeldHasPatches, Lists, Patch
  <2> HIDE DEF list, row
  <2>6. ListsOK'
    BY <2>4, <2>5, <1>0 DEF ListsOK
  <2>7. NotAhead' /\ PatchIsKept'
    BY <2>4, <2>5, <1>0 DEF CacheInv, NotAhead, PatchIsKept
  <2>8. HeldHasPatches'
    BY <2>4, <2>5, <1>0 DEF CacheInv, HeldHasPatches
  <2> QED
    BY <2>2, <2>6, <2>7, <2>8 DEF CacheInv
<1>11. ASSUME NEW p \in Requests, PatchFails(p) PROVE CacheInv'
  <2>1. stage[p] \in Gated /\ Holds(p)
    BY <1>11, <1>0 DEF PatchFails, Gated, Inside, QueueOK, InsideHolds
  <2>2. QueueOK' /\ \A q \in Requests : stage'[q] \notin Inside
    BY <1>11, <2>1, <1>0, HandsOver DEF PatchFails, Stages, Gated, Inside
  <2>3. held' = [held EXCEPT ![p] = Empty] /\ UNCHANGED <<stored, entry, about, patched, confirmed>>
    BY <1>11 DEF PatchFails, Holding
  <2>4. ListsOK' /\ PatchIsKept'
    BY <2>3, <1>0 DEF CacheInv, ListsOK, PatchIsKept
  <2>5. NotAhead'
    BY <2>3, <1>0 DEF CacheInv, NotAhead, Empty
  <2>6. HeldHasPatches'
    BY <2>2 DEF HeldHasPatches, Inside
  <2> QED
    BY <2>2, <2>4, <2>5, <2>6 DEF CacheInv
<1>12. ASSUME NEW p \in Requests, PatchStore(p) PROVE CacheInv'
  <2>1. stage[p] \in Gated /\ Holds(p)
    BY <1>12, <1>0 DEF PatchStore, Gated, Inside, QueueOK, InsideHolds
  <2>2. QueueOK' /\ \A q \in Requests : stage'[q] \notin Inside
    BY <1>12, <2>1, <1>0, HandsOver DEF PatchStore, Stages, Gated, Inside
  <2> DEFINE row == about[p][1]
  <2>3. row \in Listed /\ about[p][2] \in 0..MaxVersion
    BY <1>0
  <2>4. /\ entry' = held[p] /\ held' = [held EXCEPT ![p] = Empty]
        /\ patched' = [patched EXCEPT ![row] = held[p][row]]
        /\ confirmed' = [confirmed EXCEPT ![row] = IF about[p][2] > @ THEN about[p][2] ELSE @]
        /\ UNCHANGED <<stored, about>>
    BY <1>12 DEF PatchStore, Holding, Answered, Row
  <2>5. \A s \in Listed : held[p][s] >= patched[s] /\ held[p][s] <= stored[s]
    BY <1>12, <1>0 DEF CacheInv, NotAhead, HeldHasPatches, PatchStore
  <2> HIDE DEF row
  <2>6. patched' \in [Listed -> 0..MaxVersion] /\ \A s \in Listed : patched'[s] <= held[p][s]
    BY <2>3, <2>4, <2>5, <1>0 DEF Lists
  <2>7. ListsOK'
    BY <2>3, <2>4, <2>6, <1>0 DEF ListsOK
  <2>8. NotAhead'
    BY <2>4, <2>5, <2>6, <1>0 DEF CacheInv, NotAhead, Empty, Lists
  <2>9. HeldHasPatches'
    BY <2>2 DEF HeldHasPatches, Inside
  <2>10. PatchIsKept'
    BY <2>4, <2>6, <1>0 DEF PatchIsKept, Lists
  <2> QED
    BY <2>2, <2>7, <2>8, <2>9, <2>10 DEF CacheInv
<1>13. ASSUME NEW p \in Requests, Drop(p) PROVE CacheInv'
  <2>1. QueueOK'
    BY <1>13, <1>0, PassesBy DEF Drop, Stages, Gated, Inside
  <2>2. /\ entry' = Empty /\ stage' = [stage EXCEPT ![p] = "idle"]
        /\ UNCHANGED <<stored, held, about, patched>>
    BY <1>13 DEF Drop, Goes
  <2>3. confirmed' \in [Listed -> 0..MaxVersion]
    BY <1>13, <1>0 DEF Drop, Answered, Row
  <2>4. ListsOK'
    BY <2>2, <2>3, <1>0 DEF ListsOK
  <2>5. NotAhead' /\ HeldHasPatches' /\ PatchIsKept'
    BY <2>2, <1>0 DEF CacheInv, NotAhead, HeldHasPatches, PatchIsKept, Empty
  <2> QED
    BY <2>1, <2>4, <2>5 DEF CacheInv
<1>14. CASE Expire
  <2>1. entry' = Empty /\ UNCHANGED <<stored, gate, stage, held, about, patched, confirmed>>
    BY <1>14 DEF Expire
  <2>2. QueueOK'
    BY <2>1, <1>0 DEF QueueOK, InsideHolds, Holds
  <2>3. ListsOK'
    BY <2>1, <1>0 DEF ListsOK
  <2>4. NotAhead' /\ HeldHasPatches' /\ PatchIsKept'
    BY <2>1, <1>0 DEF CacheInv, NotAhead, HeldHasPatches, PatchIsKept, Empty
  <2> QED
    BY <2>2, <2>3, <2>4 DEF CacheInv
<1> QED
  BY <1>1, <1>2, <1>3, <1>4, <1>5, <1>6, <1>7, <1>8, <1>9, <1>10, <1>11, <1>12, <1>13, <1>14
  DEF CacheNext, RunsOn

\* What the requests pass through.
LEMMA CacheAlways == CacheSpec => []CacheInv
  BY CacheStart, CacheStep, PTL DEF CacheSpec

\* The gate's queue holds exactly those that wait or are inside, whoever comes, fails or throws.
THEOREM GateQueue == CacheSpec => []CacheTypeOK
<1>1. CacheInv => CacheTypeOK
  BY DEF CacheInv, QueueOK, ListsOK, CacheTypeOK, Distinct, InGate
<1> QED
  BY <1>1, CacheAlways, PTL

\* The gate admits one rebuild or patch at a time.
THEOREM OneInside == CacheSpec => []OneAtATime
<1>1. CacheInv => OneAtATime
  BY DEF CacheInv, QueueOK, InsideHolds, Holds, OneAtATime
<1> QED
  BY <1>1, CacheAlways, PTL

\* A row patched into the list is lost neither to another patch nor to a rebuild.
THEOREM PatchKept == CacheSpec => []PatchIsKept
<1>1. CacheInv => PatchIsKept
  BY DEF CacheInv
<1> QED
  BY <1>1, CacheAlways, PTL

===============================================================================
