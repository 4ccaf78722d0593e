----------------------------- MODULE CockpitProofs -----------------------------
(***************************************************************************)
(* RunBuilder and Cockpit for any number of jobs, runs, days, flags,       *)
(* statuses and names.  The tables keep their types, and the two copies of *)
(* a job's run agree; as long as no client calls POST /assign, RunBuilder  *)
(* implements JobBoard and leaves no job on a deleted run.  Whatever a     *)
(* page asks for from its old copy is a request the server's model covers, *)
(* so all this holds behind the page too; and a drop or a merge never      *)
(* takes a job off a run the operator did not see.                         *)
(***************************************************************************)
EXTENDS Cockpit, RunBuilderBoard, TLAPS

JobTable == [Jobs -> JobRow]

LinkTable == [Jobs -> SUBSET LinkRow]

\* Job rows jb and link rows lk agree about job j, and j has one link row at most.
AgreeOn(jb, lk, j) ==
  /\ \A a, b \in lk[j] : a = b
  /\ ~jb[j].done => {l.run : l \in lk[j]} = {jb[j].run} \ {None}

Agree(jb, lk) == \A j \in Jobs : AgreeOn(jb, lk, j)

\* The inductive invariant: neither part is inductive alone, for FirstOrDefault keeps
\* the copies together only where a job has one link row.
Inv == TypeOK /\ Agree(job, link)

-------------------------------------------------------------------------------
(* The row operations                                                      *)

\* A run id is never null.
LEMMA RunIdsNotNone == RunIds \subseteq Nat /\ None \notin RunIds
  BY MaxRunsAssumption DEF RunIds, None

\* The row that FirstOrDefault picks is one of the rows.
LEMMA FirstIn == ASSUME NEW rows, rows # {} PROVE First(rows) \in rows
  BY DEF First

\* Binding leaves link rows.
LEMMA BindType ==
  ASSUME NEW rows \in SUBSET LinkRow, NEW r \in RunIds
  PROVE  /\ Bind(rows, r) \in SUBSET LinkRow
         /\ BindFirst(rows, r) \in SUBSET LinkRow
  BY DEF Bind, BindFirst, LinkRow

\* Binding a job that has one link row at most leaves it with one, to r.
LEMMA BindOne ==
  ASSUME NEW rows \in SUBSET LinkRow, NEW r \in RunIds, \A a, b \in rows : a = b
  PROVE  /\ \A a, b \in Bind(rows, r) : a = b
         /\ {l.run : l \in Bind(rows, r)} = {r}
         /\ BindFirst(rows, r) = Bind(rows, r)
<1>1. CASE rows = {}
  BY <1>1 DEF Bind, BindFirst
<1>2. CASE rows # {}
  <2>1. PICK x \in rows : rows = {x}
    BY <1>2
  <2>2. First(rows) = x
    BY <2>1, FirstIn
  <2> DEFINE y == [x EXCEPT !.run = r]
  <2>3. Bind(rows, r) = {y}
    BY <2>1, <1>2 DEF Bind
  <2>4. BindFirst(rows, r) = {y}
    BY <2>1, <2>2, <1>2 DEF BindFirst
  <2>5. y.run = r
    BY DEF LinkRow
  <2> HIDE DEF y
  <2>6. {l.run : l \in {y}} = {r}
    BY <2>5
  <2> QED
    BY <2>3, <2>4, <2>6
<1> QED
  BY <1>1, <1>2

\* Dropping the only link row of a job leaves none.
LEMMA DropOne ==
  ASSUME NEW rows, \A a, b \in rows : a = b
  PROVE  DropFirst(rows) = {}
  BY FirstIn DEF DropFirst

\* Placing keeps the types of both tables.
LEMMA PlaceType ==
  ASSUME NEW jb \in JobTable, NEW lk \in LinkTable, NEW S \in SUBSET Jobs, NEW r \in RunIds
  PROVE  PlaceJobs(jb, S, r) \in JobTable /\ PlaceLinks(lk, S, r) \in LinkTable
<1>1. \A j \in Jobs : (IF j \in S THEN [jb[j] EXCEPT !.run = r] ELSE jb[j]) \in JobRow
  BY DEF JobTable, JobRow
<1>2. \A j \in Jobs : (IF j \in S THEN Bind(lk[j], r) ELSE lk[j]) \in SUBSET LinkRow
  BY BindType DEF LinkTable
<1> QED
  BY <1>1, <1>2 DEF PlaceJobs, PlaceLinks, JobTable, LinkTable

\* Placing keeps the tables in agreement.
LEMMA PlaceAgrees ==
  ASSUME NEW jb \in JobTable, NEW lk \in LinkTable, NEW S \in SUBSET Jobs, NEW r \in RunIds,
         Agree(jb, lk)
  PROVE  Agree(PlaceJobs(jb, S, r), PlaceLinks(lk, S, r))
<1> SUFFICES ASSUME NEW j \in Jobs
             PROVE  AgreeOn(PlaceJobs(jb, S, r), PlaceLinks(lk, S, r), j)
  BY DEF Agree
<1>1. AgreeOn(jb, lk, j) /\ lk[j] \in SUBSET LinkRow /\ jb[j] \in JobRow
  BY DEF Agree, JobTable, LinkTable
<1>2. CASE j \in S
  <2>1. PlaceJobs(jb, S, r)[j].run = r /\ PlaceLinks(lk, S, r)[j] = Bind(lk[j], r)
    BY <1>1, <1>2 DEF PlaceJobs, PlaceLinks, JobRow
  <2>2. {r} \ {None} = {r}
    BY RunIdsNotNone
  <2>3. \A a, b \in lk[j] : a = b
    BY <1>1 DEF AgreeOn
  <2>4. (\A a, b \in Bind(lk[j], r) : a = b) /\ {l.run : l \in Bind(lk[j], r)} = {r}
    BY <1>1, <2>3, BindOne
  <2> QED
    BY <2>1, <2>2, <2>4 DEF AgreeOn
<1>3. CASE j \notin S
  <2>1. PlaceJobs(jb, S, r)[j] = jb[j] /\ PlaceLinks(lk, S, r)[j] = lk[j]
    BY <1>3 DEF PlaceJobs, PlaceLinks
  <2> QED
    BY <1>1, <2>1 DEF AgreeOn
<1> QED
  BY <1>2, <1>3

\* Releasing keeps the types of both tables.
LEMMA ReleaseType ==
  ASSUME NEW jb \in JobTable, NEW lk \in LinkTable, NEW r
  PROVE  ReleaseJobs(jb, lk, r) \in JobTable /\ ReleaseLinks(lk, r) \in LinkTable
<1>1. \A j \in Jobs : [jb[j] EXCEPT !.run = None] \in JobRow /\ jb[j] \in JobRow
  BY DEF JobTable, JobRow
<1>2. \A j \in Jobs : {l \in lk[j] : l.run # r} \in SUBSET LinkRow
  BY DEF LinkTable
<1> QED
  BY <1>1, <1>2 DEF ReleaseJobs, ReleaseLinks, JobTable, LinkTable

\* Releasing run r keeps the tables in agreement, and leaves no job on r but done ones.
LEMMA ReleaseAgrees ==
  ASSUME NEW jb \in JobTable, NEW lk \in LinkTable, NEW r \in RunIds, Agree(jb, lk)
  PROVE  /\ Agree(ReleaseJobs(jb, lk, r), ReleaseLinks(lk, r))
         /\ \A j \in Jobs : ~jb[j].done =>
              ReleaseJobs(jb, lk, r)[j].run = IF jb[j].run = r THEN None ELSE jb[j].run
<1> SUFFICES ASSUME NEW j \in Jobs
             PROVE  /\ AgreeOn(ReleaseJobs(jb, lk, r), ReleaseLinks(lk, r), j)
                    /\ ~jb[j].done => ReleaseJobs(jb, lk, r)[j].run =
                                        IF jb[j].run = r THEN None ELSE jb[j].run
  BY DEF Agree
<1> DEFINE lj == {l \in lk[j] : l.run # r}
<1>1. AgreeOn(jb, lk, j) /\ lk[j] \in SUBSET LinkRow /\ jb[j] \in JobRow
  BY DEF Agree, JobTable, LinkTable
<1>2. ReleaseLinks(lk, r)[j] = lj
  BY DEF ReleaseLinks
<1>3. ReleaseJobs(jb, lk, r)[j] =
        IF (\E l \in lk[j] : l.run = r) /\ jb[j].run = r
        THEN [jb[j] EXCEPT !.run = None] ELSE jb[j]
  BY DEF ReleaseJobs, LinkedTo
<1>4. ReleaseJobs(jb, lk, r)[j].done = jb[j].done
  BY <1>1, <1>3 DEF JobRow
<1>5. \A a, b \in lj : a = b
  BY <1>1 DEF AgreeOn
<1>6. ASSUME ~jb[j].done, jb[j].run = r
      PROVE  ReleaseJobs(jb, lk, r)[j].run = None /\ {l.run : l \in lj} = {None} \ {None}
  <2>1. {l.run : l \in lk[j]} = {r}
    BY <1>1, <1>6, RunIdsNotNone DEF AgreeOn
  <2>2. \E l \in lk[j] : l.run = r
    BY <2>1
  <2>3. lj = {}
    BY <2>1
  <2> QED
    BY <1>1, <1>3, <1>6, <2>2, <2>3 DEF JobRow
<1>7. ASSUME ~jb[j].done, jb[j].run # r
      PROVE  /\ ReleaseJobs(jb, lk, r)[j].run = jb[j].run
             /\ {l.run : l \in lj} = {jb[j].run} \ {None}
  <2>1. {l.run : l \in lk[j]} = {jb[j].run} \ {None}
    BY <1>1, <1>7 DEF AgreeOn
  <2>2. \A l \in lk[j] : l.run # r
    BY <2>1, <1>7
  <2>3. lj = lk[j]
    BY <2>2
  <2> QED
    BY <1>3, <1>7, <2>1, <2>3
<1> QED
  BY <1>2, <1>4, <1>5, <1>6, <1>7 DEF AgreeOn

-------------------------------------------------------------------------------
(* The steps                                                               *)

\* An inserted run has the columns of tblBulkRun.
LEMMA InsertedType ==
  ASSUME NEW s \in Statuses, NEW n \in Names \cup {VoidJobsName}, NEW v \in BOOLEAN, NEW d \in Days
  PROVE  InsertedRun(s, n, v, d) \in RunRow
  BY DEF InsertedRun, RunRow

\* A deleted run has the columns of tblBulkRun.
LEMMA BlankType == Blank \in RunRow
<1>1. (CHOOSE e \in Days : TRUE) \in Days
  BY DaysAssumption
<1> QED
  BY <1>1, StatusesAssumption DEF Blank, RunRow

\* Inserting a run keeps the run table's type, and the new id is one of RunIds.
LEMMA InsertType ==
  ASSUME TypeOK,
         NEW s \in Statuses, NEW n \in Names \cup {VoidJobsName}, NEW v \in BOOLEAN, NEW d \in Days,
         InsertRun(s, n, v, d)
  PROVE  /\ nextRun \in RunIds
         /\ run' \in [RunIds -> RunRow]
         /\ nextRun' \in 1 .. MaxRuns + 1
<1>1. InsertedRun(s, n, v, d) \in RunRow
  BY InsertedType
<1> QED
  BY <1>1, MaxRunsAssumption DEF InsertRun, TypeOK, RunIds

\* Parking jobs on a void run keeps the types and the agreement.
LEMMA ParkAgrees ==
  ASSUME Inv, NEW S \in SUBSET Jobs, NEW v \in RunIds, Park(S, v)
  PROVE  job' \in JobTable /\ link' \in LinkTable /\ Agree(job', link')
<1>1. \A j \in Jobs : job[j] \in JobRow /\ link[j] \in SUBSET LinkRow /\ AgreeOn(job, link, j)
  BY DEF Inv, TypeOK, Agree
<1>2. \A j \in Jobs : job'[j] = IF j \in S THEN [job[j] EXCEPT !.void = TRUE, !.run = v] ELSE job[j]
  BY DEF Park
<1>3. \A j \in Jobs : link'[j] = IF j \in S THEN BindFirst(link[j], v) ELSE link[j]
  BY DEF Park
<1>4. \A j \in Jobs : job'[j] \in JobRow
  BY <1>1, <1>2 DEF JobRow
<1>5. \A j \in Jobs : link'[j] \in SUBSET LinkRow
  BY <1>1, <1>3, BindType
<1>6. \A j \in Jobs : AgreeOn(job', link', j)
  <2> SUFFICES ASSUME NEW j \in Jobs PROVE AgreeOn(job', link', j)
    OBVIOUS
  <2>1. CASE j \in S
    <3>1. \A a, b \in link[j] : a = b
      BY <1>1 DEF AgreeOn
    <3>2. (\A a, b \in BindFirst(link[j], v) : a = b) /\ {l.run : l \in BindFirst(link[j], v)} = {v}
      <4>1. /\ \A a, b \in Bind(link[j], v) : a = b
            /\ {l.run : l \in Bind(link[j], v)} = {v}
            /\ BindFirst(link[j], v) = Bind(link[j], v)
        BY <1>1, <3>1, BindOne
      <4> QED
        BY <4>1
    <3>3. link'[j] = BindFirst(link[j], v)
      BY <1>3, <2>1
    <3>4. job'[j].run = v
      BY <1>1, <1>2, <2>1 DEF JobRow
    <3>5. {v} \ {None} = {v}
      BY RunIdsNotNone
    <3> QED
      BY <3>2, <3>3, <3>4, <3>5 DEF AgreeOn
  <2>2. CASE j \notin S
    <3>1. job'[j] = job[j] /\ link'[j] = link[j]
      BY <1>2, <1>3, <2>2
    <3> QED
      BY <1>1, <3>1 DEF AgreeOn
  <2> QED
    BY <2>1, <2>2
<1> QED
  BY <1>4, <1>5, <1>6 DEF Park, JobTable, LinkTable, Agree

\* Taking some jobs off their runs, whatever else changes in their rows, keeps the
\* types and the agreement.
LEMMA DropAgrees ==
  ASSUME Inv, NEW S \in SUBSET Jobs,
         job' \in JobTable,
         \A j \in S : job'[j].run = None,
         \A j \in Jobs \ S : job'[j] = job[j],
         link' = [j \in Jobs |-> IF j \in S THEN DropFirst(link[j]) ELSE link[j]]
  PROVE  link' \in LinkTable /\ Agree(job', link')
<1>1. \A j \in Jobs : link[j] \in SUBSET LinkRow /\ AgreeOn(job, link, j)
  BY DEF Inv, TypeOK, Agree
<1>2. \A j \in S : link'[j] = {}
  <2> SUFFICES ASSUME NEW j \in S PROVE link'[j] = {}
    OBVIOUS
  <2>1. \A a, b \in link[j] : a = b
    BY <1>1 DEF AgreeOn
  <2> QED
    BY <2>1, DropOne
<1>3. \A j \in Jobs \ S : link'[j] = link[j]
  OBVIOUS
<1>4. \A j \in S : AgreeOn(job', link', j)
  <2> SUFFICES ASSUME NEW j \in S PROVE AgreeOn(job', link', j)
    OBVIOUS
  <2>1. {l.run : l \in {}} = {None} \ {None}
    OBVIOUS
  <2> QED
    BY <1>2, <2>1 DEF AgreeOn
<1>5. \A j \in Jobs \ S : AgreeOn(job', link', j)
  BY <1>1, <1>3 DEF AgreeOn
<1> QED
  BY <1>1, <1>2, <1>3, <1>4, <1>5 DEF LinkTable, Agree

\* No run, no job, nothing placed: the invariant holds at first.
LEMMA InitInv == Init => Inv
<1> SUFFICES ASSUME Init PROVE Inv
  OBVIOUS
<1> DEFINE Fresh == {[run |-> None, void |-> FALSE, done |-> FALSE, day |-> d] : d \in Days}
<1>0. job \in [Jobs -> Fresh]
  BY DEF Init
<1>1. job \in [Jobs -> JobRow]
  <2>1. \A d \in Days : [run |-> None, void |-> FALSE, done |-> FALSE, day |-> d] \in JobRow
    BY DEF JobRow
  <2> QED
    BY <1>0, <2>1
<1>2. link \in [Jobs -> SUBSET LinkRow] /\ nextRun \in 1 .. MaxRuns + 1
  BY MaxRunsAssumption DEF Init
<1>3. run \in [RunIds -> RunRow]
  BY BlankType DEF Init
<1>4. \A j \in Jobs : link[j] = {} /\ job[j].run = None
  <2>1. \A x \in Fresh : x.run = None
    OBVIOUS
  <2>2. \A j \in Jobs : job[j] \in Fresh /\ link[j] = {}
    BY <1>0 DEF Init
  <2> HIDE DEF Fresh
  <2> QED
    BY <2>1, <2>2
<1>5. \A j \in Jobs : AgreeOn(job, link, j)
  BY <1>4 DEF AgreeOn
<1> QED
  BY <1>1, <1>2, <1>3, <1>5 DEF Inv, TypeOK, Agree

\* Every request keeps the invariant.
LEMMA NextInv == Inv /\ [Next]_vars => Inv'
<1> SUFFICES ASSUME Inv, [Next]_vars PROVE Inv'
  OBVIOUS
<1>0. /\ TypeOK
      /\ job \in JobTable /\ link \in LinkTable
      /\ run \in [RunIds -> RunRow] /\ nextRun \in 1 .. MaxRuns + 1
      /\ Agree(job, link)
  BY DEF Inv, TypeOK, JobTable, LinkTable
<1> DEFINE RunsOK == run' \in [RunIds -> RunRow] /\ nextRun' \in 1 .. MaxRuns + 1
           JobsOK == job' \in JobTable /\ link' \in LinkTable /\ Agree(job', link')
<1>a. RunsOK /\ JobsOK => Inv'
  BY DEF Inv, TypeOK, JobTable, LinkTable, Agree, AgreeOn
<1>b. UNCHANGED <<run, nextRun>> => RunsOK
  BY <1>0
<1>c. UNCHANGED <<job, link>> => JobsOK
  BY <1>0
<1>d. ASSUME NEW S \in SUBSET Jobs, NEW r \in RunIds,
             job' = PlaceJobs(job, S, r), link' = PlaceLinks(link, S, r)
      PROVE  JobsOK
  BY <1>0, <1>d, PlaceType, PlaceAgrees
<1>e. ASSUME NEW r \in RunIds, run' = [run EXCEPT ![r] = Blank], UNCHANGED nextRun
      PROVE  RunsOK
  BY <1>0, <1>e, BlankType
<1>f. ASSUME NEW r \in RunIds, NEW s \in Statuses, NEW n \in Names \cup {VoidJobsName},
             run' = [run EXCEPT ![r].status = s, ![r].name = n], UNCHANGED nextRun
      PROVE  RunsOK
  <2>1. run[r] \in RunRow
    BY <1>0
  <2>2. [[run[r] EXCEPT !.status = s] EXCEPT !.name = n] \in RunRow
    BY <2>1 DEF RunRow
  <2>3. run' = [run EXCEPT ![r] = [[run[r] EXCEPT !.status = s] EXCEPT !.name = n]]
    BY <1>f, <1>0
  <2> QED
    BY <1>0, <1>f, <2>2, <2>3
<1>1. CASE UNCHANGED vars
  BY <1>1, <1>a, <1>b, <1>c DEF vars
<1>2. ASSUME NEW s \in Statuses, NEW n \in Names, NEW d \in Days, NEW T \in SUBSET Jobs,
             CreateRun(s, n, d, T)
      PROVE  Inv'
  <2>1. nextRun \in RunIds /\ RunsOK
    BY <1>0, <1>2, InsertType DEF CreateRun
  <2> QED
    BY <1>2, <1>a, <1>d, <2>1 DEF CreateRun
<1>3. ASSUME NEW s \in Statuses, NEW n \in Names, NEW d \in Days, NEW S \in SUBSET Jobs,
             CreateRunWithJobs(s, n, d, S)
      PROVE  Inv'
  <2>1. nextRun \in RunIds /\ RunsOK
    BY <1>0, <1>3, InsertType DEF CreateRunWithJobs
  <2> QED
    BY <1>3, <1>a, <1>d, <2>1 DEF CreateRunWithJobs
<1>4. ASSUME NEW r \in RunIds, NEW s \in Statuses, NEW T \in SUBSET Jobs,
             \E n \in SavedNames(r) : SaveRun(r, s, n, T)
      PROVE  Inv'
  BY <1>4, <1>a, <1>d, <1>f DEF SaveRun, SavedNames
<1>5. ASSUME NEW r \in RunIds, NEW s \in Statuses, \E n \in SavedNames(r) : UpdateRun(r, s, n)
      PROVE  Inv'
  BY <1>5, <1>a, <1>c, <1>f DEF UpdateRun, SavedNames
<1>6. ASSUME NEW r \in RunIds, DeleteRun(r)
      PROVE  Inv'
  <2>1. RunsOK
    BY <1>6, <1>e DEF DeleteRun
  <2>2. JobsOK
    BY <1>0, <1>6, ReleaseType, ReleaseAgrees DEF DeleteRun
  <2> QED
    BY <2>1, <2>2, <1>a
<1>7. ASSUME NEW r \in RunIds, NEW S \in SUBSET Jobs, NEW del \in RunIds \cup {None},
             NEW from, AssignJobs(r, S, from, del)
      PROVE  Inv'
  <2> DEFINE moved == PlaceLinks(link, S, r)
             placed == PlaceJobs(job, S, r)
  <2>1. placed \in JobTable /\ moved \in LinkTable /\ Agree(placed, moved)
    BY <1>0, PlaceType, PlaceAgrees
  <2>2. CASE del \in LiveRuns
    <3>1. del \in RunIds
      BY <2>2 DEF LiveRuns
    <3>2. /\ job' = ReleaseJobs(placed, moved, del)
          /\ link' = ReleaseLinks(moved, del)
          /\ run' = [run EXCEPT ![del] = Blank]
          /\ UNCHANGED nextRun
      BY <1>7, <2>2 DEF AssignJobs
    <3>3. RunsOK
      BY <1>e, <3>1, <3>2
    <3> HIDE DEF moved, placed
    <3>4. JobsOK
      BY <2>1, <3>1, <3>2, ReleaseType, ReleaseAgrees
    <3> QED
      BY <1>a, <3>3, <3>4
  <2>3. CASE del \notin LiveRuns
    <3>1. job' = placed /\ link' = moved /\ UNCHANGED <<run, nextRun>>
      BY <1>7, <2>3 DEF AssignJobs
    <3> QED
      BY <1>a, <1>b, <2>1, <3>1
  <2> QED
    BY <2>2, <2>3
<1>8. ASSUME NEW r \in RunIds, NEW j \in Jobs, NEW from, AssignJob(r, j, from)
      PROVE  Inv'
  <2>1. {j} \in SUBSET Jobs
    OBVIOUS
  <2> QED
    BY <1>8, <1>a, <1>b, <1>d, <2>1 DEF AssignJob
<1>9. ASSUME NEW r \in RunIds, NEW j \in Jobs, NEW on \in SUBSET Pins, NEW off \in SUBSET Pins,
             SetJobStartEnd(r, j, on, off)
      PROVE  Inv'
  <2> DEFINE P(l, k) == IF l.run # r THEN l
                        ELSE [l EXCEPT !.pins = IF k = j THEN (@ \cup on) \ off ELSE @ \ on]
  <2>1. \A k \in Jobs : link'[k] = {P(l, k) : l \in link[k]}
    BY <1>9 DEF SetJobStartEnd
  <2>2. \A k \in Jobs : \A l \in link[k] : P(l, k) \in LinkRow /\ P(l, k).run = l.run
    BY <1>0 DEF LinkTable, LinkRow
  <2>3. link' \in LinkTable
    <3>1. link' = [k \in Jobs |-> {P(l, k) : l \in link[k]}]
      BY <1>9 DEF SetJobStartEnd
    <3> HIDE DEF P
    <3> QED
      BY <2>2, <3>1 DEF LinkTable
  <2> HIDE DEF P
  <2>4. Agree(job, link')
    <3> SUFFICES ASSUME NEW k \in Jobs PROVE AgreeOn(job, link', k)
      BY DEF Agree
    <3>1. AgreeOn(job, link, k)
      BY <1>0 DEF Agree
    <3>2. {l.run : l \in link'[k]} = {l.run : l \in link[k]}
      BY <2>1, <2>2
    <3>3. \A a, b \in link'[k] : a = b
      BY <2>1, <3>1 DEF AgreeOn
    <3> QED
      BY <3>1, <3>2, <3>3 DEF AgreeOn
  <2> QED
    BY <1>0, <1>9, <1>a, <1>b, <2>3, <2>4 DEF SetJobStartEnd
<1>10. ASSUME NEW j \in Jobs, RemoveJobFromRun(j)
       PROVE  Inv'
  <2>1. link' = [k \in Jobs |-> IF k \in {j} THEN DropFirst(link[k]) ELSE link[k]]
    BY <1>0, <1>10 DEF RemoveJobFromRun, LinkTable
  <2>2. job' = [job EXCEPT ![j] = [job[j] EXCEPT !.run = None]]
    BY <1>0, <1>10 DEF RemoveJobFromRun, JobTable
  <2>3. job[j] \in JobRow
    BY <1>0 DEF JobTable
  <2>4. [job[j] EXCEPT !.run = None] \in JobRow /\ [job[j] EXCEPT !.run = None].run = None
    BY <2>3 DEF JobRow
  <2>5. job' \in JobTable /\ job'[j].run = None /\ \A k \in Jobs \ {j} : job'[k] = job[k]
    BY <1>0, <2>2, <2>4 DEF JobTable
  <2>6. \A k \in {j} : job'[k].run = None
    BY <2>5
  <2>7. {j} \in SUBSET Jobs
    OBVIOUS
  <2>8. JobsOK
    BY <2>1, <2>5, <2>6, <2>7, DropAgrees
  <2> QED
    BY <1>10, <1>a, <1>b, <2>8 DEF RemoveJobFromRun
<1>11. ASSUME NEW S \in SUBSET Jobs, NEW d \in Days, VoidJobs(S, d)
       PROVE  Inv'
  <2>1. CASE VoidRunsOf(d) = {}
    <3>1. InsertRun(1, VoidJobsName, TRUE, d) /\ Park(S, nextRun)
      BY <1>11, <2>1 DEF VoidJobs
    <3>2. 1 \in Statuses /\ VoidJobsName \in Names \cup {VoidJobsName} /\ TRUE \in BOOLEAN
      BY StatusesAssumption
    <3>3. nextRun \in RunIds /\ RunsOK
      BY <1>0, <3>1, <3>2, InsertType
    <3> QED
      BY <1>a, <3>1, <3>3, ParkAgrees
  <2>2. ASSUME NEW v \in VoidRunsOf(d),
               run' = [run EXCEPT ![v].isVoid = TRUE, ![v].status = 1], Park(S, v),
               UNCHANGED nextRun
        PROVE  Inv'
    <3>1. v \in RunIds
      BY DEF VoidRunsOf, LiveRuns
    <3>2. run[v] \in RunRow
      BY <1>0, <3>1
    <3>3. [[run[v] EXCEPT !.isVoid = TRUE] EXCEPT !.status = 1] \in RunRow
      BY <3>2, StatusesAssumption DEF RunRow
    <3>4. run' = [run EXCEPT ![v] = [[run[v] EXCEPT !.isVoid = TRUE] EXCEPT !.status = 1]]
      BY <1>0, <2>2, <3>1
    <3>5. RunsOK
      BY <1>0, <2>2, <3>1, <3>3, <3>4
    <3> QED
      BY <1>a, <2>2, <3>1, <3>5, ParkAgrees
  <2> QED
    BY <1>11, <2>1, <2>2 DEF VoidJobs
<1>12. ASSUME NEW S \in SUBSET Jobs, NEW d \in Days, UnvoidJobs(S, d)
       PROVE  Inv'
  <2>1. RunsOK
    <3>1. ASSUME NEW v \in VoidRunsOf(d), run' = [run EXCEPT ![v] = Blank] \/ run' = run
          PROVE  RunsOK
      <4>1. v \in RunIds /\ UNCHANGED nextRun
        BY <1>12 DEF VoidRunsOf, LiveRuns, UnvoidJobs
      <4> QED
        BY <1>b, <1>e, <3>1, <4>1
    <3> QED
      BY <1>12, <1>b, <3>1 DEF UnvoidJobs
  <2>2. \A j \in Jobs : job[j] \in JobRow
    BY <1>0 DEF JobTable
  <2>3. \A j \in Jobs :
          job'[j] = IF j \in S THEN [job[j] EXCEPT !.void = FALSE, !.run = None] ELSE job[j]
    BY <1>12 DEF UnvoidJobs
  <2>4. \A j \in Jobs : job'[j] \in JobRow
    BY <2>2, <2>3 DEF JobRow
  <2>5. job' \in JobTable
    BY <1>12, <2>4 DEF UnvoidJobs, JobTable
  <2>6. \A j \in S : job'[j].run = None
    BY <2>2, <2>3 DEF JobRow
  <2>7. \A j \in Jobs \ S : job'[j] = job[j]
    BY <2>3
  <2>8. link' = [j \in Jobs |-> IF j \in S THEN DropFirst(link[j]) ELSE link[j]]
    BY <1>12 DEF UnvoidJobs
  <2> QED
    BY <1>a, <2>1, <2>5, <2>6, <2>7, <2>8, DropAgrees
<1>13. ASSUME NEW S \in SUBSET Jobs, NEW d \in Days, BulkMove(S, d)
       PROVE  Inv'
  <2>1. \A j \in Jobs : job[j] \in JobRow
    BY <1>0 DEF JobTable
  <2>2. \A j \in Jobs : job'[j] = IF j \in S THEN [job[j] EXCEPT !.day = d] ELSE job[j]
    BY <1>13 DEF BulkMove
  <2>3. \A j \in Jobs : job'[j] \in JobRow /\ job'[j].run = job[j].run /\ job'[j].done = job[j].done
    BY <2>1, <2>2 DEF JobRow
  <2>4. job' \in JobTable
    BY <1>13, <2>3 DEF BulkMove, JobTable
  <2>5. Agree(job', link)
    BY <1>0, <2>3 DEF Agree, AgreeOn
  <2> QED
    BY <1>0, <1>13, <1>a, <1>b, <2>4, <2>5 DEF BulkMove
<1>14. ASSUME NEW j \in Jobs, DispatchJob(j)
       PROVE  Inv'
  <2>1. job[j] \in JobRow
    BY <1>0 DEF JobTable
  <2>2. [job[j] EXCEPT !.done = TRUE] \in JobRow /\ [job[j] EXCEPT !.done = TRUE].done
    BY <2>1 DEF JobRow
  <2>3. job' = [job EXCEPT ![j] = [job[j] EXCEPT !.done = TRUE]]
    BY <1>0, <1>14 DEF DispatchJob, JobTable
  <2>4. job' \in JobTable /\ job'[j].done /\ \A k \in Jobs \ {j} : job'[k] = job[k]
    BY <1>0, <2>2, <2>3 DEF JobTable
  <2>5. link' \in LinkTable /\ link'[j] = {} /\ \A k \in Jobs \ {j} : link'[k] = link[k]
    BY <1>0, <1>14 DEF DispatchJob, LinkTable
  <2>6. Agree(job', link')
    BY <1>0, <2>4, <2>5 DEF Agree, AgreeOn
  <2> QED
    BY <1>14, <1>a, <1>b, <2>4, <2>5, <2>6 DEF DispatchJob
<1> HIDE DEF RunsOK, JobsOK
<1>15. CASE RunRequest
  BY <1>15, <1>2, <1>3, <1>4, <1>5, <1>6 DEF RunRequest
<1>16. CASE JobRequest
  BY <1>16, <1>7, <1>8, <1>9, <1>10, <1>11, <1>12, <1>13, <1>14 DEF JobRequest
<1> QED
  BY <1>1, <1>15, <1>16 DEF Next

\* Inv holds in every reachable state.
LEMMA InvHolds == Spec => []Inv
  BY InitInv, NextInv, PTL DEF Spec

\* The tables keep the columns' types, whatever requests arrive.
THEOREM Typing == Spec => []TypeOK
<1>1. Inv => TypeOK
  BY DEF Inv
<1> QED
  BY <1>1, InvHolds, PTL

\* No job ever gets a second link row.
THEOREM AtMostOneLink == Spec => []OneLinkPerJob
<1>1. Inv => OneLinkPerJob
  BY DEF Inv, Agree, AgreeOn, OneLinkPerJob
<1> QED
  BY <1>1, InvHolds, PTL

\* The link row and the job row of a job on the board name the same run.
THEOREM CopiesAgree == Spec => []PlacementAgrees
<1>1. Inv => PlacementAgrees
  BY DEF Inv, Agree, AgreeOn, PlacementAgrees
<1> QED
  BY <1>1, InvHolds, PTL


-------------------------------------------------------------------------------


boardVars == <<place, LiveRuns>>

\* Job j's place is its run, unless it is done.
LEMMA PlaceOf ==
  ASSUME TypeOK, NEW j \in Jobs
  PROVE  /\ place[j] = IF job[j].done THEN Sent ELSE job[j].run
         /\ job[j].run # Sent
         /\ job[j].done \in BOOLEAN
<1>1. job[j] \in JobRow
  BY DEF TypeOK
<1>2. job[j].run \in RunIds \cup {None} /\ job[j].done \in BOOLEAN
  BY <1>1 DEF JobRow
<1>3. Sent \notin RunIds \cup {None}
  BY MaxRunsAssumption DEF Sent, RunIds, None
<1> QED
  BY <1>2, <1>3 DEF place

\* The runs after an insert.
LEMMA LiveAfterInsert ==
  ASSUME TypeOK, NEW s, NEW n, NEW v, NEW d, InsertRun(s, n, v, d)
  PROVE  LiveRuns' = LiveRuns \cup {nextRun}
<1>1. nextRun \in RunIds /\ run \in [RunIds -> RunRow]
  BY DEF InsertRun, TypeOK
<1>2. \A r \in RunIds : run'[r].live <=> r = nextRun \/ run[r].live
  BY <1>1 DEF InsertRun, InsertedRun
<1> QED
  BY <1>1, <1>2 DEF LiveRuns

\* The runs after a delete.
LEMMA LiveAfterDelete ==
  ASSUME TypeOK, NEW r \in RunIds, run' = [run EXCEPT ![r] = Blank]
  PROVE  LiveRuns' = LiveRuns \ {r}
<1>1. run \in [RunIds -> RunRow]
  BY DEF TypeOK
<1>2. \A q \in RunIds : run'[q].live <=> q # r /\ run[q].live
  BY <1>1 DEF Blank
<1> QED
  BY <1>2 DEF LiveRuns

\* Writing other columns of a run leaves the runs as they are.
LEMMA LiveAfterUpdate ==
  ASSUME TypeOK, NEW r \in RunIds, NEW s, NEW n, NEW v,
         \/ run' = [run EXCEPT ![r].status = s, ![r].name = n]
         \/ run' = [run EXCEPT ![r].isVoid = v, ![r].status = s]
  PROVE  LiveRuns' = LiveRuns
<1>1. run \in [RunIds -> RunRow]
  BY DEF TypeOK
<1>2. \A q \in RunIds : run'[q].live = run[q].live
  BY <1>1 DEF RunRow
<1> QED
  BY <1>2 DEF LiveRuns

\* Moving the jobs of S to p, and no other, is the board's Put.
LEMMA PutStep ==
  ASSUME TypeOK, TypeOK', NEW S \in SUBSET Jobs, NEW p,
         \A j \in Jobs : job'[j].done = job[j].done,
         \A j \in S : job'[j].run = p,
         \A j \in Jobs \ S : job'[j].run = job[j].run
  PROVE  place' = Board!Put(S, p)
<1>1. \A j \in Jobs : place'[j] = IF job'[j].done THEN Sent ELSE job'[j].run
  BY DEF place
<1>2. \A j \in Jobs : place'[j] = IF j \in S /\ place[j] # Sent THEN p ELSE place[j]
  BY <1>1, PlaceOf
<1>3. place' = [j \in Jobs |-> place'[j]]
  BY DEF place
<1> QED
  BY <1>2, <1>3 DEF Board!Put

\* What PlaceJobs writes, job by job.
LEMMA PlaceJobsRows ==
  ASSUME NEW jb \in JobTable, NEW S \in SUBSET Jobs, NEW r
  PROVE  \A j \in Jobs : /\ PlaceJobs(jb, S, r)[j].done = jb[j].done
                         /\ PlaceJobs(jb, S, r)[j].run = IF j \in S THEN r ELSE jb[j].run
  BY DEF PlaceJobs, JobTable, JobRow

\* What ReleaseJobs leaves alone.
LEMMA ReleaseJobsDone ==
  ASSUME NEW jb \in JobTable, NEW lk, NEW r
  PROVE  \A j \in Jobs : ReleaseJobs(jb, lk, r)[j].done = jb[j].done
  BY DEF ReleaseJobs, JobTable, JobRow

\* No job, no run: the board is empty at first.
LEMMA InitBoard == Init => Board!Init
<1> SUFFICES ASSUME Init PROVE Board!Init
  OBVIOUS
<1> DEFINE Fresh == {[run |-> None, void |-> FALSE, done |-> FALSE, day |-> d] : d \in Days}
<1>1. \A x \in Fresh : x.run = None /\ ~x.done
  OBVIOUS
<1>2. \A j \in Jobs : job[j] \in Fresh
  BY DEF Init
<1> HIDE DEF Fresh
<1>3. place = [j \in Jobs |-> None]
  BY <1>1, <1>2 DEF place
<1>4. LiveRuns = {}
  BY DEF Init, LiveRuns, Blank
<1> QED
  BY <1>3, <1>4 DEF Board!Init

\* Every request is a step of the board, or none of its business.
LEMMA NextBoard ==
  ASSUME Inv, Inv', [Next]_vars
  PROVE  [Board!Next]_boardVars
<1>0. /\ TypeOK /\ TypeOK'
      /\ job \in JobTable /\ link \in LinkTable /\ Agree(job, link)
  BY DEF Inv, TypeOK, JobTable, LinkTable
<1>a. ASSUME NEW S \in SUBSET Jobs, NEW r \in RunIds, job' = PlaceJobs(job, S, r),
             LiveRuns' = LiveRuns \cup {r}
      PROVE  Board!Next
  <2>1. place' = Board!Put(S, r)
    BY <1>0, <1>a, PlaceJobsRows, PutStep
  <2> QED
    BY <1>a, <2>1 DEF Board!Next, Board!Place
<1>b. ASSUME job' = job, LiveRuns' = LiveRuns
      PROVE  UNCHANGED boardVars
  BY <1>b DEF boardVars, place
<1> DEFINE Closes(r, S, p) ==
             /\ \A j \in Jobs : job'[j].done = job[j].done
             /\ \A j \in S : ~job[j].done => job'[j].run = p
             /\ \A j \in Jobs \ S : ~job[j].done =>
                   job'[j].run = IF job[j].run = r THEN None ELSE job[j].run
             /\ LiveRuns' = LiveRuns \ {r}
<1>c. ASSUME NEW r \in LiveRuns, NEW S \in SUBSET Jobs, NEW p \in (LiveRuns \ {r}) \cup {None},
             Closes(r, S, p)
      PROVE  Board!Next
  <2>1. r \in RunIds /\ p \in RunIds \cup {None}
    BY DEF LiveRuns
  <2>2. \A j \in Jobs : place'[j] = IF job'[j].done THEN Sent ELSE job'[j].run
    BY DEF place
  <2>3. \A j \in Jobs : Board!Put(S, p)[j] = IF j \in S /\ place[j] # Sent THEN p ELSE place[j]
    BY DEF Board!Put
  <2>4. r # Sent
    BY <2>1, MaxRunsAssumption DEF Sent, RunIds
  <2>5. \A j \in Jobs : place'[j] = IF place[j] # r \/ j \in S THEN Board!Put(S, p)[j] ELSE None
    BY <1>0, <1>c, <2>2, <2>3, <2>4, PlaceOf
  <2>6. place' = [j \in Jobs |-> place'[j]]
    BY DEF place
  <2>7. place' = [j \in Jobs |-> IF place[j] # r \/ j \in S THEN Board!Put(S, p)[j] ELSE None]
    BY <2>5, <2>6
  <2> QED
    BY <1>c, <2>1, <2>7 DEF Board!Next, Board!Close
<1>1. CASE UNCHANGED vars
  BY <1>1, <1>b DEF vars, LiveRuns, boardVars
<1>2. ASSUME NEW s \in Statuses, NEW n \in Names, NEW d \in Days, NEW T \in SUBSET Jobs,
             CreateRun(s, n, d, T) \/ CreateRunWithJobs(s, n, d, T)
      PROVE  Board!Next
  <2>1. InsertRun(s, n, FALSE, d) /\ job' = PlaceJobs(job, T, nextRun)
    BY <1>2 DEF CreateRun, CreateRunWithJobs
  <2>2. LiveRuns' = LiveRuns \cup {nextRun} /\ nextRun \in RunIds
    BY <1>0, <2>1, LiveAfterInsert DEF InsertRun
  <2> QED
    BY <1>a, <2>1, <2>2
<1>3. ASSUME NEW r \in RunIds, NEW s \in Statuses, NEW n, NEW T \in SUBSET Jobs,
             SaveRun(r, s, n, T)
      PROVE  Board!Next
  <2>1. LiveRuns' = LiveRuns \cup {r}
    BY <1>0, <1>3, LiveAfterUpdate DEF SaveRun
  <2> QED
    BY <1>3, <1>a, <2>1 DEF SaveRun
<1>4. ASSUME NEW r \in RunIds, NEW s \in Statuses, NEW n, UpdateRun(r, s, n)
      PROVE  UNCHANGED boardVars
  BY <1>0, <1>4, <1>b, LiveAfterUpdate DEF UpdateRun
<1>5. ASSUME NEW r \in RunIds, DeleteRun(r)
      PROVE  Board!Next
  <2>1. r \in LiveRuns /\ LiveRuns' = LiveRuns \ {r} /\ job' = ReleaseJobs(job, link, r)
    BY <1>0, <1>5, LiveAfterDelete DEF DeleteRun
  <2>2. /\ \A j \in Jobs : job'[j].done = job[j].done
        /\ \A j \in Jobs : ~job[j].done =>
              job'[j].run = IF job[j].run = r THEN None ELSE job[j].run
    BY <1>0, <2>1, ReleaseJobsDone, ReleaseAgrees
  <2>3. {} \in SUBSET Jobs /\ None \in (LiveRuns \ {r}) \cup {None}
    OBVIOUS
  <2>4. Closes(r, {}, None)
    BY <2>1, <2>2
  <2> HIDE DEF Closes
  <2> QED
    BY <1>c, <2>1, <2>3, <2>4
<1>6. ASSUME NEW r \in RunIds, NEW S \in SUBSET Jobs, NEW del \in RunIds \cup {None}, NEW from,
             AssignJobs(r, S, from, del)
      PROVE  Board!Next
  <2> DEFINE moved == PlaceLinks(link, S, r)
             placed == PlaceJobs(job, S, r)
  <2>1. r \in LiveRuns /\ del # r
    BY <1>6 DEF AssignJobs
  <2>2. CASE del \in LiveRuns
    <3>1. /\ job' = ReleaseJobs(placed, moved, del)
          /\ run' = [run EXCEPT ![del] = Blank]
          /\ del \in RunIds
      BY <1>6, <2>2 DEF AssignJobs, LiveRuns
    <3>2. placed \in JobTable /\ moved \in LinkTable /\ Agree(placed, moved)
      BY <1>0, PlaceType, PlaceAgrees
    <3>3. \A j \in Jobs : /\ placed[j].done = job[j].done
                        /\ placed[j].run = IF j \in S THEN r ELSE job[j].run
      BY <1>0, PlaceJobsRows
    <3> HIDE DEF placed, moved
    <3>4. \A j \in Jobs : ~placed[j].done =>
             job'[j].run = IF placed[j].run = del THEN None ELSE placed[j].run
      BY <3>1, <3>2, ReleaseAgrees
    <3>5. \A j \in Jobs : job'[j].done = job[j].done
      BY <3>1, <3>2, <3>3, ReleaseJobsDone
    <3>6. \A j \in S : ~job[j].done => job'[j].run = r
      BY <2>1, <3>3, <3>4
    <3>7. \A j \in Jobs \ S : ~job[j].done =>
             job'[j].run = IF job[j].run = del THEN None ELSE job[j].run
      BY <3>3, <3>4
    <3>8. LiveRuns' = LiveRuns \ {del}
      BY <1>0, <3>1, LiveAfterDelete
    <3>9. r \in (LiveRuns \ {del}) \cup {None}
      BY <2>1
    <3>10. Closes(del, S, r)
      BY <3>5, <3>6, <3>7, <3>8
    <3> HIDE DEF Closes
    <3> QED
      BY <1>c, <2>2, <3>9, <3>10
  <2>3. CASE del \notin LiveRuns
    <3>1. job' = placed /\ run' = run
      BY <1>6, <2>3 DEF AssignJobs
    <3>2. LiveRuns' = LiveRuns \cup {r}
      BY <2>1, <3>1 DEF LiveRuns
    <3> QED
      BY <1>a, <3>1, <3>2
  <2> QED
    BY <2>2, <2>3
<1>7. ASSUME NEW r \in RunIds, NEW j \in Jobs, NEW on, NEW off, SetJobStartEnd(r, j, on, off)
      PROVE  UNCHANGED boardVars
  BY <1>7, <1>b DEF SetJobStartEnd, LiveRuns
<1>8. ASSUME NEW j \in Jobs, RemoveJobFromRun(j)
      PROVE  Board!Next
  <2>1. job' = [job EXCEPT ![j].run = None] /\ LiveRuns' = LiveRuns
    BY <1>8 DEF RemoveJobFromRun, LiveRuns
  <2>2. /\ \A k \in Jobs : job'[k].done = job[k].done
        /\ \A k \in {j} : job'[k].run = None
        /\ \A k \in Jobs \ {j} : job'[k].run = job[k].run
    BY <1>0, <2>1 DEF JobTable, JobRow
  <2>3. {j} \in SUBSET Jobs
    OBVIOUS
  <2>4. place' = Board!Put({j}, None)
    BY <1>0, <2>2, <2>3, PutStep
  <2> QED
    BY <2>1, <2>3, <2>4 DEF Board!Next, Board!Release
<1>9. ASSUME NEW S \in SUBSET Jobs, NEW d \in Days, VoidJobs(S, d)
      PROVE  Board!Next
  <2>1. ASSUME NEW v \in RunIds, Park(S, v), LiveRuns' = LiveRuns \cup {v}
        PROVE  Board!Next
    <3>1. /\ \A j \in Jobs : job'[j].done = job[j].done
          /\ \A j \in S : job'[j].run = v
          /\ \A j \in Jobs \ S : job'[j].run = job[j].run
      BY <1>0, <2>1 DEF Park, JobTable, JobRow
    <3>2. place' = Board!Put(S, v)
      BY <1>0, <3>1, PutStep
    <3> QED
      BY <2>1, <3>2 DEF Board!Next, Board!Place
  <2>2. CASE VoidRunsOf(d) = {}
    <3>1. InsertRun(1, VoidJobsName, TRUE, d) /\ Park(S, nextRun)
      BY <1>9, <2>2 DEF VoidJobs
    <3>2. LiveRuns' = LiveRuns \cup {nextRun} /\ nextRun \in RunIds
      BY <1>0, <3>1, LiveAfterInsert DEF InsertRun
    <3> QED
      BY <2>1, <3>1, <3>2
  <2>3. ASSUME NEW v \in VoidRunsOf(d),
               run' = [run EXCEPT ![v].isVoid = TRUE, ![v].status = 1], Park(S, v)
        PROVE  Board!Next
    <3>1. v \in LiveRuns /\ v \in RunIds
      BY DEF VoidRunsOf, LiveRuns
    <3>2. LiveRuns' = LiveRuns \cup {v}
      BY <1>0, <2>3, <3>1, LiveAfterUpdate
    <3> QED
      BY <2>1, <2>3, <3>1, <3>2
  <2> QED
    BY <1>9, <2>2, <2>3 DEF VoidJobs
<1>10. ASSUME NEW S \in SUBSET Jobs, NEW d \in Days, UnvoidJobs(S, d)
       PROVE  Board!Next
  <2>1. /\ \A j \in Jobs : job'[j].done = job[j].done
        /\ \A j \in S : job'[j].run = None
        /\ \A j \in Jobs \ S : job'[j].run = job[j].run
    BY <1>0, <1>10 DEF UnvoidJobs, JobTable, JobRow
  <2>2. CASE run' = run
    <3>1. LiveRuns' = LiveRuns
      BY <2>2 DEF LiveRuns
    <3>2. place' = Board!Put(S, None)
      BY <1>0, <2>1, PutStep
    <3> QED
      BY <3>1, <3>2 DEF Board!Next, Board!Release
  <2>3. ASSUME NEW v \in VoidRunsOf(d), LinkedTo(link, v) \subseteq S,
               run' = [run EXCEPT ![v] = Blank]
        PROVE  Board!Next
    <3>1. v \in LiveRuns /\ v \in RunIds
      BY DEF VoidRunsOf, LiveRuns
    <3>2. LiveRuns' = LiveRuns \ {v}
      BY <1>0, <2>3, <3>1, LiveAfterDelete
    <3>3. \A j \in Jobs \ S : ~job[j].done => job[j].run # v
      <4> SUFFICES ASSUME NEW j \in Jobs \ S, ~job[j].done, job[j].run = v PROVE FALSE
        OBVIOUS
      <4>1. {l.run : l \in link[j]} = {v} \ {None}
        BY <1>0 DEF Agree, AgreeOn
      <4>2. v # None
        BY <3>1, RunIdsNotNone
      <4>3. \E l \in link[j] : l.run = v
        BY <4>1, <4>2
      <4> QED
        BY <2>3, <4>3 DEF LinkedTo
    <3>4. \A j \in Jobs \ S : ~job[j].done =>
             job'[j].run = IF job[j].run = v THEN None ELSE job[j].run
      BY <2>1, <3>3
    <3>5. None \in (LiveRuns \ {v}) \cup {None}
      OBVIOUS
    <3> QED
      BY <1>c, <2>1, <3>1, <3>2, <3>4, <3>5
  <2> QED
    BY <1>10, <2>2, <2>3 DEF UnvoidJobs, NoneRemain
<1>11. ASSUME NEW S \in SUBSET Jobs, NEW d \in Days, BulkMove(S, d)
       PROVE  UNCHANGED boardVars
  <2>1. \A j \in Jobs : job'[j].done = job[j].done /\ job'[j].run = job[j].run
    BY <1>0, <1>11 DEF BulkMove, JobTable, JobRow
  <2>2. LiveRuns' = LiveRuns
    BY <1>11 DEF BulkMove, LiveRuns
  <2>3. place' = place
    BY <2>1 DEF place
  <2> QED
    BY <2>2, <2>3 DEF boardVars
<1>12. ASSUME NEW j \in Jobs, DispatchJob(j)
       PROVE  Board!Next
  <2>1. job' = [job EXCEPT ![j].done = TRUE] /\ LiveRuns' = LiveRuns
    BY <1>12 DEF DispatchJob, LiveRuns
  <2>2. \A k \in Jobs : place'[k] = IF k = j THEN Sent ELSE place[k]
    BY <1>0, <2>1 DEF place, JobTable, JobRow
  <2>3. place' = [place EXCEPT ![j] = Sent]
    BY <2>2 DEF place
  <2> QED
    BY <2>1, <2>3 DEF Board!Next, Board!Send
<1>13. CASE RunRequest
  BY <1>13, <1>2, <1>3, <1>4, <1>5 DEF RunRequest
<1>14. CASE JobRequest
  <2>1. ASSUME NEW r \in RunIds, NEW j \in Jobs, NEW from, AssignJob(r, j, from) PROVE Board!Next
    <3>1. /\ LegacyAssign /\ LiveRuns' = LiveRuns
          /\ job' = PlaceJobs(job, {j}, r)
      BY <2>1 DEF AssignJob, LiveRuns
    <3>2. CASE r \in LiveRuns
      BY <1>a, <3>1, <3>2
    <3>3. CASE r \notin LiveRuns
      <4>1. place' = Board!Put({j}, r)
        BY <1>0, <3>1, PlaceJobsRows, PutStep
      <4> QED
        BY <3>1, <3>3, <4>1 DEF Board!Next, Board!Strand
    <3> QED
      BY <3>2, <3>3
  <2> QED
    BY <1>14, <2>1, <1>6, <1>7, <1>8, <1>9, <1>10, <1>11, <1>12 DEF JobRequest
<1> QED
  BY <1>1, <1>13, <1>14 DEF Next

\* The requests do what the board promises and nothing else, and none but POST /assign strands a job.
THEOREM BoardRefinement == Spec => ImplementsJobBoard
<1>1. Inv /\ Inv' /\ [Next]_vars => [Board!Next]_<<place, LiveRuns>>
  BY NextBoard DEF boardVars
<1> QED
  BY <1>1, InitBoard, InvHolds, PTL DEF Spec, ImplementsJobBoard, Board!Spec

\* A job is unbuilt, sent, or on an open run.
OnOpenRun == \A j \in Jobs : place[j] \in LiveRuns \cup {None, Sent}

\* The board's steps keep jobs off closed runs.
LEMMA BoardKeepsOpen ==
  ASSUME LegacyAssign = FALSE, OnOpenRun, [Board!Next]_boardVars
  PROVE  OnOpenRun'
<1>1. CASE UNCHANGED boardVars
  BY <1>1 DEF boardVars, OnOpenRun
<1>2. ASSUME NEW S \in SUBSET Jobs, NEW r \in RunIds, Board!Place(S, r)
      PROVE  OnOpenRun'
  BY <1>2 DEF OnOpenRun, Board!Place, Board!Put
<1>3. ASSUME NEW S \in SUBSET Jobs, Board!Release(S)
      PROVE  OnOpenRun'
  BY <1>3 DEF OnOpenRun, Board!Release, Board!Put
<1>4. ASSUME NEW r \in RunIds, NEW S \in SUBSET Jobs, NEW p \in RunIds \cup {None},
              Board!Close(r, S, p)
      PROVE  OnOpenRun'
  <2>1. /\ p \in (LiveRuns \ {r}) \cup {None}
        /\ LiveRuns' = LiveRuns \ {r}
        /\ place' = [j \in Jobs |-> IF place[j] # r \/ j \in S THEN Board!Put(S, p)[j] ELSE None]
    BY <1>4 DEF Board!Close
  <2>2. \A j \in Jobs : Board!Put(S, p)[j] = IF j \in S /\ place[j] # Sent THEN p ELSE place[j]
    BY DEF Board!Put
  <2>3. Sent # r
    BY MaxRunsAssumption DEF Sent, RunIds
  <2> QED
    BY <2>1, <2>2, <2>3 DEF OnOpenRun
<1>5. ASSUME NEW j \in Jobs, Board!Send(j)
      PROVE  OnOpenRun'
  <2>1. place' = [place EXCEPT ![j] = Sent] /\ LiveRuns' = LiveRuns
    BY <1>5 DEF Board!Send
  <2>2. \A k \in Jobs : place'[k] = IF k = j THEN Sent ELSE place[k]
    BY <2>1 DEF place
  <2> QED
    BY <2>1, <2>2 DEF OnOpenRun
<1>6. ASSUME NEW j \in Jobs, NEW r \in RunIds, Board!Strand(j, r)
      PROVE  FALSE
  BY <1>6 DEF Board!Strand
<1> QED
  BY <1>1, <1>2, <1>3, <1>4, <1>5, <1>6 DEF Board!Next

\* Without POST /assign, no job on the board points at a run that was deleted.
THEOREM NoOrphans ==
  ASSUME LegacyAssign = FALSE
  PROVE  Spec => []NoOrphanPlacement
<1>1. Init => OnOpenRun
  BY InitBoard DEF OnOpenRun, Board!Init
<1>2. Inv /\ Inv' /\ [Next]_vars /\ OnOpenRun => OnOpenRun'
  BY NextBoard, BoardKeepsOpen
<1>3. Inv /\ OnOpenRun => NoOrphanPlacement
  <2> SUFFICES ASSUME Inv, OnOpenRun, NEW j \in Jobs, ~job[j].done, job[j].run # None
               PROVE  run[job[j].run].live
    BY DEF NoOrphanPlacement
  <2>1. TypeOK
    BY DEF Inv
  <2>2. place[j] = job[j].run /\ job[j].run # Sent
    BY <2>1, PlaceOf
  <2>3. job[j].run \in LiveRuns
    BY <2>2 DEF OnOpenRun
  <2> QED
    BY <2>3 DEF LiveRuns
<1> QED
  BY <1>1, <1>2, <1>3, InvHolds, PTL DEF Spec

\* Whatever requests follow each other, for any number of jobs and runs: one link row per job, both
\* copies of its run equal and, unless a client calls POST /assign, that run is there.
THEOREM TablesTell == Spec => []TablesAgree
<1>1. CASE LegacyAssign
  BY <1>1, AtMostOneLink, CopiesAgree, PTL DEF TablesAgree
<1>2. CASE LegacyAssign = FALSE
  <2>1. Spec => []NoOrphanPlacement
    BY <1>2, NoOrphans
  <2>. QED
    BY <2>1, AtMostOneLink, CopiesAgree, PTL DEF TablesAgree
<1>. QED
  BY <1>1, <1>2, LegacyAssumption

-----------------------------------------------------------------------------
(* The page                                                                *)

\* Ids are given out once, and a run that has no typed name is a void run.
GivenOut ==
  /\ \A j \in Jobs : job[j].run < nextRun
  /\ \A r \in RunIds : run[r].live => r < nextRun /\ (run[r].name \in Names \/ run[r].isVoid)

\* What the copies hold, however old: a run listed without a typed name was a void run, and
\* if it is still there it is one.
CopiedJobs ==
  /\ Listed \subseteq Jobs
  /\ \A j \in Listed : jobList[j] \in RunIds \cup {None} /\ jobList[j] < nextRun

CopiedRun(r) ==
  /\ r \in RunIds /\ r < nextRun
  /\ runList[r].status \in Statuses
  /\ runList[r].name \in Names \cup {VoidJobsName}
  /\ runList[r].jobs \subseteq Jobs
  /\ run[r].live /\ runList[r].name \notin Names => run[r].isVoid

PageInv ==
  /\ CopiedJobs
  /\ \A r \in ListedRuns : CopiedRun(r)
  /\ sending \subseteq Jobs

\* The inductive invariant of page and server together.
CockpitInv == Inv /\ GivenOut /\ PageInv

\* What a request never does to a run that was given out: bring it back, or make a void run
\* an ordinary one.
RunsKept ==
  /\ nextRun' \in 1 .. MaxRuns + 1 /\ nextRun <= nextRun'
  /\ \A r \in RunIds : r < nextRun /\ run'[r].live => run[r].live /\ (run[r].isVoid => run'[r].isVoid)
  /\ \A r \in RunIds : run'[r].live => r < nextRun' /\ (run'[r].name \in Names \/ run'[r].isVoid)

-------------------------------------------------------------------------------
(* The run table                                                           *)

\* A request that leaves the runs alone.
LEMMA RunsSame ==
  ASSUME Inv, GivenOut, UNCHANGED <<run, nextRun>>
  PROVE  RunsKept
  BY MaxRunsAssumption DEF Inv, TypeOK, GivenOut, RunsKept, RunIds

\* A request that makes a run takes the next id.
LEMMA RunsInserted ==
  ASSUME Inv, GivenOut, NEW s, NEW n, NEW v \in BOOLEAN, NEW d, InsertRun(s, n, v, d),
         n \in Names \/ v
  PROVE  RunsKept
<1>1. /\ run \in [RunIds -> RunRow] /\ nextRun \in RunIds /\ nextRun' = nextRun + 1
      /\ run' = [run EXCEPT ![nextRun] = InsertedRun(s, n, v, d)]
  BY DEF Inv, TypeOK, InsertRun
<1>2. nextRun' \in 1 .. MaxRuns + 1 /\ nextRun < nextRun'
  BY <1>1, MaxRunsAssumption DEF RunIds
<1>3. run'[nextRun].name = n /\ run'[nextRun].isVoid = v
  BY <1>1 DEF InsertedRun
<1>4. \A r \in RunIds : r # nextRun => run'[r] = run[r]
  BY <1>1
<1>5. \A r \in RunIds : r < nextRun => r # nextRun /\ r < nextRun'
  BY <1>1, <1>2, RunIdsNotNone, MaxRunsAssumption DEF RunIds
<1> QED
  <2>1. \A r \in RunIds : r < nextRun /\ run'[r].live => run[r].live /\ (run[r].isVoid => run'[r].isVoid)
    BY <1>4, <1>5
  <2>2. \A r \in RunIds : run'[r].live => r < nextRun' /\ (run'[r].name \in Names \/ run'[r].isVoid)
    BY <1>2, <1>3, <1>4, <1>5 DEF GivenOut
  <2>3. nextRun <= nextRun'
    BY <1>1, <1>2 DEF RunIds
  <2> QED
    BY <1>2, <2>1, <2>2, <2>3 DEF RunsKept

\* A request that saves a run keeps its id.
LEMMA RunsUpdated ==
  ASSUME Inv, GivenOut, NEW q \in LiveRuns, NEW s, NEW n \in SavedNames(q),
         run' = [run EXCEPT ![q].status = s, ![q].name = n], UNCHANGED nextRun
  PROVE  RunsKept
<1>1. run \in [RunIds -> RunRow] /\ nextRun \in 1 .. MaxRuns + 1 /\ q \in RunIds
  BY DEF Inv, TypeOK, LiveRuns
<1>2. run'[q] = [[run[q] EXCEPT !.status = s] EXCEPT !.name = n] /\ run[q] \in RunRow
  BY <1>1
<1>3. run'[q].live = run[q].live /\ run'[q].isVoid = run[q].isVoid /\ run'[q].name = n
  <2>1. PICK row \in RunRow : row = run[q]
    BY <1>2
  <2>2. PICK new : new = [[row EXCEPT !.status = s] EXCEPT !.name = n]
    OBVIOUS
  <2>3. new.live = row.live
    BY <2>2 DEF RunRow
  <2>4. new.isVoid = row.isVoid
    BY <2>2 DEF RunRow
  <2>5. new.name = n
    BY <2>2 DEF RunRow
  <2> QED
    BY <1>2, <2>1, <2>2, <2>3, <2>4, <2>5
<1>4. n \in Names \/ run[q].isVoid
  BY DEF SavedNames
<1>5. \A r \in RunIds : r # q => run'[r] = run[r]
  BY <1>1
<1> QED
  BY <1>1, <1>3, <1>4, <1>5 DEF RunsKept, GivenOut

\* A request that deletes a run takes no other run.
LEMMA RunsDeleted ==
  ASSUME Inv, GivenOut, NEW q \in RunIds, run' = [run EXCEPT ![q] = Blank], UNCHANGED nextRun
  PROVE  RunsKept
<1>1. run \in [RunIds -> RunRow] /\ nextRun \in 1 .. MaxRuns + 1
  BY DEF Inv, TypeOK
<1>2. ~run'[q].live /\ \A r \in RunIds : r # q => run'[r] = run[r]
  BY <1>1 DEF Blank
<1> QED
  BY <1>1, <1>2 DEF RunsKept, GivenOut

\* A run that is made the void run stays.
LEMMA RunsVoided ==
  ASSUME Inv, GivenOut, NEW q \in LiveRuns,
         run' = [run EXCEPT ![q].isVoid = TRUE, ![q].status = 1], UNCHANGED nextRun
  PROVE  RunsKept
<1>1. run \in [RunIds -> RunRow] /\ nextRun \in 1 .. MaxRuns + 1 /\ q \in RunIds /\ run[q].live
  BY DEF Inv, TypeOK, LiveRuns
<1>2. run'[q] = [[run[q] EXCEPT !.isVoid = TRUE] EXCEPT !.status = 1] /\ run[q] \in RunRow
  BY <1>1
<1>3. run'[q].isVoid
  BY <1>2 DEF RunRow
<1>5. \A r \in RunIds : r # q => run'[r] = run[r]
  BY <1>1
<1> QED
  BY <1>1, <1>3, <1>5 DEF RunsKept, GivenOut

-------------------------------------------------------------------------------
(* The job table                                                           *)

\* A batch puts its jobs on the run and no others.
LEMMA PlacedRun ==
  ASSUME NEW jb \in JobTable, NEW S \in SUBSET Jobs, NEW r
  PROVE  \A j \in Jobs : PlaceJobs(jb, S, r)[j].run = IF j \in S THEN r ELSE jb[j].run
  BY DEF JobTable, JobRow, PlaceJobs

\* A release leaves each job on its run or on none.
LEMMA ReleasedRun ==
  ASSUME NEW jb, NEW lk, NEW r, \A j \in Jobs : jb[j] \in JobRow
  PROVE  \A j \in Jobs : ReleaseJobs(jb, lk, r)[j].run \in {None, jb[j].run}
  BY DEF JobRow, ReleaseJobs

\* A live run was given out, and a job is on none or on one that was.
LEMMA ServerKept ==
  ASSUME Inv, GivenOut, Next
  PROVE  RunsKept /\ GivenOut'
<1> DEFINE JobsKept == \A j \in Jobs : job'[j].run \in {None, job[j].run} \/ job'[j].run < nextRun'
<1>0. /\ job \in JobTable /\ run \in [RunIds -> RunRow] /\ nextRun \in 1 .. MaxRuns + 1
      /\ \A j \in Jobs : job[j] \in JobRow /\ job[j].run < nextRun
      /\ \A r \in LiveRuns : r \in RunIds /\ r < nextRun
  BY DEF Inv, TypeOK, JobTable, GivenOut, LiveRuns
<1>1. ASSUME NEW S \in SUBSET Jobs, NEW r, r < nextRun', job' = PlaceJobs(job, S, r)
      PROVE  JobsKept
  BY <1>0, <1>1, PlacedRun
<1>2. ASSUME NEW s, NEW n \in Names, NEW d, NEW S \in SUBSET Jobs,
             CreateRun(s, n, d, S) \/ CreateRunWithJobs(s, n, d, S)
      PROVE  RunsKept /\ JobsKept
  <2>1. InsertRun(s, n, FALSE, d) /\ job' = PlaceJobs(job, S, nextRun)
    BY <1>2 DEF CreateRun, CreateRunWithJobs
  <2>2. nextRun < nextRun'
    BY <1>0, <2>1 DEF InsertRun
  <2> QED
    BY <1>1, <2>1, <2>2, RunsInserted
<1>3. ASSUME NEW r \in RunIds, NEW s, NEW S \in SUBSET Jobs,
             \E n \in SavedNames(r) : SaveRun(r, s, n, S)
      PROVE  RunsKept /\ JobsKept
  <2>1. r < nextRun' /\ job' = PlaceJobs(job, S, r)
    BY <1>0, <1>3 DEF SaveRun
  <2> QED
    BY <1>1, <1>3, <2>1, RunsUpdated DEF SaveRun
<1>4. ASSUME NEW r \in RunIds, NEW s, \E n \in SavedNames(r) : UpdateRun(r, s, n)
      PROVE  RunsKept /\ JobsKept
  BY <1>4, RunsUpdated DEF UpdateRun
<1>5. ASSUME NEW r \in RunIds, DeleteRun(r) PROVE RunsKept /\ JobsKept
  BY <1>0, <1>5, RunsDeleted, ReleasedRun DEF DeleteRun
<1>6. ASSUME NEW r, NEW S \in SUBSET Jobs, NEW from, NEW del, AssignJobs(r, S, from, del)
      PROVE  RunsKept /\ JobsKept
  <2>1. r < nextRun /\ UNCHANGED nextRun
    BY <1>0, <1>6 DEF AssignJobs
  <2>2. CASE del \in LiveRuns
    <3>1. run' = [run EXCEPT ![del] = Blank]
      BY <1>6, <2>2 DEF AssignJobs
    <3>2. RunsKept
      BY <1>0, <2>1, <2>2, <3>1, RunsDeleted
    <3>3. PICK placed : placed = PlaceJobs(job, S, r)
      OBVIOUS
    <3>4. job' = ReleaseJobs(placed, PlaceLinks(link, S, r), del)
      BY <1>6, <2>2, <3>3 DEF AssignJobs
    <3>5. r \in RunIds
      BY <1>6 DEF AssignJobs, LiveRuns
    <3>6. \A j \in Jobs : placed[j] \in JobRow
      BY <1>0, <3>3, <3>5 DEF PlaceJobs, JobRow
    <3>7. \A j \in Jobs : placed[j].run = IF j \in S THEN r ELSE job[j].run
      BY <1>0, <3>3 DEF PlaceJobs, JobRow
    <3>8. \A j \in Jobs : job'[j].run \in {None, placed[j].run}
      BY <3>4, <3>6, ReleasedRun
    <3> QED
      BY <2>1, <3>2, <3>7, <3>8
  <2>3. CASE del \notin LiveRuns
    <3>1. job' = PlaceJobs(job, S, r) /\ UNCHANGED run
      BY <1>6, <2>3 DEF AssignJobs
    <3> QED
      BY <1>1, <2>1, <3>1, RunsSame
  <2> QED
    BY <2>2, <2>3
<1>7. ASSUME NEW r \in RunIds, NEW j \in Jobs, NEW from, AssignJob(r, j, from)
      PROVE  RunsKept /\ JobsKept
  <2>1. {j} \in SUBSET Jobs
    OBVIOUS
  <2>2. r < nextRun' /\ job' = PlaceJobs(job, {j}, r) /\ UNCHANGED <<run, nextRun>>
    BY <1>7 DEF AssignJob
  <2> QED
    BY <1>1, <2>1, <2>2, RunsSame
<1>8. ASSUME UNCHANGED <<run, nextRun>>, \A j \in Jobs : job'[j].run \in {None, job[j].run}
      PROVE  RunsKept /\ JobsKept
  BY <1>8, RunsSame
<1>9. ASSUME NEW r, NEW j, NEW on, NEW off, SetJobStartEnd(r, j, on, off)
      PROVE  RunsKept /\ JobsKept
  BY <1>8, <1>9 DEF SetJobStartEnd
<1>10. ASSUME NEW j \in Jobs, RemoveJobFromRun(j) \/ DispatchJob(j)
       PROVE  RunsKept /\ JobsKept
  <2>1. \A k \in Jobs : job'[k].run \in {None, job[k].run}
    BY <1>0, <1>10 DEF RemoveJobFromRun, DispatchJob, JobTable, JobRow
  <2> QED
    BY <1>8, <1>10, <2>1 DEF RemoveJobFromRun, DispatchJob
<1>11. ASSUME NEW S \in SUBSET Jobs, NEW d, BulkMove(S, d)
       PROVE  RunsKept /\ JobsKept
  <2>1. \A k \in Jobs : job'[k].run \in {None, job[k].run}
    BY <1>0, <1>11 DEF BulkMove, JobRow
  <2> QED
    BY <1>8, <1>11, <2>1 DEF BulkMove
<1>12. ASSUME NEW S \in SUBSET Jobs, NEW d, VoidJobs(S, d)
       PROVE  RunsKept /\ JobsKept
  <2>1. ASSUME NEW v, v < nextRun', Park(S, v)
        PROVE  JobsKept
    BY <1>0, <2>1 DEF Park, JobRow
  <2>2. CASE VoidRunsOf(d) = {}
    <3>1. InsertRun(1, VoidJobsName, TRUE, d) /\ Park(S, nextRun)
      BY <1>12, <2>2 DEF VoidJobs
    <3>2. nextRun < nextRun'
      BY <1>0, <3>1 DEF InsertRun
    <3> QED
      BY <2>1, <3>1, <3>2, RunsInserted
  <2>3. CASE VoidRunsOf(d) # {}
    <3>1. PICK v \in VoidRunsOf(d) :
            run' = [run EXCEPT ![v].isVoid = TRUE, ![v].status = 1] /\ Park(S, v) /\ UNCHANGED nextRun
      BY <1>12, <2>3 DEF VoidJobs
    <3>2. v \in LiveRuns /\ v < nextRun
      BY <1>0 DEF VoidRunsOf
    <3> QED
      BY <2>1, <3>1, <3>2, RunsVoided
  <2> QED
    BY <2>2, <2>3
<1>13. ASSUME NEW S \in SUBSET Jobs, NEW d, UnvoidJobs(S, d)
       PROVE  RunsKept /\ JobsKept
  <2>1. JobsKept
    BY <1>0, <1>13 DEF UnvoidJobs, JobRow
  <2>2. UNCHANGED nextRun /\ (UNCHANGED run \/ \E v \in LiveRuns : run' = [run EXCEPT ![v] = Blank])
    BY <1>13 DEF UnvoidJobs, VoidRunsOf
  <2> QED
    BY <1>0, <2>1, <2>2, RunsSame, RunsDeleted
<1> HIDE DEF JobsKept
<1>14. RunsKept /\ JobsKept
  <2>1. CASE RunRequest
    BY <1>2, <1>3, <1>4, <1>5, <2>1 DEF RunRequest
  <2>2. CASE JobRequest
    BY <1>6, <1>7, <1>9, <1>10, <1>11, <1>12, <1>13, <2>2 DEF JobRequest
  <2> QED
    BY <2>1, <2>2 DEF Next
<1>15. \A j \in Jobs : job'[j].run < nextRun'
  <2>1. None < nextRun'
    BY <1>14 DEF RunsKept, None
  <2>2. \A j \in Jobs : job[j].run \in Nat /\ nextRun \in Nat /\ nextRun' \in Nat
    BY <1>0, <1>14, MaxRunsAssumption DEF JobRow, None, RunsKept, RunIds
  <2> QED
    BY <1>0, <1>14, <2>1, <2>2 DEF JobsKept, RunsKept
<1> QED
  BY <1>14, <1>15 DEF RunsKept, GivenOut

-------------------------------------------------------------------------------
(* The page                                                                *)

\* A request leaves the copies alone, and they stay as true as they were.
LEMMA CopiesKept ==
  ASSUME CockpitInv, Next, UNCHANGED <<jobList, runList>>, sending' \subseteq Jobs
  PROVE  CockpitInv'
<1>1. Inv' /\ RunsKept /\ GivenOut'
  BY NextInv, ServerKept DEF CockpitInv
<1>2. nextRun \in Nat /\ nextRun' \in Nat /\ nextRun <= nextRun'
  BY <1>1, MaxRunsAssumption DEF CockpitInv, Inv, TypeOK, RunsKept
<1>3. CopiedJobs'
  <2>1. \A j \in Listed : jobList[j] \in Nat
    BY MaxRunsAssumption DEF CockpitInv, PageInv, CopiedJobs, RunIds, None
  <2> QED
    BY <1>2, <2>1 DEF CockpitInv, PageInv, CopiedJobs, Listed
<1>4. \A r \in ListedRuns : CopiedRun(r)'
  <2> SUFFICES ASSUME NEW r \in ListedRuns PROVE CopiedRun(r)'
    OBVIOUS
  <2>1. CopiedRun(r)
    BY DEF CockpitInv, PageInv
  <2>2. r < nextRun'
    BY <1>2, <2>1, MaxRunsAssumption DEF CopiedRun, RunIds
  <2>3. run'[r].live => run[r].live /\ (run[r].isVoid => run'[r].isVoid)
    BY <1>1, <2>1 DEF CopiedRun, RunsKept
  <2> QED
    BY <2>1, <2>2, <2>3 DEF CopiedRun
<1>5. ListedRuns' = ListedRuns
  BY DEF ListedRuns
<1> QED
  BY <1>1, <1>3, <1>4, <1>5 DEF CockpitInv, PageInv

\* A feed is answered with what the tables hold.
LEMMA KeepLoads ==
  ASSUME CockpitInv, LoadJobs \/ LoadRuns
  PROVE  CockpitInv'
<1>1. /\ UNCHANGED vars /\ Inv /\ GivenOut /\ PageInv
      /\ \A j \in Jobs : job[j] \in JobRow /\ job[j].run < nextRun
      /\ run \in [RunIds -> RunRow]
  BY DEF CockpitInv, LoadJobs, LoadRuns, GivenOut, Inv, TypeOK
<1>2. Inv' /\ GivenOut'
  BY <1>1, NextInv DEF vars, GivenOut
<1>3. CASE LoadJobs
  <2>1. jobList' = [j \in JobsFeed(Day) |-> job[j].run] /\ JobsFeed(Day) \subseteq Jobs
    BY <1>3 DEF LoadJobs, JobsFeed
  <2>2. CopiedJobs'
    BY <1>1, <2>1 DEF CopiedJobs, Listed, JobRow, vars
  <2>3. \A r \in ListedRuns : CopiedRun(r)'
    BY <1>1, <1>3 DEF PageInv, CopiedRun, LoadJobs, vars
  <2> QED
    BY <1>1, <1>2, <1>3, <2>2, <2>3 DEF CockpitInv, PageInv, LoadJobs, ListedRuns
<1>4. CASE LoadRuns
  <2> DEFINE Copy(r) == [status |-> run[r].status, name |-> run[r].name, isVoid |-> run[r].isVoid,
                         jobs |-> RunJobs(r, Day)]
  <2>1. ListedRuns' = RunsFeed(Day) /\ \A r \in RunsFeed(Day) : runList'[r] = Copy(r)
    BY <1>4 DEF LoadRuns, ListedRuns
  <2>2. ASSUME NEW r \in RunsFeed(Day) PROVE CopiedRun(r)'
    <3>1. r \in RunIds /\ run[r].live /\ r < nextRun /\ (run[r].name \in Names \/ run[r].isVoid)
      BY <1>1 DEF RunsFeed, LiveRuns, GivenOut
    <3>2. run[r] \in RunRow
      BY <1>1, <3>1
    <3>3. run[r].status \in Statuses /\ run[r].name \in Names \cup {VoidJobsName}
      BY <3>2 DEF RunRow
    <3>4. /\ runList'[r].status = run[r].status /\ runList'[r].name = run[r].name
          /\ runList'[r].jobs = RunJobs(r, Day)
      <4>1. PICK v : v = run[r].isVoid
        OBVIOUS
      <4>2. runList'[r] = [status |-> run[r].status, name |-> run[r].name, isVoid |-> v,
                           jobs |-> RunJobs(r, Day)]
        BY <2>1, <4>1
      <4> QED
        BY <4>2
    <3>5. RunJobs(r, Day) \subseteq Jobs
      BY DEF RunJobs
    <3> QED
      BY <1>1, <3>1, <3>3, <3>4, <3>5 DEF CopiedRun, vars
  <2>3. CopiedJobs' /\ sending' \subseteq Jobs
    BY <1>1, <1>4 DEF PageInv, CopiedJobs, Listed, LoadRuns, vars
  <2> QED
    BY <1>2, <2>1, <2>2, <2>3 DEF CockpitInv, PageInv
<1> QED
  BY <1>3, <1>4

\* What the page saves a run under is a name that a client may save it under.
LEMMA CopiedName ==
  ASSUME CockpitInv, NEW r \in ListedRuns, r \in LiveRuns
  PROVE  runList[r].name \in SavedNames(r)
  BY DEF CockpitInv, PageInv, CopiedRun, SavedNames, LiveRuns

\* Every gesture on a run is a request on a run.
LEMMA RunGestures ==
  ASSUME CockpitInv, OperatorRun
  PROVE  Next /\ UNCHANGED pageVars
<1>0. /\ \A r \in ListedRuns : /\ r \in RunIds /\ runList[r].jobs \in SUBSET Jobs
                               /\ runList[r].status \in Statuses
      /\ Listed \subseteq Jobs /\ \A j \in Jobs : SeenOn(j) \in RunIds \cup {None}
  BY DEF CockpitInv, PageInv, CopiedRun, CopiedJobs, SeenOn
<1>1. 0 \in Statuses /\ 1 \in Statuses /\ Day \in Days /\ Advanced \subseteq Statuses
  BY StatusesAssumption, DayAssumption DEF Advanced
<1>2. ASSUME NEW r \in RunIds, RemoveRun(r) PROVE Next /\ UNCHANGED pageVars
  BY <1>2 DEF RemoveRun, Next, RunRequest
<1>3. ASSUME NEW r \in ListedRuns, NEW s \in Statuses, UpdateRun(r, s, runList[r].name)
      PROVE  Next
  <2>1. runList[r].name \in SavedNames(r) /\ r \in RunIds
    BY <1>0, <1>3, CopiedName DEF UpdateRun
  <2> QED
    BY <1>3, <2>1 DEF Next, RunRequest
<1>4. ASSUME NEW r \in RunIds, AssignCourier(r) \/ PrebookRun(r) PROVE Next /\ UNCHANGED pageVars
  <2>1. UNCHANGED pageVars /\ r \in ListedRuns
    BY <1>4 DEF AssignCourier, PrebookRun
  <2>2. \E s \in Statuses : UpdateRun(r, s, runList[r].name)
    BY <1>0, <1>1, <1>4, <2>1 DEF AssignCourier, PrebookRun
  <2> QED
    BY <1>3, <2>1, <2>2
<1>5. ASSUME NEW r \in RunIds, NEW lock \in BOOLEAN, LockRun(r, lock)
      PROVE  Next /\ UNCHANGED pageVars
  <2>1. UNCHANGED pageVars /\ r \in ListedRuns
    BY <1>5 DEF LockRun
  <2>2. \E s \in Statuses : UpdateRun(r, s, runList[r].name)
    BY <1>1, <1>5 DEF LockRun
  <2> QED
    BY <1>3, <2>1, <2>2
<1>6. ASSUME NEW r \in RunIds, NEW lock \in BOOLEAN, ReorderRun(r, lock)
      PROVE  Next /\ UNCHANGED pageVars
  <2>1. UNCHANGED pageVars /\ r \in ListedRuns
    BY <1>6 DEF ReorderRun
  <2>2. PICK s \in Statuses, T \in SUBSET Jobs : SaveRun(r, s, runList[r].name, T)
    <3>1. PICK T \in SUBSET runList[r].jobs :
            SaveRun(r, IF lock THEN 1 ELSE runList[r].status, runList[r].name, T)
      BY <1>6 DEF ReorderRun
    <3>2. (IF lock THEN 1 ELSE runList[r].status) \in Statuses /\ T \in SUBSET Jobs
      BY <1>0, <1>1, <2>1
    <3> QED
      BY <3>1, <3>2
  <2>3. runList[r].name \in SavedNames(r)
    BY <2>1, <2>2, CopiedName DEF SaveRun
  <2> QED
    BY <2>1, <2>2, <2>3 DEF Next, RunRequest
<1>7. ASSUME NEW r \in RunIds, NEW n \in Names, RenameRun(r, n) PROVE Next /\ UNCHANGED pageVars
  <2>1. n \in SavedNames(r)
    BY DEF SavedNames
  <2> QED
    BY <1>0, <1>7, <2>1 DEF RenameRun, Next, RunRequest
<1>8. ASSUME NEW r \in RunIds, NEW q \in RunIds, MergeRun(r, q) PROVE Next /\ UNCHANGED pageVars
  <2>1. runList[r].jobs \in SUBSET Jobs
    BY <1>0, <1>8 DEF MergeRun
  <2>2. [j \in runList[r].jobs |-> SeenOn(j)] \in [runList[r].jobs -> RunIds \cup {None}]
    BY <1>0, <2>1
  <2>3. AssignJobs(q, runList[r].jobs, [j \in runList[r].jobs |-> SeenOn(j)], r) /\ UNCHANGED pageVars
    BY <1>8 DEF MergeRun
  <2>4. JobRequest
    BY <2>1, <2>2, <2>3 DEF JobRequest
  <2> QED
    BY <2>3, <2>4 DEF Next
<1>9. ASSUME NEW n \in Names, NEW S \in SUBSET Jobs, NewRun(n) \/ BuildRun(n, S) \/ RunFromGroup(n, S)
      PROVE  Next /\ UNCHANGED pageVars
  <2>1. \E T \in SUBSET Jobs : CreateRun(0, n, Day, T) \/ CreateRunWithJobs(0, n, Day, T)
    <3>1. {} \in SUBSET Jobs /\ SUBSET S \subseteq SUBSET Jobs
      OBVIOUS
    <3> QED
      BY <1>9, <3>1 DEF NewRun, BuildRun, RunFromGroup
  <2>2. RunRequest
    BY <1>1, <2>1 DEF RunRequest
  <2> QED
    BY <1>9, <2>2 DEF Next, NewRun, BuildRun, RunFromGroup
<1> QED
  BY <1>2, <1>4, <1>5, <1>6, <1>7, <1>8, <1>9 DEF OperatorRun

\* Every gesture on jobs is a request, or a step of the send loop that asks for nothing.
LEMMA JobGestures ==
  ASSUME CockpitInv, OperatorJob
  PROVE  (Next \/ UNCHANGED vars) /\ UNCHANGED <<jobList, runList>> /\ sending' \subseteq Jobs
<1>0. /\ \A r \in ListedRuns : r \in RunIds /\ runList[r].jobs \in SUBSET Jobs
      /\ Listed \subseteq Jobs /\ \A j \in Jobs : SeenOn(j) \in RunIds \cup {None}
      /\ sending \subseteq Jobs /\ Day \in Days
  BY DayAssumption DEF CockpitInv, PageInv, CopiedRun, CopiedJobs, SeenOn
<1>1. ASSUME NEW r \in RunIds, NEW S \in SUBSET Jobs, DropJobs(r, S)
      PROVE  Next /\ UNCHANGED pageVars
  <2>1. [j \in S |-> SeenOn(j)] \in [S -> RunIds \cup {None}]
    BY <1>0
  <2>2. AssignJobs(r, S, [j \in S |-> SeenOn(j)], None) /\ UNCHANGED pageVars
    BY <1>1 DEF DropJobs
  <2>3. JobRequest
    BY <2>1, <2>2 DEF JobRequest
  <2> QED
    BY <2>2, <2>3 DEF Next
<1>2. ASSUME NEW j \in Jobs, RemoveJob(j) PROVE Next /\ UNCHANGED pageVars
  BY <1>2 DEF RemoveJob, Next, JobRequest
<1>3. ASSUME NEW S \in SUBSET Jobs, NEW v \in BOOLEAN, VoidListed(S, v) PROVE Next /\ UNCHANGED pageVars
  <2>1. VoidJobs(S, Day) \/ UnvoidJobs(S, Day)
    BY <1>3 DEF VoidListed
  <2> QED
    BY <1>0, <1>3, <2>1 DEF VoidListed, Next, JobRequest
<1>4. ASSUME NEW S \in SUBSET Jobs, NEW d \in Days, MoveDate(S, d) PROVE Next /\ UNCHANGED pageVars
  BY <1>4 DEF MoveDate, Next, JobRequest
<1>5. ASSUME NEW S \in SUBSET Jobs, SendSelected(S)
      PROVE  UNCHANGED vars /\ UNCHANGED <<jobList, runList>> /\ sending' \subseteq Jobs
  BY <1>5 DEF SendSelected
<1>6. ASSUME NEW R \in SUBSET RunIds, Dispatch(R)
      PROVE  UNCHANGED vars /\ UNCHANGED <<jobList, runList>> /\ sending' \subseteq Jobs
  BY <1>0, <1>6 DEF Dispatch, LockedRuns
<1>7. ASSUME NEW j \in Jobs, SendNext(j)
      PROVE  (Next \/ UNCHANGED vars) /\ UNCHANGED <<jobList, runList>> /\ sending' \subseteq Jobs
  BY <1>0, <1>7 DEF SendNext, Next, JobRequest
<1> QED
  BY <1>0, <1>1, <1>2, <1>3, <1>4, <1>5, <1>6, <1>7 DEF OperatorJob, pageVars

-------------------------------------------------------------------------------
\* The feeds are empty at the start.
LEMMA CockpitStarted == CockpitInit => CockpitInv
<1> SUFFICES ASSUME CockpitInit PROVE CockpitInv
  OBVIOUS
<1>1. Init /\ Inv
  BY InitInv DEF CockpitInit
<1>2. GivenOut
  BY <1>1 DEF Init, GivenOut, Blank, None
<1>3. PageInv
  BY DEF CockpitInit, EmptyList, PageInv, CopiedJobs, Listed, ListedRuns
<1> QED
  BY <1>1, <1>2, <1>3 DEF CockpitInv

\* Each step of the page or of another client is a request of the server or none.
LEMMA CockpitStep ==
  ASSUME CockpitInv, [CockpitNext]_allVars
  PROVE  CockpitInv' /\ [Next]_vars
<1>1. ASSUME UNCHANGED vars, UNCHANGED <<jobList, runList>>, sending' \subseteq Jobs PROVE CockpitInv'
  <2>1. Inv'
    BY <1>1, NextInv DEF CockpitInv
  <2> QED
    BY <1>1, <2>1 DEF CockpitInv, GivenOut, PageInv, CopiedJobs, CopiedRun, Listed, ListedRuns, vars
<1>2. sending \subseteq Jobs
  BY DEF CockpitInv, PageInv
<1>3. CASE LoadJobs \/ LoadRuns
  BY <1>3, KeepLoads DEF LoadJobs, LoadRuns
<1>4. CASE OperatorRun
  BY <1>2, <1>4, RunGestures, CopiesKept DEF pageVars
<1>5. CASE OperatorJob
  BY <1>1, <1>5, JobGestures, CopiesKept
<1>6. CASE Elsewhere
  BY <1>2, <1>6, CopiesKept DEF Elsewhere, pageVars
<1>7. CASE UNCHANGED allVars
  BY <1>1, <1>2, <1>7 DEF allVars, pageVars
<1> QED
  BY <1>3, <1>4, <1>5, <1>6, <1>7 DEF CockpitNext

\* The invariant holds throughout.
LEMMA CockpitInvHolds == CockpitSpec => []CockpitInv
  BY CockpitStarted, CockpitStep, PTL DEF CockpitSpec

\* A page and the other clients together do nothing to the tables that the server's own model
\* does not have, so its theorems hold of them.
THEOREM PageIsAClient == CockpitSpec => Spec
<1>1. CockpitInit => Init
  BY DEF CockpitInit
<1>2. CockpitInv /\ [CockpitNext]_allVars => [Next]_vars
  BY CockpitStep
<1> QED
  BY <1>1, <1>2, CockpitInvHolds, PTL DEF CockpitSpec, Spec

\* Whatever old copies the page acts on, and whatever other clients ask beside it, the tables agree.
THEOREM PageKeepsCopies == CockpitSpec => []TablesAgree
  BY PageIsAClient, TablesTell, PTL

\* Page, clients and server together implement the job board, whatever old copies the page acts on;
\* the page itself does not call POST /assign, the request that can strand a job.
THEOREM PageOnTheBoard == CockpitSpec => ImplementsJobBoard
  BY PageIsAClient, BoardRefinement, PTL

\* The tables keep their columns and, however old the copies are, the page lists jobs that exist under runs that were given out.
THEOREM PageTyping == CockpitSpec => []CockpitTypeOK
<1>1. CockpitInv => CockpitTypeOK
  BY MaxRunsAssumption DEF CockpitInv, Inv, TypeOK, PageInv, CopiedJobs, CopiedRun, CockpitTypeOK, RunIds, None
<1> QED
  BY <1>1, CockpitInvHolds, PTL

\* The run that the conflict check compares with is the one the job is on.
LEMMA CheckedRun ==
  ASSUME Inv, NEW j \in Jobs, ~job[j].done, job[j].run # None, NEW from, ~Conflict(j, from)
  PROVE  from \in {None, job[j].run}
<1>1. link[j] # {} /\ \A l \in link[j] : l.run = job[j].run
  <2>1. {l.run : l \in link[j]} = {job[j].run}
    BY DEF Inv, Agree, AgreeOn
  <2> QED
    BY <2>1
<1>2. First(link[j]).run = job[j].run
  BY <1>1, FirstIn
<1> QED
  BY <1>1, <1>2 DEF Conflict

\* A drop or a merge that goes through takes each job of the job list off no other run than the one
\* the list shows it on, or the list shows it on none.
THEOREM TakeoverSeen == CockpitSpec => NoSilentTakeover
<1>1. ASSUME Inv, NEW r \in RunIds, NEW j \in Jobs,
             ~job[j].done, job[j].run \notin {None, r},
             \/ \E S \in SUBSET Jobs : j \in S /\ DropJobs(r, S)
             \/ \E q \in RunIds : q \in ListedRuns /\ j \in runList[q].jobs /\ MergeRun(q, r),
             j \in Listed, jobList[j] # None
      PROVE  jobList[j] = job[j].run
  <2>1. ~Conflict(j, SeenOn(j))
    BY <1>1 DEF DropJobs, MergeRun, AssignJobs
  <2>2. SeenOn(j) = jobList[j]
    BY <1>1 DEF SeenOn
  <2> QED
    BY <1>1, <2>1, <2>2, CheckedRun
<1>2. Inv => [\A r \in RunIds, j \in Jobs :
        /\ ~job[j].done
        /\ job[j].run \notin {None, r}
        /\ \/ \E S \in SUBSET Jobs : j \in S /\ DropJobs(r, S)
           \/ \E q \in RunIds : q \in ListedRuns /\ j \in runList[q].jobs /\ MergeRun(q, r)
        /\ j \in Listed /\ jobList[j] # None
        => jobList[j] = job[j].run]_allVars
  BY <1>1, Zenon
<1>3. CockpitInv => Inv
  BY DEF CockpitInv
<1> QED
  BY <1>2, <1>3, CockpitInvHolds, PTL DEF NoSilentTakeover

===============================================================================
