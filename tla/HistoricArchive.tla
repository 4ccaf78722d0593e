---------------------------- MODULE HistoricArchive ----------------------------
(****************************************************************************)
(* Imports of legacy jobs into tucJobArchive: the page with its upload,     *)
(* mapping, commit and drill-down, and CommitAsync, which allocates a range *)
(* of ids, inserts the rows and writes the audit row in one transaction at  *)
(* read committed.  Several operators import at once, anything may fail     *)
(* half way, and a reply may be lost after its transaction was committed.   *)
(*                                                                          *)
(* A file is how many of its rows can be built and how many are rejected.   *)
(* Cells, names and notes are left out, and so is the list's paging.        *)
(****************************************************************************)
EXTENDS Integers, FiniteSets, FiniteSetsExt

CONSTANTS
  HaFiles,  \* files: [good, bad]
  HaFloor,  \* UcjbIdFloor
  HaTop,    \* int.MaxValue
  HaLive,   \* ids of live jobs
  HaPage,   \* PAGE_SIZE of the drill-down
  MaxHa     \* bound: commits

ASSUME HaAssumption ==
  /\ HaFiles \subseteq [good : Nat, bad : Nat] /\ HaLive \subseteq Nat /\ IsFiniteSet(HaLive)
  /\ HaFloor \in Nat \ {0} /\ HaTop \in Nat /\ HaPage \in Nat \ {0} /\ MaxHa \in Nat

VARIABLES
  haRows,    \* tucJobArchive rows of source 900: [id, by], by the commit that inserted it
  haBatches, \* HistoricArchiveImportBatch, by its id: [start, good, bad], start 0 for no range
  haTxs,     \* commits on the server
  haForm,    \* step, file, mapped (the required fields are), busy, result, list, loads under way
  haLook,    \* BatchDetailModal's state
  haCalls    \* its requests

haDb == <<haRows, haBatches, haTxs>>
haVars == <<haDb, haForm, haLook, haCalls>>

NoFile == [good |-> 0, bad |-> 0]

HaUnread == [of |-> 0, from |-> 0]

HaInit ==
  /\ haRows = {} /\ haBatches = << >> /\ haTxs = {}
  /\ haForm = [step |-> "list", file |-> NoFile, mapped |-> FALSE, busy |-> FALSE,
               sent |-> 0, result |-> 0, list |-> {}, loads |-> {{}}]
  /\ haLook = [batch |-> 0, tab |-> "jobs", detail |-> 0, jobs |-> HaUnread, fetched |-> FALSE,
               waits |-> FALSE]
  /\ haCalls = {}

-----------------------------------------------------------------------------
(* CommitAsync                                                             *)

HaIds == {row.id : row \in haRows}

\* 32-bit ints, unchecked.
HaInt(n) == IF n > HaTop THEN n - 2 * (HaTop + 1) ELSE n

\* MAX over both tables as committed, and the floor.
StartId ==
  LET last == HaInt(Max(HaIds \cup HaLive \cup {0}) + 1)
  IN  IF last > HaFloor THEN last ELSE HaFloor

RangeOf(start, n) == {HaInt(start + i) : i \in 0 .. n - 1}

TxIds(t) == RangeOf(t.start, t.file.good)

\* GetBatchJobsAsync: the rows from ImportedIdStart to ImportedIdEnd.
RowsOfBatch(b) ==
  LET batch == haBatches[b]
  IN  {row \in haRows : batch.good > 0 /\ row.id \in batch.start .. HaInt(batch.start + batch.good - 1)}

CommitsSoFar == Cardinality(haTxs)

HaStep(t, phase, start) ==
  haTxs' = (haTxs \ {t}) \cup {[t EXCEPT !.phase = phase, !.start = start]}

\* The page's commit, or another operator's.
HaBegin(file) ==
  haTxs' = haTxs \cup {[n |-> CommitsSoFar + 1, file |-> file, phase |-> "begun", start |-> 0, batch |-> 0]}

HaAllocate(t) ==
  /\ t.phase = "begun" /\ t.file.good > 0
  /\ HaStep(t, "allocated", StartId)
  /\ UNCHANGED <<haRows, haBatches>>

\* The insert waits for another's uncommitted rows of its ids, and fails on committed ones.
HaInsert(t) ==
  /\ t.phase = "allocated" /\ TxIds(t) \cap HaIds = {}
  /\ \A u \in haTxs \ {t} : u.phase = "inserted" => TxIds(u) \cap TxIds(t) = {}
  /\ HaStep(t, "inserted", t.start)
  /\ UNCHANGED <<haRows, haBatches>>

NewBatch == Cardinality(DOMAIN haBatches) + 1

Recorded(start, file) ==
  haBatches' = [b \in DOMAIN haBatches \cup {NewBatch} |->
                  IF b = NewBatch THEN [start |-> start, good |-> file.good, bad |-> file.bad]
                  ELSE haBatches[b]]

HaCommitTx(t) ==
  /\ t.phase = "inserted"
  /\ haRows' = haRows \cup {[id |-> id, by |-> t.n] : id \in TxIds(t)}
  /\ Recorded(t.start, t.file)
  /\ haTxs' = (haTxs \ {t}) \cup {[t EXCEPT !.phase = "done", !.batch = NewBatch]}

\* WriteBatchRowAsync: only rejections.
HaRecordEmpty(t) ==
  /\ t.phase = "begun" /\ t.file.good = 0
  /\ Recorded(0, t.file)
  /\ haTxs' = (haTxs \ {t}) \cup {[t EXCEPT !.phase = "done", !.batch = NewBatch]}
  /\ UNCHANGED haRows

\* Mutant of RolledBack: rows are inserted outside the transaction.
RowsStay(t) ==
  haRows' = haRows \cup (IF t.phase = "inserted" THEN {[id |-> id, by |-> t.n] : id \in TxIds(t)} ELSE {})

RolledBack(t) == haRows' = haRows

\* A clash of ids, a deadlock, a lost connection.
HaFail(t) ==
  /\ t.phase \in {"begun", "allocated", "inserted"}
  /\ RolledBack(t)
  /\ HaStep(t, "failed", t.start)
  /\ UNCHANGED haBatches

HaOthersCommit(file) ==
  /\ CommitsSoFar < MaxHa /\ file # NoFile /\ HaBegin(file)
  /\ UNCHANGED <<haRows, haBatches>>

HaServer ==
  /\ \/ \E t \in haTxs : HaAllocate(t) \/ HaInsert(t) \/ HaCommitTx(t) \/ HaRecordEmpty(t) \/ HaFail(t)
     \/ \E file \in HaFiles : HaOthersCommit(file)
  /\ UNCHANGED <<haForm, haLook, haCalls>>

-----------------------------------------------------------------------------
(* The page                                                                *)

HaMove(form) == haForm' = form /\ UNCHANGED <<haDb, haLook, haCalls>>

\* loadBatches: what the server lists as it reads; the answers come in any order, or not at all.
Loading(form) == [form EXCEPT !.loads = @ \cup {DOMAIN haBatches}]

BatchesListed(list) ==
  /\ list \in haForm.loads
  /\ \E shown \in {list, haForm.list} :
       HaMove([haForm EXCEPT !.list = shown, !.loads = @ \ {list}])

HaRefresh ==
  haForm.step = "list" /\ haForm.loads = {} /\ haLook.batch = 0 /\ HaMove(Loading(haForm))

\* resetWizard.
Emptied(form, step) ==
  [form EXCEPT !.file = NoFile, !.mapped = FALSE, !.result = 0, !.step = step]

StartNewUpload ==
  /\ haLook.batch = 0
  /\ \/ haForm.step = "list" /\ haForm.loads = {}
     \/ haForm.step = "result"
  /\ HaMove(Emptied(haForm, "upload"))

BackToList ==
  /\ haForm.step \in {"upload", "map", "result"} /\ ~haForm.busy
  /\ HaMove(Loading(Emptied(haForm, "list")))

\* autoMapHeaders finds the required fields by their names and aliases, or not all of them.
AutoMapped == BOOLEAN

\* onFileSelected answered: parsed; a refused upload changes nothing here.
HaUpload(file) ==
  /\ haForm.step = "upload"
  /\ \E mapped \in AutoMapped :
       HaMove([haForm EXCEPT !.file = file, !.mapped = mapped, !.step = "map"])

MapColumn == haForm.step = "map" /\ HaMove([haForm EXCEPT !.mapped = ~@])

\* onCommit; a file without rows is answered at once, without a batch.
OnCommit ==
  /\ haForm.step = "map" /\ ~haForm.busy /\ haForm.mapped /\ CommitsSoFar < MaxHa
  /\ IF haForm.file = NoFile
     THEN haForm' = Loading([haForm EXCEPT !.step = "result"]) /\ UNCHANGED haTxs
     ELSE /\ haForm' = [haForm EXCEPT !.busy = TRUE, !.sent = CommitsSoFar + 1]
          /\ HaBegin(haForm.file)
  /\ UNCHANGED <<haRows, haBatches, haLook, haCalls>>

\* The reply; a lost one leaves the step as it was, with the button on.
CommitAnswered(t) ==
  /\ haForm.busy /\ t.n = haForm.sent /\ t.phase \in {"done", "failed"}
  /\ \/ /\ t.phase = "done"
        /\ HaMove(Loading([haForm EXCEPT !.busy = FALSE, !.result = t.batch, !.step = "result"]))
     \/ HaMove([haForm EXCEPT !.busy = FALSE])

-----------------------------------------------------------------------------
(* The drill-down of a batch                                               *)

HaAsk(what, b, from) == [what |-> what, batch |-> b, from |-> from]

\* initialTab, and the two effects: the detail always, the jobs unless some were fetched.
SelectBatch(b) ==
  /\ haForm.step = "list" /\ haLook.batch = 0 /\ b \in haForm.list
  /\ haLook' = [haLook EXCEPT !.batch = b,
                  !.tab = IF haBatches[b].good = 0 /\ haBatches[b].bad > 0 THEN "errors" ELSE "jobs",
                  !.waits = @ \/ (haBatches[b].good > 0 /\ ~haLook.fetched)]
  /\ haCalls' = haCalls \cup {HaAsk("detail", b, 0)} \cup
       (IF haBatches[b].good > 0 /\ ~haLook.fetched THEN {HaAsk("jobs", b, 0)} ELSE {})
  /\ UNCHANGED <<haDb, haForm>>

SetTab(tab) ==
  /\ haLook.batch # 0 /\ tab # haLook.tab
  /\ LET loads == tab = "jobs" /\ ~haLook.fetched /\ haBatches[haLook.batch].good > 0
     IN  /\ haLook' = [haLook EXCEPT !.tab = tab, !.waits = @ \/ loads]
         /\ haCalls' = haCalls \cup (IF loads THEN {HaAsk("jobs", haLook.batch, 0)} ELSE {})
  /\ UNCHANGED <<haDb, haForm>>

\* Reload, Prev, Next.
PageJobs(from) ==
  /\ haLook.batch # 0 /\ haLook.tab = "jobs" /\ ~haLook.waits /\ haBatches[haLook.batch].good > 0
  /\ \/ from = haLook.jobs.from
     \/ from = haLook.jobs.from - HaPage
     \/ from = haLook.jobs.from + HaPage /\ haLook.jobs.of # 0 /\ from < haBatches[haLook.jobs.of].good
  /\ haLook' = [haLook EXCEPT !.waits = TRUE]
  /\ haCalls' = haCalls \cup {HaAsk("jobs", haLook.batch, from)}
  /\ UNCHANGED <<haDb, haForm>>

CloseBatch ==
  /\ haLook.batch # 0
  /\ haLook' = [haLook EXCEPT !.batch = 0, !.detail = 0, !.jobs = HaUnread, !.fetched = FALSE]
  /\ UNCHANGED <<haDb, haForm, haCalls>>

\* An answer is stored whatever batch is open by then, if any.
DrillAnswered(c) ==
  /\ c \in haCalls /\ haCalls' = haCalls \ {c}
  /\ haLook' \in
       (IF c.what = "detail" THEN {[haLook EXCEPT !.detail = c.batch], haLook}
        ELSE {[haLook EXCEPT !.jobs = [of |-> c.batch, from |-> c.from], !.fetched = TRUE, !.waits = FALSE],
              [haLook EXCEPT !.waits = FALSE]})
  /\ UNCHANGED <<haDb, haForm>>

HaNext ==
  \/ HaServer \/ HaRefresh \/ StartNewUpload \/ BackToList \/ MapColumn \/ OnCommit \/ CloseBatch
  \/ \E list \in haForm.loads : BatchesListed(list)
  \/ \E file \in HaFiles : HaUpload(file)
  \/ \E t \in haTxs : CommitAnswered(t)
  \/ \E b \in DOMAIN haBatches : SelectBatch(b)
  \/ \E tab \in {"jobs", "errors"} : SetTab(tab)
  \/ \E from \in 0 .. Max({f.good : f \in HaFiles}) : PageJobs(from)
  \/ \E c \in haCalls : DrillAnswered(c)

HaSpec == HaInit /\ [][HaNext]_haVars

-----------------------------------------------------------------------------
HaTypeOK ==
  /\ haBatches \in [DOMAIN haBatches -> [start : Int, good : Nat, bad : Nat]]
  /\ haForm.list \subseteq DOMAIN haBatches /\ haForm.result \in DOMAIN haBatches \cup {0}
  /\ haLook.batch \in DOMAIN haBatches \cup {0} /\ haLook.jobs.of \in DOMAIN haBatches \cup {0}
  /\ haLook.detail \in DOMAIN haBatches \cup {0} /\ haLook.jobs.from \in Nat

\* The drill-down and the client codes of a batch read the archive by its range of ids: a range
\* holds the rows of one import, as many as the audit row says, and every row is in a range,
\* whatever imports ran at once, clashed or failed half way.
BatchHoldsItsRows ==
  /\ \A b \in DOMAIN haBatches :
       /\ Cardinality(RowsOfBatch(b)) = haBatches[b].good
       /\ \A r, s \in RowsOfBatch(b) : r.by = s.by
  /\ haRows = UNION {RowsOfBatch(b) : b \in DOMAIN haBatches}
=================================================================================
