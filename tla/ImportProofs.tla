----------------------------- MODULE ImportProofs -----------------------------
(*****************************************************************************)
(* The types of the /bulk-import page for any rows in the three tables.  The *)
(* historic archive for any files and any number of imports: whatever is     *)
(* begun, refused or lost, a batch holds the rows it announces.  The bulk    *)
(* import wizard for any file, depots and dates, in the hands of an operator *)
(* who leaves neither a call under way nor a started import: each row once,  *)
(* counted, and what is left told but for one case.                          *)
(*****************************************************************************)
EXTENDS ImportList, HistoricArchive, ImportWizard, FiniteSetTheorems, TLAPS

ListRecord ==
  [rows : SUBSET IlJobs, free : SUBSET IlJobs, filter : IlFilters, ticked : SUBSET IlKeys,
   pending : Nat]

LoadAnswer == [rows : SUBSET IlJobs, free : SUBSET IlJobs]

Load == [n : Nat, read : BOOLEAN, got : LoadAnswer]

LoadAsk == [one : BOOLEAN, rows : SUBSET IlJobs]

\* The types that the list's own type rests on: what loads bring and what is asked about.
IlTypes ==
  /\ ilServer \in [rows : SUBSET IlJobs, taken : SUBSET IlJobs]
  /\ ilList \in ListRecord
  /\ ilAsk \in LoadAsk /\ (ilAsk.one => ilAsk.rows # {})
  /\ ilLoads \subseteq Load
  /\ ilCount \in Nat

\* The effect on filtered only takes ticks away.
LEMMA PrunedTyped ==
  ASSUME NEW list \in ListRecord
  PROVE  PruneTicks(list) \in ListRecord
  BY DEF PruneTicks, ListRecord

\* A row of the list has an id, and its key is a key.
LEMMA RowHasKey ==
  ASSUME NEW row \in IlJobs
  PROVE  row[2] \in Nat /\ RowKey(row) \in IlKeys
  BY IlAssumption DEF IlKeys

\* A load is started with nothing read.
LEMMA StartedLoad == ASSUME IlTypes, IlStartLoad PROVE ilLoads' \subseteq Load /\ ilCount' \in Nat
<1>1. [n |-> ilCount + 1, read |-> FALSE, got |-> NoServerRead] \in Load
  BY DEF IlTypes, Load, LoadAnswer, NoServerRead
<1>2. ilLoads' = ilLoads \cup {[n |-> ilCount + 1, read |-> FALSE, got |-> NoServerRead]}
  BY DEF IlStartLoad
<1>3. ilLoads \subseteq Load /\ ilCount \in Nat
  BY DEF IlTypes
<1>4. ilLoads' \subseteq Load
  BY <1>1, <1>2, <1>3
<1> QED
  BY <1>3, <1>4 DEF IlStartLoad

\* The page opens with no tick.
LEMMA IlStart == IlInit => IlTypes
  BY DEF IlInit, IlTypes, ListRecord, LoadAnswer, Load, LoadAsk, IlFilters, NothingAsked,
         NoServerRead

\* Every step.
LEMMA IlStep == IlTypes /\ [IlNext]_ilVars => IlTypes'
<1> SUFFICES ASSUME IlTypes, [IlNext]_ilVars PROVE IlTypes'
  OBVIOUS
<1> USE DEF IlTypes
<1>1. CASE UNCHANGED ilVars
  BY <1>1 DEF ilVars
<1>2. CASE IlRefresh
  BY <1>2, StartedLoad DEF IlRefresh
<1>3. CASE AskDeleteSelected
  BY <1>3 DEF AskDeleteSelected, IlConfirm, LoadAsk, IlFiltered, ListRecord
<1>4. CASE IlDecline \/ AgreeSelected
  <2>1. NothingAsked \in LoadAsk /\ ~NothingAsked.one
    BY DEF NothingAsked, LoadAsk
  <2>2. ilAsk' = NothingAsked /\ UNCHANGED <<ilServer, ilList, ilLoads, ilCount>>
    BY <1>4 DEF IlDecline, AgreeSelected
  <2> QED
    BY <2>1, <2>2
<1>5. ASSUME NEW c \in ilLoads, ServeImports(c) PROVE IlTypes'
  <2>1. [c EXCEPT !.read = TRUE,
                  !.got = [rows |-> ilServer.rows, free |-> ilServer.rows \ ilServer.taken]]
          \in Load
    BY DEF LoadAnswer, Load
  <2> QED
    BY <1>5, <2>1 DEF ServeImports
<1>6. ASSUME NEW row \in IlJobs, WizardImports(row) PROVE IlTypes'
  BY <1>6, StartedLoad DEF WizardImports
<1>7. ASSUME NEW row \in IlJobs, OthersImport(row) PROVE IlTypes'
  BY <1>7 DEF OthersImport
<1>8. ASSUME NEW row \in IlJobs, AskDeleteRow(row) PROVE IlTypes'
  BY <1>8 DEF AskDeleteRow, IlConfirm, LoadAsk
<1>9. ASSUME NEW c \in ilLoads, ImportsLoaded(c) PROVE IlTypes'
  <2>1. PICK got \in {c.got, NoServerRead} :
          ilList' = PruneTicks([ilList EXCEPT !.rows = got.rows, !.free = got.free])
    BY <1>9 DEF ImportsLoaded
  <2>2. got \in LoadAnswer
    BY DEF NoServerRead, LoadAnswer, Load
  <2>3. [ilList EXCEPT !.rows = got.rows, !.free = got.free] \in ListRecord
    BY <2>2 DEF ListRecord, LoadAnswer
  <2> QED
    BY <1>9, <2>1, <2>3, PrunedTyped DEF ImportsLoaded
<1>10. ASSUME NEW filter \in IlFilters, SetTypeFilter(filter) PROVE IlTypes'
  <2>1. [ilList EXCEPT !.filter = filter] \in ListRecord
    BY DEF ListRecord
  <2> QED
    BY <1>10, <2>1, PrunedTyped DEF SetTypeFilter, IlLooks
<1>11. ASSUME NEW row \in IlJobs, ToggleRowSelected(row) PROVE IlTypes'
  <2>1. PICK k : /\ k = RowKey(row)
                 /\ ilList' = [ilList EXCEPT !.ticked = IF k \in @ THEN @ \ {k} ELSE @ \cup {k}]
    BY <1>11 DEF ToggleRowSelected
  <2>2. k \in IlKeys
    BY <2>1, RowHasKey
  <2>3. ilList' \in ListRecord
    BY <2>1, <2>2 DEF ListRecord
  <2> QED
    BY <1>11, <2>3 DEF ToggleRowSelected, IlLooks
<1>12. CASE ToggleAllImports
  <2> DEFINE keys == {RowKey(row) : row \in IlFiltered(ilList) \cap ilList.free}
  <2>1. keys \subseteq IlKeys
    BY RowHasKey DEF IlFiltered, ListRecord
  <2>2. ilList' = [ilList EXCEPT !.ticked = IF keys \subseteq @ THEN {} ELSE keys]
    BY <1>12 DEF ToggleAllImports
  <2> HIDE DEF keys
  <2>3. ilList' \in ListRecord
    BY <2>1, <2>2 DEF ListRecord
  <2> QED
    BY <1>12, <2>3 DEF ToggleAllImports, IlLooks
<1>13. CASE AgreeOne
  <2> DEFINE row == CHOOSE row \in ilAsk.rows : TRUE
  <2>1. row \in IlJobs
    BY <1>13 DEF AgreeOne, LoadAsk
  <2>2. ilList' = [ilList EXCEPT !.pending = row[2]]
    BY <1>13 DEF AgreeOne
  <2>3. row[2] \in Nat
    BY <2>1, RowHasKey
  <2> HIDE DEF row
  <2>4. ilList' \in ListRecord
    BY <2>2, <2>3 DEF IlFiltered, ListRecord
  <2> QED
    BY <1>13, <2>4 DEF AgreeOne, NothingAsked, LoadAsk
<1>14. ASSUME NEW d \in ilOnes, DeleteOne(d) PROVE IlTypes'
  <2> DEFINE done == [ilList EXCEPT !.pending = 0]
             shorter == [done EXCEPT !.rows = {r \in @ : r[2] # d.row[2]}]
  <2>1. done \in ListRecord
    BY DEF IlFiltered, ListRecord
  <2>2. shorter \in ListRecord
    BY <2>1 DEF ListRecord
  <2>3. PICK ok \in BOOLEAN : /\ IlDeleted(d.row, ok)
                              /\ ilList' = IF ok THEN PruneTicks(shorter) ELSE done
    BY <1>14 DEF DeleteOne
  <2> HIDE DEF done, shorter
  <2>4. ilList' \in ListRecord
    BY <2>1, <2>2, <2>3, PrunedTyped
  <2>5. ilServer' \in [rows : SUBSET IlJobs, taken : SUBSET IlJobs]
    BY <2>3 DEF IlDeleted
  <2> QED
    BY <1>14, <2>4, <2>5 DEF DeleteOne
<1>15. CASE DeleteNext
  <2> DEFINE gone(ok) == ilBulk.gone \cup (IF ok THEN {RowKey(Head(ilBulk.left))} ELSE {})
             left(ok) == {r \in ilList.rows : RowKey(r) \notin gone(ok)}
             shorter(ok) == [ilList EXCEPT !.rows = left(ok), !.ticked = @ \ gone(ok)]
  <2>1. PICK ok \in BOOLEAN : /\ IlDeleted(Head(ilBulk.left), ok)
                              /\ UNCHANGED ilList \/ ilList' = PruneTicks(shorter(ok))
    BY <1>15, Zenon DEF DeleteNext
  <2>2. shorter(ok) \in ListRecord
    BY DEF ListRecord
  <2> HIDE DEF shorter
  <2>3. ilList' \in ListRecord
    BY <2>1, <2>2, PrunedTyped
  <2>4. ilServer' \in [rows : SUBSET IlJobs, taken : SUBSET IlJobs]
    BY <2>1 DEF IlDeleted
  <2> QED
    BY <1>15, <2>3, <2>4 DEF DeleteNext
<1> QED
  BY <1>1, <1>2, <1>3, <1>4, <1>5, <1>6, <1>7, <1>8, <1>9, <1>10, <1>11, <1>12, <1>13, <1>14, <1>15
  DEF IlNext

-------------------------------------------------------------------------------
\* A finite set of integers has a greatest: of the subsets without one, a smallest would have.
LEMMA FiniteMax ==
  ASSUME NEW S \in SUBSET Int, IsFiniteSet(S), S # {}
  PROVE  Max(S) \in S /\ \A y \in S : Max(S) >= y
<1> DEFINE Topped(T) == \E x \in T : \A y \in T : x >= y
           Bad == {T \in SUBSET S : T # {} /\ ~Topped(T)}
<1>1. ASSUME Bad # {} PROVE FALSE
  <2>1. IsWellFoundedOn(StrictSubsetOrdering(S), FiniteSubsetsOf(S))
    BY FS_StrictSubsetOrderingWellFounded
  <2>2. FiniteSubsetsOf(S) = SUBSET S
    BY FS_FiniteSubsetsOfFinite
  <2>3. Bad \subseteq SUBSET S
    OBVIOUS
  <2>4. PICK T \in Bad : \A U \in Bad : ~ (<<U, T>> \in StrictSubsetOrdering(S))
    <3> HIDE DEF Bad
    <3>1. IsWellFoundedOn(StrictSubsetOrdering(S), SUBSET S)
      BY <2>1, <2>2, Zenon
    <3> QED
      BY <1>1, <2>3, <3>1, WFMin, Zenon
  <2>5. PICK x : x \in T
    BY <2>4
  <2>6. T \ {x} \notin Bad
    <3>1. <<T \ {x}, T>> \in StrictSubsetOrdering(S)
      BY <2>4, <2>5 DEF StrictSubsetOrdering
    <3> QED
      BY <2>4, <3>1
  <2>7. T \in SUBSET S /\ x \in Int /\ ~Topped(T) /\ \A y \in T : y \in Int
    BY <2>4, <2>5
  <2>8. T \ {x} = {} \/ Topped(T \ {x})
    BY <2>6, <2>7
  <2>9. CASE T \ {x} = {}
    BY <2>5, <2>7, <2>9
  <2>10. CASE Topped(T \ {x})
    <3>1. PICK m \in T \ {x} : \A y \in T \ {x} : m >= y
      BY <2>10
    <3>2. CASE m >= x
      BY <2>7, <3>1, <3>2
    <3>3. CASE x >= m
      BY <2>5, <2>7, <3>1, <3>3
    <3> QED
      BY <2>7, <3>1, <3>2, <3>3
  <2> QED
    BY <2>8, <2>9, <2>10
<1>2. Topped(S)
  BY <1>1
<1> QED
  BY <1>2 DEF Max

\* The rows that commit k inserts from start on.
RowsBy(start, good, k) == {[id |-> i, by |-> k] : i \in start .. start + good - 1}

\* A batch of good rows takes as many ids as it has rows.
LEMMA RowsByCount ==
  ASSUME NEW start \in Nat, NEW good \in Nat, NEW k
  PROVE  Cardinality(RowsBy(start, good, k)) = good
<1> DEFINE f == [i \in 1 .. good |-> [id |-> start + i - 1, by |-> k]]
           R == RowsBy(start, good, k)
<1>1. f \in [1 .. good -> R]
  <2> SUFFICES ASSUME NEW i \in 1 .. good PROVE [id |-> start + i - 1, by |-> k] \in R
    OBVIOUS
  <2>1. start + i - 1 \in start .. start + good - 1
    OBVIOUS
  <2> QED
    BY <2>1 DEF RowsBy
<1>2. \A i, j \in 1 .. good : f[i] = f[j] => i = j
  <2> SUFFICES ASSUME NEW i \in 1 .. good, NEW j \in 1 .. good,
                      [id |-> start + i - 1, by |-> k] = [id |-> start + j - 1, by |-> k]
               PROVE  i = j
    OBVIOUS
  <2>1. [id |-> start + i - 1, by |-> k].id = [id |-> start + j - 1, by |-> k].id
    OBVIOUS
  <2> QED
    BY <2>1
<1>3. \A r \in R : \E i \in 1 .. good : f[i] = r
  <2> SUFFICES ASSUME NEW r \in R PROVE \E i \in 1 .. good : f[i] = r
    OBVIOUS
  <2>0. PICK n \in start .. start + good - 1 : r = [id |-> n, by |-> k]
    BY DEF RowsBy
  <2>1. n - start + 1 \in 1 .. good /\ start + (n - start + 1) - 1 = n
    OBVIOUS
  <2>2. f[n - start + 1] = [id |-> n, by |-> k]
    BY <2>1
  <2> QED
    BY <2>0, <2>1, <2>2
<1> HIDE DEF f, R
<1>4. f \in Bijection(1 .. good, R)
  BY <1>1, <1>2, <1>3 DEF Bijection, Injection, Surjection, IsInjective
<1>5. ExistsBijection(1 .. good, R)
  BY <1>4 DEF ExistsBijection
<1>6. Cardinality(R) = good
  BY <1>5, FS_CountingElements
<1> QED
  BY <1>6 DEF R

-------------------------------------------------------------------------------
ArchiveFiles == [good : Nat, bad : Nat]

TxRecord ==
  [n : Nat, file : ArchiveFiles, phase : {"begun", "allocated", "inserted", "done", "failed"},
   start : Nat, batch : Nat]

HaFormFields == {"step", "file", "mapped", "busy", "sent", "result", "list", "loads"}

BatchRecord == [start : Nat, good : Nat, bad : Nat]

\* No import has reached the last 32-bit id: beyond it ids would go on at the other end.
BelowTop == \A t \in haTxs : t.phase # "begun" => t.start + t.file.good - 1 <= HaTop

ArchiveTypes ==
  /\ haTxs \subseteq TxRecord /\ IsFiniteSet(haTxs)
  /\ DOMAIN haForm = HaFormFields /\ haForm.file \in ArchiveFiles
  /\ HaIds \subseteq Nat /\ IsFiniteSet(HaIds)
  /\ \E k \in Nat : DOMAIN haBatches = 1 .. k
  /\ \A b \in DOMAIN haBatches :
       haBatches[b] \in BatchRecord /\ haBatches[b].start + haBatches[b].good - 1 <= HaTop

\* Rows that are inserted and not committed clash with no others.
InsertedApart ==
  /\ \A t \in haTxs : t.phase = "inserted" => TxIds(t) \cap HaIds = {}
  /\ \A t, u \in haTxs :
       t.phase = "inserted" /\ u.phase = "inserted" /\ t # u => TxIds(t) \cap TxIds(u) = {}

BatchesWhole ==
  /\ \A b \in DOMAIN haBatches :
       \E k : RowsOfBatch(b) = RowsBy(haBatches[b].start, haBatches[b].good, k)
  /\ haRows = UNION {RowsOfBatch(b) : b \in DOMAIN haBatches}

ArchiveInv == ArchiveTypes /\ InsertedApart /\ BatchesWhole

\* Below the top a range of ids is an interval.
LEMMA PlainRange ==
  ASSUME NEW start \in Nat, NEW good \in Nat, start + good - 1 <= HaTop
  PROVE  /\ RangeOf(start, good) = start .. start + good - 1
         /\ HaInt(start + good - 1) = start + good - 1
<1>1. HaTop \in Nat
  BY HaAssumption
<1>2. \A i \in 0 .. good - 1 : HaInt(start + i) = start + i
  BY <1>1 DEF HaInt
<1>3. HaInt(start + good - 1) = start + good - 1
  BY <1>1 DEF HaInt
<1>4. ASSUME NEW x PROVE x \in RangeOf(start, good) <=> x \in start .. start + good - 1
  <2>1. ASSUME x \in RangeOf(start, good) PROVE x \in start .. start + good - 1
    <3>1. PICK i \in 0 .. good - 1 : x = HaInt(start + i)
      BY <2>1 DEF RangeOf
    <3> QED
      BY <1>2, <3>1
  <2>2. ASSUME x \in start .. start + good - 1 PROVE x \in RangeOf(start, good)
    <3>1. x - start \in 0 .. good - 1 /\ start + (x - start) = x
      BY <2>2
    <3>2. x = HaInt(start + (x - start))
      BY <1>2, <3>1
    <3> QED
      BY <3>1, <3>2 DEF RangeOf
  <2> QED
    BY <2>1, <2>2
<1> QED
  BY <1>3, <1>4

\* The id that StartId reads off the archive is a natural number.
LEMMA StartType == ASSUME ArchiveInv PROVE StartId \in Nat
<1> DEFINE S == HaIds \cup HaLive \cup {0}
           last == HaInt(Max(S) + 1)
<1>1. S \in SUBSET Int /\ IsFiniteSet(S) /\ S # {}
  <2>1. IsFiniteSet(HaIds \cup HaLive)
    BY HaAssumption, FS_Union DEF ArchiveInv, ArchiveTypes
  <2>2. IsFiniteSet(S)
    BY <2>1, FS_AddElement
  <2> QED
    BY <2>2, HaAssumption DEF ArchiveInv, ArchiveTypes
<1>2. Max(S) \in Int
  <2> HIDE DEF S
  <2> QED
    BY <1>1, FiniteMax
<1>3. last \in Int
  <2> HIDE DEF S
  <2> QED
    BY <1>2, HaAssumption DEF HaInt
<1>4. StartId = IF last > HaFloor THEN last ELSE HaFloor
  BY DEF StartId
<1> HIDE DEF last, S
<1> QED
  BY <1>3, <1>4, HaAssumption

\* A commit of a form's file, or of another's.
LEMMA KeepBegin ==
  ASSUME ArchiveInv, NEW file \in ArchiveFiles, HaBegin(file), UNCHANGED <<haRows, haBatches>>,
         DOMAIN haForm' = HaFormFields /\ haForm'.file \in ArchiveFiles
  PROVE  ArchiveInv'
<1> DEFINE new == [n |-> CommitsSoFar + 1, file |-> file, phase |-> "begun", start |-> 0,
                    batch |-> 0]
<1>1. haTxs' = haTxs \cup {new}
  BY DEF HaBegin
<1>2. new \in TxRecord /\ new.phase = "begun"
  BY FS_CardinalityType DEF ArchiveInv, ArchiveTypes, TxRecord, CommitsSoFar
<1> HIDE DEF new
<1>3. IsFiniteSet(haTxs') /\ haTxs' \subseteq TxRecord
  BY <1>1, <1>2, FS_AddElement DEF ArchiveInv, ArchiveTypes
<1>4. HaIds' = HaIds /\ \A b : RowsOfBatch(b)' = RowsOfBatch(b)
  BY DEF HaIds, RowsOfBatch
<1>5. ArchiveTypes'
  BY <1>3, <1>4 DEF ArchiveInv, ArchiveTypes
<1>6. InsertedApart'
  BY <1>1, <1>2, <1>4 DEF ArchiveInv, InsertedApart, TxIds
<1>7. BatchesWhole'
  BY <1>4 DEF ArchiveInv, BatchesWhole
<1> QED
  BY <1>5, <1>6, <1>7 DEF ArchiveInv

\* What is asked of the transactions after one of them is replaced.
LEMMA TxReplaced ==
  ASSUME ArchiveInv, NEW t \in haTxs, NEW u \in TxRecord, haTxs' = (haTxs \ {t}) \cup {u}
  PROVE  haTxs' \subseteq TxRecord /\ IsFiniteSet(haTxs')
<1>1. IsFiniteSet(haTxs \ {t})
  BY FS_RemoveElement DEF ArchiveInv, ArchiveTypes
<1> QED
  BY <1>1, FS_AddElement DEF ArchiveInv, ArchiveTypes

\* A step that adds no row and no batch.
LEMMA KeepTx ==
  ASSUME ArchiveInv, NEW t \in haTxs, NEW u \in TxRecord, haTxs' = (haTxs \ {t}) \cup {u},
         UNCHANGED <<haRows, haBatches, haForm>>,
         u.phase = "inserted" =>
           /\ TxIds(u) \cap HaIds = {}
           /\ \A v \in haTxs \ {t} : v.phase = "inserted" => TxIds(u) \cap TxIds(v) = {}
  PROVE  ArchiveInv'
<1>1. HaIds' = HaIds /\ \A b : RowsOfBatch(b)' = RowsOfBatch(b)
  BY DEF HaIds, RowsOfBatch
<1>2. ArchiveTypes'
  BY <1>1, TxReplaced DEF ArchiveInv, ArchiveTypes
<1>3. InsertedApart'
  BY <1>1 DEF ArchiveInv, InsertedApart, TxIds
<1>4. BatchesWhole'
  BY <1>1 DEF ArchiveInv, BatchesWhole
<1> QED
  BY <1>2, <1>3, <1>4 DEF ArchiveInv

\* A transaction that commits its rows, if it has any, and its audit row.
LEMMA KeepRecorded ==
  ASSUME ArchiveInv, NEW t \in haTxs, NEW start \in Nat, start + t.file.good - 1 <= HaTop,
         haRows' = haRows \cup RowsBy(start, t.file.good, t.n), Recorded(start, t.file),
         haTxs' = (haTxs \ {t}) \cup {[t EXCEPT !.phase = "done", !.batch = NewBatch]},
         (start .. start + t.file.good - 1) \cap HaIds = {},
         \A u \in haTxs \ {t} : u.phase = "inserted" =>
           TxIds(u) \cap (start .. start + t.file.good - 1) = {},
         UNCHANGED haForm
  PROVE  ArchiveInv'
<1> DEFINE good == t.file.good
           ids == start .. start + good - 1
<1>1. good \in Nat /\ t.file.bad \in Nat /\ t \in TxRecord
  BY DEF ArchiveInv, ArchiveTypes, TxRecord, ArchiveFiles
<1>2. PICK k \in Nat : DOMAIN haBatches = 1 .. k
  BY DEF ArchiveInv, ArchiveTypes
<1>3. NewBatch = k + 1
  <2>1. Cardinality(1 .. k) = IF 1 > k THEN 0 ELSE k - 1 + 1
    <3>1. 1 \in Int /\ k \in Int
      OBVIOUS
    <3> HIDE <1>2
    <3> QED
      BY <3>1, FS_Interval, Zenon
  <2>2. Cardinality(1 .. k) = k
    BY <1>2, <2>1
  <2> QED
    BY <1>2, <2>2 DEF NewBatch
<1>4. /\ DOMAIN haBatches' = 1 .. k + 1
      /\ haBatches'[k + 1] = [start |-> start, good |-> good, bad |-> t.file.bad]
      /\ \A b \in 1 .. k : haBatches'[b] = haBatches[b]
  BY <1>2, <1>3 DEF Recorded
<1>5. \A r \in RowsBy(start, good, t.n) : r.id \in ids
  BY DEF RowsBy
<1>6. ASSUME NEW b \in 1 .. k PROVE RowsOfBatch(b)' = RowsOfBatch(b)
  <2> DEFINE s == haBatches[b].start
             g == haBatches[b].good
  <2>1. s \in Nat /\ g \in Nat /\ HaInt(s + g - 1) = s + g - 1
    BY <1>2, PlainRange DEF ArchiveInv, ArchiveTypes, BatchRecord
  <2>2. PICK m : RowsOfBatch(b) = RowsBy(s, g, m)
    BY <1>2 DEF ArchiveInv, BatchesWhole
  <2>3. ASSUME NEW i \in s .. s + g - 1 PROVE i \in HaIds
    <3>1. [id |-> i, by |-> m] \in RowsOfBatch(b)
      BY <2>2 DEF RowsBy
    <3>2. [id |-> i, by |-> m] \in haRows
      BY <3>1 DEF RowsOfBatch
    <3> QED
      BY <3>2 DEF HaIds
  <2>4. RowsOfBatch(b) = {row \in haRows : g > 0 /\ row.id \in s .. s + g - 1}
    BY <2>1 DEF RowsOfBatch
  <2>5. RowsOfBatch(b)' = {row \in haRows' : g > 0 /\ row.id \in s .. s + g - 1}
    BY <1>4, <2>1 DEF RowsOfBatch
  <2>6. \A r \in RowsBy(start, good, t.n) : r.id \notin s .. s + g - 1
    BY <1>5, <2>3
  <2> HIDE DEF s, g
  <2> QED
    BY <2>4, <2>5, <2>6
<1>7. RowsOfBatch(k + 1)' = RowsBy(start, good, t.n)
  <2>1. haBatches'[k + 1].start = start /\ haBatches'[k + 1].good = good
    BY <1>4
  <2>2. HaInt(start + good - 1) = start + good - 1
    BY <1>1, PlainRange
  <2>3. RowsOfBatch(k + 1)' = {row \in haRows' : good > 0 /\ row.id \in ids}
    BY <2>1, <2>2 DEF RowsOfBatch
  <2>5. good = 0 => ids = {}
    OBVIOUS
  <2>7. haRows' = haRows \cup RowsBy(start, good, t.n)
    OBVIOUS
  <2>8. good = 0 => RowsBy(start, good, t.n) = {}
    BY <2>5 DEF RowsBy
  <2>4. \A r \in haRows : r.id \notin ids
    BY DEF HaIds
  <2>6. good > 0 \/ good = 0
    BY <1>1
  <2> HIDE DEF ids, good
  <2> QED
    BY <1>5, <2>3, <2>4, <2>6, <2>7, <2>8
<1>8. HaIds' = HaIds \cup ids
  <2>1. {r.id : r \in RowsBy(start, good, t.n)} = ids
    <3>1. \A i \in ids : [id |-> i, by |-> t.n] \in RowsBy(start, good, t.n)
      BY DEF RowsBy
    <3>2. \A i \in ids : [id |-> i, by |-> t.n].id = i
      OBVIOUS
    <3> HIDE DEF ids
    <3> QED
      BY <1>5, <3>1, <3>2
  <2> QED
    BY <2>1 DEF HaIds
<1>9. ArchiveTypes'
  <2>1. HaIds' \subseteq Nat /\ IsFiniteSet(HaIds')
    <3>1. ids \subseteq Nat /\ IsFiniteSet(ids)
      BY <1>1, FS_Interval
    <3> HIDE DEF ids
    <3>2. HaIds \subseteq Nat /\ IsFiniteSet(HaIds)
      BY DEF ArchiveInv, ArchiveTypes
    <3> QED
      BY <1>8, <3>1, <3>2, FS_Union
  <2>9. PICK m \in Nat : m = NewBatch
    BY <1>2, <1>3
  <2>2. PICK u : u = [t EXCEPT !.phase = "done", !.batch = m]
    OBVIOUS
  <2>3. u \in TxRecord
    BY <1>1, <2>2 DEF TxRecord
  <2>4. haTxs' \subseteq TxRecord /\ IsFiniteSet(haTxs')
    BY <2>2, <2>3, <2>9, TxReplaced
  <2>5. \A b \in 1 .. k + 1 :
           /\ haBatches'[b] \in BatchRecord
           /\ haBatches'[b].start + haBatches'[b].good - 1 <= HaTop
    BY <1>1, <1>2, <1>4 DEF ArchiveInv, ArchiveTypes, BatchRecord
  <2> QED
    BY <1>2, <1>4, <2>1, <2>4, <2>5 DEF ArchiveInv, ArchiveTypes
<1>10. InsertedApart'
  <2>1. PICK u : u = [t EXCEPT !.phase = "done", !.batch = NewBatch]
    OBVIOUS
  <2>2. u.phase = "done"
    BY <1>1, <2>1 DEF TxRecord
  <2>3. \A v \in haTxs' : v.phase = "inserted" => v \in haTxs \ {t}
    BY <2>1, <2>2
  <2> QED
    BY <1>8, <2>3 DEF ArchiveInv, InsertedApart, TxIds
<1>11. BatchesWhole'
  <2>1. \A b \in 1 .. k + 1 :
          RowsOfBatch(b)' = IF b = k + 1 THEN RowsBy(start, good, t.n) ELSE RowsOfBatch(b)
    BY <1>2, <1>6, <1>7
  <2>2. \A b \in 1 .. k + 1 :
           \E m : RowsOfBatch(b)' = RowsBy(haBatches'[b].start, haBatches'[b].good, m)
    BY <1>2, <1>4, <1>6, <1>7 DEF ArchiveInv, BatchesWhole
  <2>3. haRows = UNION {RowsOfBatch(b) : b \in 1 .. k}
    BY <1>2 DEF ArchiveInv, BatchesWhole
  <2>4. ASSUME NEW r
        PROVE  r \in haRows' <=> \E b \in 1 .. k + 1 : r \in RowsOfBatch(b)'
    <3>1. r \in haRows' <=> (r \in haRows \/ r \in RowsBy(start, good, t.n))
      OBVIOUS
    <3>2. r \in haRows <=> \E b \in 1 .. k : r \in RowsOfBatch(b)
      BY <2>3
    <3>3. 1 .. k + 1 = (1 .. k) \cup {k + 1} /\ k + 1 \notin 1 .. k
      BY <1>2
    <3> QED
      BY <2>1, <3>1, <3>2, <3>3
  <2>5. haRows' = UNION {RowsOfBatch(b)' : b \in 1 .. k + 1}
    BY <2>4
  <2> QED
    BY <1>4, <2>2, <2>5 DEF BatchesWhole
<1> QED
  BY <1>9, <1>10, <1>11 DEF ArchiveInv

\* The statements of a commit, each seen by the others only when it is committed.
LEMMA KeepServer ==
  ASSUME ArchiveInv, BelowTop', HaServer
  PROVE  ArchiveInv'
<1>0. UNCHANGED haForm /\ haTxs \subseteq TxRecord
  BY DEF HaServer, ArchiveInv, ArchiveTypes
<1>1. ASSUME NEW t \in haTxs, NEW phase \in {"allocated", "inserted", "failed"}, NEW start \in Nat,
             HaStep(t, phase, start), UNCHANGED <<haRows, haBatches>>,
             phase = "inserted" =>
               /\ TxIds(t) \cap HaIds = {} /\ start = t.start
               /\ \A v \in haTxs \ {t} : v.phase = "inserted" => TxIds(v) \cap TxIds(t) = {}
      PROVE  ArchiveInv'
  <2>1. PICK u : u = [t EXCEPT !.phase = phase, !.start = start]
    OBVIOUS
  <2>2. u \in TxRecord /\ u.phase = phase /\ u.start = start /\ u.file = t.file
    BY <1>0, <2>1 DEF TxRecord
  <2>3. haTxs' = (haTxs \ {t}) \cup {u}
    BY <1>1, <2>1 DEF HaStep
  <2>4. start = t.start => TxIds(u) = TxIds(t)
    BY <2>2 DEF TxIds
  <2> QED
    BY <1>0, <1>1, <2>2, <2>3, <2>4, KeepTx
<1>2. ASSUME NEW t \in haTxs, HaAllocate(t) PROVE ArchiveInv'
  BY <1>1, <1>2, StartType DEF HaAllocate
<1>3. ASSUME NEW t \in haTxs, HaInsert(t) PROVE ArchiveInv'
  <2>1. t.start \in Nat
    BY <1>0 DEF TxRecord
  <2> QED
    BY <1>1, <1>3, <2>1 DEF HaInsert
<1>4. ASSUME NEW t \in haTxs, HaFail(t) PROVE ArchiveInv'
  <2>1. t.start \in Nat
    BY <1>0 DEF TxRecord
  <2> QED
    BY <1>1, <1>4, <2>1 DEF HaFail, RolledBack
<1>5. ASSUME NEW t \in haTxs, HaCommitTx(t) PROVE ArchiveInv'
  <2>1. t.start \in Nat /\ t.file.good \in Nat
    BY <1>0 DEF TxRecord, ArchiveFiles
  <2>2. t.start + t.file.good - 1 <= HaTop
    <3>1. PICK u : u = [t EXCEPT !.phase = "done", !.batch = NewBatch]
      OBVIOUS
    <3>2. u \in haTxs' /\ u.phase = "done" /\ u.start = t.start /\ u.file = t.file
      BY <1>0, <1>5, <3>1 DEF HaCommitTx, TxRecord
    <3> QED
      BY <3>2 DEF BelowTop
  <2>3. TxIds(t) = t.start .. t.start + t.file.good - 1
    BY <2>1, <2>2, PlainRange DEF TxIds
  <2>4. haRows' = haRows \cup RowsBy(t.start, t.file.good, t.n)
    BY <1>5, <2>3 DEF HaCommitTx, RowsBy
  <2>5. /\ TxIds(t) \cap HaIds = {}
        /\ \A u \in haTxs \ {t} : u.phase = "inserted" => TxIds(u) \cap TxIds(t) = {}
    BY <1>5 DEF HaCommitTx, ArchiveInv, InsertedApart
  <2>6. /\ Recorded(t.start, t.file)
        /\ haTxs' = (haTxs \ {t}) \cup {[t EXCEPT !.phase = "done", !.batch = NewBatch]}
    BY <1>5 DEF HaCommitTx
  <2> QED
    BY <1>0, <2>1, <2>2, <2>3, <2>4, <2>5, <2>6, KeepRecorded
<1>6. ASSUME NEW t \in haTxs, HaRecordEmpty(t) PROVE ArchiveInv'
  <2>1. t.file.good = 0 /\ 0 \in Nat /\ 0 + t.file.good - 1 <= HaTop
        /\ 0 .. 0 + t.file.good - 1 = {}
    BY <1>6, HaAssumption DEF HaRecordEmpty
  <2>2. haRows' = haRows \cup RowsBy(0, t.file.good, t.n)
    BY <1>6, <2>1 DEF HaRecordEmpty, RowsBy
  <2>3. /\ Recorded(0, t.file)
        /\ haTxs' = (haTxs \ {t}) \cup {[t EXCEPT !.phase = "done", !.batch = NewBatch]}
    BY <1>6 DEF HaRecordEmpty
  <2> QED
    BY <1>0, <2>1, <2>2, <2>3, KeepRecorded
<1>7. ASSUME NEW file \in HaFiles, HaOthersCommit(file) PROVE ArchiveInv'
  <2>1. file \in ArchiveFiles
    BY HaAssumption DEF ArchiveFiles
  <2>2. DOMAIN haForm' = HaFormFields /\ haForm'.file \in ArchiveFiles
    BY <1>0 DEF ArchiveInv, ArchiveTypes
  <2> QED
    BY <1>7, <2>1, <2>2, KeepBegin DEF HaOthersCommit
<1> QED
  BY <1>2, <1>3, <1>4, <1>5, <1>6, <1>7 DEF HaServer

\* Steps of the page that send no commit.
LEMMA KeepPage ==
  ASSUME ArchiveInv, UNCHANGED haDb, DOMAIN haForm' = HaFormFields, haForm'.file \in ArchiveFiles
  PROVE  ArchiveInv'
<1>1. HaIds' = HaIds /\ \A b : RowsOfBatch(b)' = RowsOfBatch(b)
  BY DEF haDb, HaIds, RowsOfBatch
<1>2. ArchiveTypes'
  BY <1>1 DEF haDb, ArchiveInv, ArchiveTypes
<1>3. InsertedApart'
  BY <1>1 DEF haDb, ArchiveInv, InsertedApart, TxIds
<1>4. BatchesWhole'
  BY <1>1 DEF haDb, ArchiveInv, BatchesWhole
<1> QED
  BY <1>2, <1>3, <1>4 DEF ArchiveInv

\* What the import page does without a commit: lists, uploads, mappings and answers.
LEMMA KeepArchiveForm ==
  ASSUME ArchiveInv,
         \/ HaRefresh \/ StartNewUpload \/ BackToList \/ MapColumn
         \/ \E list \in haForm.loads : BatchesListed(list)
         \/ \E file \in HaFiles : HaUpload(file)
         \/ \E t \in haTxs : CommitAnswered(t)
  PROVE  ArchiveInv'
<1>0. /\ DOMAIN haForm = HaFormFields /\ haForm.file \in ArchiveFiles
      /\ NoFile \in ArchiveFiles /\ HaFiles \subseteq ArchiveFiles
  BY HaAssumption DEF ArchiveInv, ArchiveTypes, ArchiveFiles, NoFile
<1>1. ASSUME NEW form, HaMove(form), DOMAIN form = HaFormFields, form.file \in ArchiveFiles
      PROVE  ArchiveInv'
  BY <1>1, KeepPage DEF HaMove
<1> USE <1>0 DEF HaFormFields, Loading, Emptied
<1>2. CASE HaRefresh
  BY <1>1, <1>2 DEF HaRefresh
<1>3. CASE StartNewUpload
  BY <1>1, <1>3 DEF StartNewUpload
<1>4. CASE BackToList
  BY <1>1, <1>4 DEF BackToList
<1>5. CASE MapColumn
  BY <1>1, <1>5 DEF MapColumn
<1>6. ASSUME NEW list \in haForm.loads, BatchesListed(list) PROVE ArchiveInv'
  BY <1>1, <1>6 DEF BatchesListed
<1>7. ASSUME NEW file \in HaFiles, HaUpload(file) PROVE ArchiveInv'
  BY <1>1, <1>7 DEF HaUpload
<1>8. ASSUME NEW t \in haTxs, CommitAnswered(t) PROVE ArchiveInv'
  BY <1>1, <1>8 DEF CommitAnswered
<1> QED
  BY <1>2, <1>3, <1>4, <1>5, <1>6, <1>7, <1>8

\* The Import button starts one commit, of the batch that the page shows.
LEMMA KeepOnCommit == ASSUME ArchiveInv, OnCommit PROVE ArchiveInv'
<1>0. DOMAIN haForm = HaFormFields /\ haForm.file \in ArchiveFiles
  BY DEF ArchiveInv, ArchiveTypes
<1>1. DOMAIN haForm' = HaFormFields /\ haForm'.file = haForm.file
  BY <1>0 DEF OnCommit, Loading, HaFormFields
<1>2. CASE haForm.file = NoFile
  BY <1>0, <1>1, <1>2, KeepPage DEF OnCommit, haDb
<1>3. CASE haForm.file # NoFile
  BY <1>0, <1>1, <1>3, KeepBegin DEF OnCommit
<1> QED
  BY <1>2, <1>3

\* No batch and no row at the start.
LEMMA ArchiveStart == HaInit => ArchiveInv
<1> SUFFICES ASSUME HaInit PROVE ArchiveInv
  OBVIOUS
<1>1. haRows = {} /\ haBatches = << >> /\ haTxs = {} /\ HaIds = {}
  BY DEF HaInit, HaIds
<1>2. DOMAIN haBatches = 1 .. 0 /\ 1 .. 0 = {}
  BY <1>1
<1>3. DOMAIN haForm = HaFormFields /\ haForm.file \in ArchiveFiles
  BY DEF HaInit, HaFormFields, ArchiveFiles, NoFile
<1> QED
  BY <1>1, <1>2, <1>3, FS_EmptySet DEF ArchiveInv, ArchiveTypes, InsertedApart, BatchesWhole

\* Each step below the largest id.
LEMMA ArchiveStep == ArchiveInv /\ BelowTop' /\ [HaNext]_haVars => ArchiveInv'
<1> SUFFICES ASSUME ArchiveInv, BelowTop', [HaNext]_haVars PROVE ArchiveInv'
  OBVIOUS
<1>1. ASSUME UNCHANGED <<haDb, haForm>> PROVE ArchiveInv'
  BY <1>1, KeepPage DEF ArchiveInv, ArchiveTypes
<1>2. CASE CloseBatch
  BY <1>1, <1>2 DEF CloseBatch
<1>3. ASSUME NEW b \in DOMAIN haBatches, SelectBatch(b) PROVE ArchiveInv'
  BY <1>1, <1>3 DEF SelectBatch
<1>4. ASSUME NEW tab \in {"jobs", "errors"}, SetTab(tab) PROVE ArchiveInv'
  BY <1>1, <1>4 DEF SetTab
<1>5. ASSUME NEW from, PageJobs(from) PROVE ArchiveInv'
  BY <1>1, <1>5 DEF PageJobs
<1>6. ASSUME NEW c \in haCalls, DrillAnswered(c) PROVE ArchiveInv'
  BY <1>1, <1>6 DEF DrillAnswered
<1>7. CASE UNCHANGED haVars
  BY <1>1, <1>7 DEF haVars
<1> QED
  BY <1>2, <1>3, <1>4, <1>5, <1>6, <1>7, KeepServer, KeepArchiveForm, KeepOnCommit DEF HaNext

\* As long as no id range reaches the last 32-bit id, and however many imports run at once, clash,
\* fail half way or lose their replies: a batch's range of ids holds the rows of one import, as many
\* as its audit row says, and every row is in a range.
THEOREM BatchesWholeBelowTop == HaSpec /\ []BelowTop => []BatchHoldsItsRows
<1>1. ASSUME ArchiveInv PROVE BatchHoldsItsRows
  <2>1. ASSUME NEW b \in DOMAIN haBatches
        PROVE  /\ Cardinality(RowsOfBatch(b)) = haBatches[b].good
               /\ \A r, s \in RowsOfBatch(b) : r.by = s.by
    <3>1. PICK k : RowsOfBatch(b) = RowsBy(haBatches[b].start, haBatches[b].good, k)
      BY <1>1 DEF ArchiveInv, BatchesWhole
    <3>2. haBatches[b].start \in Nat /\ haBatches[b].good \in Nat
      BY <1>1 DEF ArchiveInv, ArchiveTypes, BatchRecord
    <3>3. \A r \in RowsOfBatch(b) : r.by = k
      BY <3>1 DEF RowsBy
    <3> QED
      BY <3>1, <3>2, <3>3, RowsByCount
  <2> QED
    BY <1>1, <2>1 DEF BatchHoldsItsRows, ArchiveInv, BatchesWhole
<1> QED
  BY <1>1, ArchiveStart, ArchiveStep, PTL DEF HaSpec

-------------------------------------------------------------------------------
(* The bulk import wizard                                                  *)

EarlySteps == {"newImport", "mapColumns", "fixZips", "fixAddresses"}

ImportSteps == {"schedulePicker", "truckPreview", "rateByDistance"}

WizTypes ==
  /\ opened \in BOOLEAN
  /\ wiz \in WizState
  /\ tally \in [imported : Nat, failed : Nat, rows : SUBSET Rows]
  /\ request \in [pass : {"preview", "first", "km"}, seen : WizState] \cup {NoCall}
  /\ landed \in [Rows -> [BookDates -> Nat]]

\* A closed wizard keeps nothing, and has no call under way.
ClosedIsFresh == ~opened => request = NoCall /\ wiz = Fresh /\ tally = NoResults

\* Once the buckets are made, the rows stay in them; before, nothing was sent.
Bucketed ==
  IF wiz.step \in EarlySteps THEN wiz.completed = {}
  ELSE \A d \in Depots : wiz.depots[d] = {r \in Rows : wiz.group[r] = d}

\* The cursor is on a ticked depot, and the ticked ones before it are done.
CursorFits ==
  /\ wiz.step \in ImportSteps => wiz.cursor \in Included(wiz) \ wiz.completed
  /\ wiz.step = "kmRatedReview" => wiz.cursor \in Included(wiz) \cap wiz.completed
  /\ wiz.step \in ImportSteps \cup {"kmRatedReview"} =>
       \A d \in Included(wiz) : d < wiz.cursor => d \in wiz.completed
  /\ wiz.step \in {"bookPickup", "summary"} => Included(wiz) \subseteq wiz.completed

\* What landed is of a depot that is done; no row under review landed.
LandedDone ==
  opened =>
    /\ \A r \in Rows : IsIn(r) => wiz.group[r] \in wiz.completed
    /\ wiz.step = "kmRatedReview" => \A r \in wiz.km : wiz.group[r] = wiz.cursor /\ ~IsIn(r)

\* A row of a depot that is done landed, is listed as failed, or is under review.
Accounted ==
  opened =>
    /\ wiz.failed = tally.rows
    /\ wiz.completed = {} => tally.rows = {}
    /\ \A r \in Rows : wiz.group[r] \in wiz.completed =>
         IsIn(r) \/ r \in wiz.failed \/ (wiz.step = "kmRatedReview" /\ r \in wiz.km)

\* The rows unticked in the review that the call under way answers.
LeftOut == IF request # NoCall /\ request.pass = "km" THEN request.seen.km \ request.seen.kmSelected
           ELSE {}

\* The closure of a call is the state on the screen, but for the failed rows: those left out of
\* the review are not in it.
ClosureIsCurrent ==
  request # NoCall =>
    /\ opened
    /\ wiz = [request.seen EXCEPT !.failed = wiz.failed]
    /\ wiz.failed \subseteq request.seen.failed \cup LeftOut
    /\ request.pass = "km" => /\ wiz.step = "kmRatedReview"
                              /\ wiz.km \ wiz.kmSelected \subseteq wiz.failed
    /\ request.pass # "km" => wiz.step \in ImportSteps

WizInv ==
  /\ WizTypes /\ ClosedIsFresh /\ Bucketed /\ CursorFits /\ LandedDone /\ Accounted
  /\ ClosureIsCurrent /\ wiz.kmSelected \subseteq wiz.km /\ NoRowTwice /\ TallyIsWhatLanded

\* The rows of ticked depots that are not on the server after the step.
Remaining == {r \in UNION {wiz.depots[d] : d \in Included(wiz)} : ~IsIn(r)'}

\* The step lists them on the summary; if it closes the wizard, the review left them out.
Told ==
  /\ At("summary")' => Remaining \subseteq wiz'.failed
  /\ opened /\ ~opened' => Remaining \subseteq LeftOut

-------------------------------------------------------------------------------
\* The least of a set of depots.
LEMMA LeastDepot ==
  ASSUME NEW S \in SUBSET Depots, S # {}
  PROVE  Min(S) \in S /\ \A y \in S : Min(S) <= y
<1> DEFINE N == {0 - y : y \in S}
<1>0. \A y \in S : y \in Int
  BY DepotsAssumption
<1>1. IsFiniteSet(S)
  BY DepotsAssumption, FS_Subset, Zenon
<1>2. IsFiniteSet(N)
  <2> DEFINE f == [y \in S |-> 0 - y]
  <2>1. f \in Surjection(S, N)
    BY DEF Surjection
  <2> HIDE DEF N, f
  <2> QED
    BY <1>1, <2>1, FS_Surjection
<1>3. N \in SUBSET Int /\ N # {}
  BY <1>0
<1> HIDE DEF N
<1>4. Max(N) \in N /\ \A y \in N : Max(N) >= y
  BY <1>2, <1>3, FiniteMax
<1>5. PICK m \in S : Max(N) = 0 - m
  BY <1>4 DEF N
<1>6. \A y \in S : m <= y
  <2> TAKE y \in S
  <2>1. 0 - y \in N
    BY DEF N
  <2> QED
    BY <1>0, <1>4, <1>5, <2>1
<1> QED
  BY <1>0, <1>6 DEF Min

\* nextPendingDepot returns the least included depot after d that is not completed.
LEMMA PendingDepot ==
  ASSUME NEW s \in WizState, NEW d \in Depots \cup {0}, NextPending(s, d) # NoDepot
  PROVE  /\ NextPending(s, d) \in Included(s) \ s.completed /\ NextPending(s, d) > d
         /\ \A x \in Included(s) \ s.completed : x > d => NextPending(s, d) <= x
<1> DEFINE P == {x \in Included(s) \ s.completed : x > d}
<1>1. P \in SUBSET Depots
  BY DEF Included
<1>2. P # {} /\ NextPending(s, d) = Min(P)
  BY DEF NextPending
<1> HIDE DEF P
<1>3. Min(P) \in P /\ \A y \in P : Min(P) <= y
  BY <1>1, <1>2, LeastDepot
<1> QED
  BY <1>2, <1>3 DEF P

\* If it returns none, every included depot after d is completed.
LEMMA NoDepotPending ==
  ASSUME NEW s \in WizState, NEW d \in Depots \cup {0}, NextPending(s, d) = NoDepot
  PROVE  \A x \in Included(s) : x > d => x \in s.completed
<1> DEFINE P == {x \in Included(s) \ s.completed : x > d}
<1>1. P \in SUBSET Depots
  BY DEF Included
<1>2. CASE P # {}
  <2>1. Min(P) \in P
    <3> HIDE DEF P
    <3> QED
      BY <1>1, <1>2, LeastDepot
  <2>2. NextPending(s, d) = Min(P)
    BY <1>2 DEF NextPending
  <2> QED
    BY <2>1, <2>2, <1>1, DepotsAssumption DEF NoDepot
<1> QED
  BY <1>2

-------------------------------------------------------------------------------
(* What the reducer's cases change                                         *)

\* goTo changes the step only.
LEMMA GotoState ==
  ASSUME NEW s \in WizState, NEW step \in Steps
  PROVE  /\ Goto(s, step) \in WizState /\ Goto(s, step).step = step
         /\ Goto(s, step).group = s.group /\ Goto(s, step).depots = s.depots
         /\ Goto(s, step).selected = s.selected /\ Goto(s, step).cursor = s.cursor
         /\ Goto(s, step).completed = s.completed /\ Goto(s, step).km = s.km
         /\ Goto(s, step).kmSelected = s.kmSelected /\ Goto(s, step).failed = s.failed
BY DEF Goto, WizState

\* Entering a depot sets the cursor and what belongs to the depot on screen, and nothing else.
LEMMA AtDepotState ==
  ASSUME NEW s \in WizState, NEW d \in Depots \cup {NoDepot}
  PROVE  LET u == AtDepot(s, d)
         IN  /\ u \in WizState /\ u.cursor = d /\ u.step = s.step
             /\ u.group = s.group /\ u.depots = s.depots /\ u.selected = s.selected
             /\ u.completed = s.completed /\ u.km = s.km /\ u.kmSelected = s.kmSelected
             /\ u.failed = s.failed
BY DEF AtDepot, WizState

\* Seeding files each row under the depot it is matched to.
LEMMA SeededState ==
  ASSUME NEW s \in WizState
  PROVE  LET u == Seeded(s)
         IN  /\ u \in WizState /\ u.step = s.step /\ u.group = s.group
             /\ \A d \in Depots : u.depots[d] = {r \in Rows : s.group[r] = d}
             /\ u.completed = s.completed /\ u.km = s.km /\ u.kmSelected = s.kmSelected
             /\ u.failed = s.failed
BY DEF Seeded, SeedSelection, WizState

\* The km-rated review lists the rows returned, all of them ticked.
LEMMA KmRatedState ==
  ASSUME NEW s \in WizState, NEW rows \in SUBSET Rows
  PROVE  LET u == KmRated(s, rows)
         IN  /\ u \in WizState /\ u.km = rows /\ u.kmSelected = rows /\ u.step = s.step
             /\ u.cursor = s.cursor /\ u.group = s.group /\ u.depots = s.depots
             /\ u.selected = s.selected /\ u.completed = s.completed /\ u.failed = s.failed
BY DEF KmRated, WizState

\* A wizard that has just opened is a wizard.
LEMMA FreshState == Fresh \in WizState
BY RowsAssumption, DepotsAssumption DEF Fresh, WizState, Steps, Unmatched, NoDepot
-------------------------------------------------------------------------------
(* The table of what landed                                                *)

LandedTables == [Rows -> [BookDates -> Nat]]

InOf(tab) == {r \in Rows : \E d \in BookDates : tab[r][d] > 0}

TakenOf(tab) == UNION {{<<r, d, n>> : n \in 1 .. tab[r][d]} : r \in Rows, d \in BookDates}

OnceIn(tab) ==
  \A r \in Rows : \A d, e \in BookDates : tab[r][d] > 0 /\ tab[r][e] > 0 => d = e /\ tab[r][d] = 1

\* When no row is there twice, the copies are as many as the rows.
LEMMA TakenCount ==
  ASSUME NEW tab \in LandedTables, OnceIn(tab)
  PROVE  IsFiniteSet(InOf(tab)) /\ Cardinality(TakenOf(tab)) = Cardinality(InOf(tab))
<1> DEFINE date(r) == CHOOSE d \in BookDates : tab[r][d] > 0
           f == [r \in InOf(tab) |-> <<r, date(r), 1>>]
<1>1. IsFiniteSet(InOf(tab))
  <2>1. InOf(tab) \in SUBSET Rows
    BY DEF InOf
  <2> QED
    BY <2>1, RowsAssumption, FS_Subset, Zenon
<1>2. \A r \in InOf(tab) : r \in Rows /\ date(r) \in BookDates /\ tab[r][date(r)] = 1
  BY DEF InOf, OnceIn
<1>3. ASSUME NEW t \in TakenOf(tab)
      PROVE  \E r \in InOf(tab) : t = <<r, date(r), 1>>
  <2>1. PICK r \in Rows, d \in BookDates : \E n \in 1 .. tab[r][d] : t = <<r, d, n>>
    BY DEF TakenOf
  <2>2. PICK n \in 1 .. tab[r][d] : t = <<r, d, n>>
    BY <2>1
  <2>3. tab[r][d] \in Nat
    BY DEF LandedTables
  <2>4. tab[r][d] > 0
    BY <2>2, <2>3
  <2>5. r \in InOf(tab)
    BY <2>4 DEF InOf
  <2>6. tab[r][d] = 1 /\ d = date(r)
    BY <1>2, <2>4, <2>5 DEF OnceIn
  <2>7. n = 1
    BY <2>2, <2>6
  <2> QED
    BY <2>2, <2>5, <2>6, <2>7
<1>4. ASSUME NEW r \in InOf(tab)
      PROVE  <<r, date(r), 1>> \in TakenOf(tab)
  <2>1. PICK d : d = date(r)
    OBVIOUS
  <2>2. r \in Rows /\ d \in BookDates /\ tab[r][d] = 1
    BY <1>2, <2>1
  <2>3. 1 \in 1 .. tab[r][d]
    BY <2>2
  <2>4. <<r, d, 1>> \in TakenOf(tab)
    <3> DEFINE All == {{<<x, y, n>> : n \in 1 .. tab[x][y]} : x \in Rows, y \in BookDates}
               X == {<<r, d, n>> : n \in 1 .. tab[r][d]}
    <3>1. <<r, d, 1>> \in X
      BY <2>3
    <3>2. X \in All
      BY <2>2
    <3>3. TakenOf(tab) = UNION All
      BY DEF TakenOf
    <3> HIDE DEF X, All
    <3> QED
      BY <3>1, <3>2, <3>3
  <2> QED
    BY <2>1, <2>4
<1>5. f \in Bijection(InOf(tab), TakenOf(tab))
  <2>1. f \in [InOf(tab) -> TakenOf(tab)]
    BY <1>4
  <2>2. \A a, b \in InOf(tab) : f[a] = f[b] => a = b
    OBVIOUS
  <2>3. \A t \in TakenOf(tab) : \E r \in InOf(tab) : f[r] = t
    BY <1>3
  <2> HIDE DEF f, date
  <2>4. f \in Injection(InOf(tab), TakenOf(tab))
    BY <2>1, <2>2 DEF Injection, IsInjective
  <2>5. f \in Surjection(InOf(tab), TakenOf(tab))
    BY <2>1, <2>3 DEF Surjection
  <2> QED
    BY <2>4, <2>5 DEF Bijection
<1> HIDE DEF f
<1> QED
  BY <1>1, <1>5, FS_Bijection DEF ExistsBijection

\* A call puts rows there that were not.
LEMMA LandRows ==
  ASSUME landed \in LandedTables, OnceIn(landed), NEW P \in SUBSET Rows, NEW date \in BookDates,
         \A r \in P : ~IsIn(r), Land(P, date)
  PROVE  /\ landed' \in LandedTables /\ NoRowTwice' /\ \A r \in Rows : IsIn(r)' <=> IsIn(r) \/ r \in P
         /\ Cardinality(Taken') = Cardinality(Taken) + Cardinality(P)
<1>1. \A r \in Rows : landed[r] \in [BookDates -> Nat]
  BY DEF LandedTables
<1>2. \A r \in Rows : landed'[r] = IF r \in P THEN [landed[r] EXCEPT ![date] = @ + 1] ELSE landed[r]
  BY DEF Land
<1>3. landed' \in LandedTables
  <2>1. ASSUME NEW r \in Rows
        PROVE  [landed[r] EXCEPT ![date] = @ + 1] \in [BookDates -> Nat]
    BY <1>1
  <2>2. landed' = [r \in Rows |-> IF r \in P THEN [landed[r] EXCEPT ![date] = @ + 1] ELSE landed[r]]
    BY DEF Land
  <2> QED
    BY <1>1, <2>1, <2>2 DEF LandedTables
<1>4. \A r \in P : \A d \in BookDates : landed[r][d] = 0
  BY <1>1 DEF IsIn
<1>5. ASSUME NEW r \in P
      PROVE  \A d \in BookDates : landed'[r][d] = IF d = date THEN 1 ELSE 0
  <2>1. landed'[r] = [landed[r] EXCEPT ![date] = @ + 1]
    BY <1>2
  <2>2. landed[r] \in [BookDates -> Nat] /\ landed[r][date] = 0
    BY <1>1, <1>4
  <2>3. landed'[r] = [landed[r] EXCEPT ![date] = 1]
    BY <2>1, <2>2
  <2> QED
    BY <1>4, <2>2, <2>3
<1>6. \A r \in Rows \ P : landed'[r] = landed[r]
  BY <1>2
<1>7. OnceIn(landed')
  BY <1>5, <1>6 DEF OnceIn
<1>8. \A r \in Rows : IsIn(r)' <=> IsIn(r) \/ r \in P
  BY <1>5, <1>6 DEF IsIn
<1>9. InOf(landed') = InOf(landed) \cup P /\ InOf(landed) \cap P = {}
  BY <1>8 DEF InOf, IsIn
<1>10. IsFiniteSet(P) /\ IsFiniteSet(InOf(landed)) /\ IsFiniteSet({})
  BY RowsAssumption, FS_Subset, TakenCount, FS_EmptySet
<1>11. Cardinality(InOf(landed')) = Cardinality(InOf(landed)) + Cardinality(P)
  <2>1. Cardinality(InOf(landed) \cup P)
          = Cardinality(InOf(landed)) + Cardinality(P) - Cardinality(InOf(landed) \cap P)
    BY <1>10, FS_Union, Zenon
  <2>2. Cardinality(InOf(landed) \cap P) = 0
    BY <1>9, FS_EmptySet, Zenon
  <2>3. Cardinality(InOf(landed)) \in Nat /\ Cardinality(P) \in Nat
    BY <1>10, FS_CardinalityType, Zenon
  <2> QED
    BY <1>9, <2>1, <2>2, <2>3
<1>12. Taken = TakenOf(landed) /\ Taken' = TakenOf(landed')
  BY DEF Taken, TakenOf
<1>13. NoRowTwice'
  BY <1>7 DEF NoRowTwice, OnceIn
<1> QED
  BY <1>3, <1>7, <1>8, <1>11, <1>12, <1>13, TakenCount
-------------------------------------------------------------------------------
(* Steps of the operator                                                   *)

\* What is there only before the buckets are made: nothing sent, nothing landed.
LEMMA NothingYet ==
  ASSUME WizInv, opened, wiz.completed = {}
  PROVE  wiz.failed = {} /\ tally.rows = {} /\ \A r \in Rows : ~IsIn(r)
BY DEF WizInv, LandedDone, Accounted

\* A step that writes nothing to the server changes nothing that is counted there.
LEMMA SameTable ==
  ASSUME WizInv, UNCHANGED landed
  PROVE  /\ \A r \in Rows : IsIn(r)' = IsIn(r)
         /\ NoRowTwice' /\ Taken' = Taken
BY DEF WizInv, IsIn, NoRowTwice, Taken

\* A step before anything was sent.
LEMMA MovedEarly ==
  ASSUME WizInv, opened, wiz.completed = {}, request = NoCall, NEW s \in WizState, Move(s),
         s.completed = {}, s.failed = {}, s.step \in EarlySteps, s.kmSelected \subseteq s.km
  PROVE  WizInv'
<1>1. wiz' = s /\ UNCHANGED <<opened, tally, request, landed>>
  BY DEF Move
<1>2. /\ s.step \notin ImportSteps /\ s.step # "kmRatedReview"
      /\ s.step \notin {"bookPickup", "summary"}
  BY DEF EarlySteps, ImportSteps
<1>3. WizTypes' /\ ClosedIsFresh' /\ ClosureIsCurrent'
  BY <1>1 DEF WizInv, WizTypes, ClosedIsFresh, ClosureIsCurrent
<1>4. Bucketed' /\ CursorFits'
  BY <1>1, <1>2 DEF Bucketed, CursorFits
<1>5. LandedDone' /\ Accounted'
  BY <1>1, <1>2, NothingYet, SameTable DEF LandedDone, Accounted
<1> QED
  BY <1>1, <1>3, <1>4, <1>5, SameTable DEF WizInv, TallyIsWhatLanded

\* A step that sends nothing and puts no row elsewhere.
LEMMA Moved ==
  ASSUME WizInv, opened, request = NoCall, NEW s \in WizState, Move(s),
         s.group = wiz.group, s.completed = wiz.completed, s.failed = wiz.failed,
         s.kmSelected \subseteq s.km,
         s.step = "kmRatedReview" <=> wiz.step = "kmRatedReview",
         s.step = "kmRatedReview" => s.km = wiz.km /\ s.cursor = wiz.cursor,
         Bucketed', CursorFits'
  PROVE  WizInv'
<1>1. wiz' = s /\ UNCHANGED <<opened, tally, request, landed>>
  BY DEF Move
<1>2. WizTypes' /\ ClosedIsFresh' /\ ClosureIsCurrent'
  BY <1>1 DEF WizInv, WizTypes, ClosedIsFresh, ClosureIsCurrent
<1>3. \A r \in Rows : IsIn(r)' = IsIn(r)
  BY <1>1, SameTable
<1>4. wiz.step = "kmRatedReview" => wiz'.step = "kmRatedReview" /\ wiz'.km = wiz.km
  BY <1>1
<1>5. LandedDone'
  <2>1. wiz'.step = "kmRatedReview" =>
          wiz.step = "kmRatedReview" /\ wiz'.km = wiz.km /\ wiz'.cursor = wiz.cursor
    BY <1>1
  <2>2. \A r \in Rows : IsIn(r)' => wiz'.group[r] \in wiz'.completed
    BY <1>1, <1>3 DEF WizInv, LandedDone
  <2>3. wiz'.step = "kmRatedReview" =>
          \A r \in wiz'.km : r \in Rows /\ wiz'.group[r] = wiz'.cursor /\ ~IsIn(r)
    BY <1>1, <2>1 DEF WizInv, WizTypes, WizState, LandedDone
  <2> QED
    BY <1>3, <2>2, <2>3 DEF LandedDone
<1>6. Accounted'
  BY <1>1, <1>3, <1>4 DEF WizInv, Accounted
<1> QED
  BY <1>1, <1>2, <1>5, <1>6, SameTable DEF WizInv, TallyIsWhatLanded

\* A call is under way on the steps that make one only.
LEMMA IdleElsewhere ==
  ASSUME WizInv, wiz.step \notin ImportSteps, wiz.step # "kmRatedReview"
  PROVE  request = NoCall
BY DEF WizInv, ClosureIsCurrent

\* The wizard opens blank.
LEMMA OpenKeeps == ASSUME WizInv, OpenWizard PROVE WizInv'
<1>1. ~opened /\ opened' = TRUE /\ UNCHANGED <<wiz, tally, request>>
  BY DEF OpenWizard
<1>2. wiz = Fresh /\ tally = NoResults /\ request = NoCall
  BY <1>1 DEF WizInv, ClosedIsFresh
<1>3. landed' = [r \in Rows |-> [d \in BookDates |-> 0]]
  BY DEF OpenWizard
<1>4. /\ landed' \in [Rows -> [BookDates -> Nat]]
      /\ \A r \in Rows : \A d \in BookDates : landed'[r][d] = 0
  BY <1>3
<1>5. Taken' = {}
  BY <1>4 DEF Taken
<1>6. Cardinality(Taken') = 0
  BY <1>5, FS_EmptySet
<1>7. \A r \in Rows : ~IsIn(r)'
  BY <1>4 DEF IsIn
<1>8. wiz.step = "newImport" /\ wiz.completed = {} /\ wiz.failed = {}
  BY <1>2 DEF Fresh
<1>9. WizTypes' /\ ClosedIsFresh' /\ Bucketed' /\ CursorFits' /\ ClosureIsCurrent'
  BY <1>1, <1>2, <1>4, <1>8
     DEF WizInv, WizTypes, ClosedIsFresh, Bucketed, CursorFits, Included, ClosureIsCurrent
<1>10. LandedDone' /\ Accounted' /\ NoRowTwice'
  BY <1>1, <1>2, <1>4, <1>7, <1>8 DEF LandedDone, Accounted, NoRowTwice, NoResults
<1>11. TallyIsWhatLanded'
  BY <1>1, <1>2, <1>6 DEF TallyIsWhatLanded, NoResults
<1> QED
  BY <1>1, <1>9, <1>10, <1>11 DEF WizInv

\* The wizard shuts with no call under way: nothing of it is left.
LEMMA ShutKeeps ==
  ASSUME WizTypes, landed' \in LandedTables, NoRowTwice', opened' = FALSE, wiz' = Fresh,
         tally' = NoResults, request' = NoCall
  PROVE  WizInv'
<1>1. Fresh.step = "newImport" /\ Fresh.completed = {} /\ Fresh.kmSelected = Fresh.km
  BY DEF Fresh
<1>2. /\ Fresh.step \notin ImportSteps /\ Fresh.step # "kmRatedReview"
      /\ Fresh.step \notin {"bookPickup", "summary"}
  BY <1>1 DEF ImportSteps
<1>3. NoResults \in [imported : Nat, failed : Nat, rows : SUBSET Rows]
  BY DEF NoResults
<1>4. WizTypes'
  BY <1>3, FreshState DEF WizTypes, LandedTables
<1>5. ClosedIsFresh' /\ ClosureIsCurrent' /\ LandedDone' /\ Accounted' /\ TallyIsWhatLanded'
  BY DEF ClosedIsFresh, ClosureIsCurrent, LandedDone, Accounted, TallyIsWhatLanded
<1>6. Bucketed' /\ CursorFits'
  BY <1>1, <1>2 DEF Bucketed, CursorFits, EarlySteps
<1> QED
  BY <1>1, <1>4, <1>5, <1>6 DEF WizInv

\* A careful operator closes it with no call under way.
LEMMA CloseKeeps == ASSUME WizInv, Careful, CloseWizard PROVE WizInv'
<1>1. request = NoCall /\ UNCHANGED <<request, landed>>
  BY DEF CloseWizard, Idle
<1>2. landed' \in LandedTables /\ NoRowTwice' /\ WizTypes
  BY <1>1, SameTable DEF WizInv, WizTypes, LandedTables
<1> QED
  BY <1>1, <1>2, ShutKeeps DEF CloseWizard

\* Another client starts the wizard over.
LEMMA SwitchKeeps == ASSUME WizInv, SwitchClient PROVE WizInv'
<1>1. opened /\ wiz.step = "newImport" /\ request = NoCall /\ Move(Fresh)
  BY DEF SwitchClient, At, Idle
<1>2. wiz.completed = {}
  BY <1>1 DEF WizInv, Bucketed, EarlySteps
<1>3. /\ Fresh.completed = {} /\ Fresh.failed = {} /\ Fresh.step \in EarlySteps
      /\ Fresh.kmSelected = Fresh.km
  BY DEF Fresh, EarlySteps
<1> QED
  BY <1>1, <1>2, <1>3, FreshState, MovedEarly

\* A file replaces the groups, before anything is imported.
LEMMA UploadKeeps ==
  ASSUME WizInv, NEW group \in [Rows -> Depots \cup {Unmatched}], Upload(group) PROVE WizInv'
<1> DEFINE s == [Goto(wiz, "mapColumns") EXCEPT !.group = group]
<1>1. opened /\ wiz.step = "newImport" /\ request = NoCall /\ Move(s) /\ wiz \in WizState
  BY DEF Upload, At, Idle, WizInv, WizTypes
<1>2. wiz.completed = {} /\ wiz.failed = {}
  BY <1>1, NothingYet DEF WizInv, Bucketed, EarlySteps
<1>3. PICK u \in WizState :
        /\ u = Goto(wiz, "mapColumns") /\ u.step = "mapColumns" /\ u.completed = wiz.completed
        /\ u.failed = wiz.failed /\ u.km = wiz.km /\ u.kmSelected = wiz.kmSelected
  BY <1>1, GotoState DEF Steps
<1>4. /\ s \in WizState /\ s.completed = wiz.completed /\ s.failed = wiz.failed
      /\ s.step = "mapColumns" /\ s.km = wiz.km /\ s.kmSelected = wiz.kmSelected
  BY <1>3 DEF WizState
<1> HIDE DEF s
<1>5. s.step \in EarlySteps /\ s.kmSelected \subseteq s.km
  BY <1>4 DEF WizInv, EarlySteps
<1> QED
  BY <1>1, <1>2, <1>4, <1>5, MovedEarly

\* A row is moved to another depot only before the import starts.
LEMMA CorrectKeeps ==
  ASSUME WizInv, NEW q \in Rows, NEW d \in Depots \cup {Unmatched}, Correct(q, d) PROVE WizInv'
<1> DEFINE s == [wiz EXCEPT !.group[q] = d]
<1>1. opened /\ wiz.step \in EarlySteps /\ Move(s) /\ wiz \in WizState
  BY DEF Correct, At, EarlySteps, WizInv, WizTypes
<1>2. wiz.completed = {} /\ wiz.failed = {}
  BY <1>1, NothingYet DEF WizInv, Bucketed
<1>3. request = NoCall
  BY <1>1, IdleElsewhere DEF EarlySteps, ImportSteps
<1>4. /\ s \in WizState /\ s.completed = wiz.completed /\ s.failed = wiz.failed
      /\ s.step = wiz.step /\ s.km = wiz.km /\ s.kmSelected = wiz.kmSelected
  BY <1>1 DEF WizState
<1> HIDE DEF s
<1> QED
  BY <1>1, <1>2, <1>3, <1>4, MovedEarly DEF WizInv

\* Another step of an early or a later stage.
LEMMA WentOn ==
  ASSUME WizInv, opened, NEW step \in Steps, Move(Goto(wiz, step)), request = NoCall,
         step # "kmRatedReview", wiz.step # "kmRatedReview",
         step \in EarlySteps => wiz.completed = {},
         step \notin EarlySteps => wiz.step \notin EarlySteps,
         step \in ImportSteps => wiz.step \in ImportSteps,
         step \notin {"bookPickup"},
         step = "summary" => wiz.step = "bookPickup"
  PROVE  WizInv'
<1> DEFINE s == Goto(wiz, step)
<1>0. wiz \in WizState
  BY DEF WizInv, WizTypes
<1>1. /\ s \in WizState /\ s.step = step /\ s.group = wiz.group /\ s.depots = wiz.depots
      /\ s.selected = wiz.selected /\ s.cursor = wiz.cursor /\ s.completed = wiz.completed
      /\ s.km = wiz.km /\ s.kmSelected = wiz.kmSelected /\ s.failed = wiz.failed
  BY <1>0, GotoState
<1> HIDE DEF s
<1>2. wiz' = s /\ s.kmSelected \subseteq s.km
  BY <1>1 DEF Move, WizInv, s
<1>3. Bucketed'
  BY <1>1, <1>2 DEF WizInv, Bucketed
<1>4. Included(wiz') = Included(wiz)
  BY <1>1, <1>2 DEF Included
<1>5. CursorFits'
  BY <1>1, <1>2, <1>4 DEF WizInv, CursorFits
<1>6. Move(s)
  BY DEF s
<1> QED
  BY <1>1, <1>2, <1>3, <1>5, <1>6, Moved

\* The Next button, with the seeding when it leaves the matching step.
LEMMA NextKeeps == ASSUME WizInv, NextStep PROVE WizInv'
<1>1. opened /\ wiz \in WizState
  BY DEF NextStep, At, WizInv, WizTypes
<1>2. CASE At("mapColumns") /\ Move(Goto(wiz, "fixZips"))
  <2>1. wiz.step \in EarlySteps /\ wiz.step \notin ImportSteps /\ wiz.step # "kmRatedReview"
    BY <1>2 DEF At, EarlySteps, ImportSteps
  <2> QED
    BY <1>1, <1>2, <2>1, WentOn, IdleElsewhere
       DEF WizInv, Bucketed, Steps, EarlySteps, ImportSteps
<1>3. CASE At("fixZips") /\ Move(Goto(wiz, "fixAddresses"))
  <2>1. wiz.step \in EarlySteps /\ wiz.step \notin ImportSteps /\ wiz.step # "kmRatedReview"
    BY <1>3 DEF At, EarlySteps, ImportSteps
  <2> QED
    BY <1>1, <1>3, <2>1, WentOn, IdleElsewhere
       DEF WizInv, Bucketed, Steps, EarlySteps, ImportSteps
<1>4. CASE At("fixAddresses") /\ Move(Seeded(Goto(wiz, "selectRegions")))
  <2> DEFINE s == Seeded(Goto(wiz, "selectRegions"))
  <2>1. request = NoCall
    BY <1>4, IdleElsewhere DEF At, ImportSteps
  <2>2. /\ s \in WizState /\ s.step = "selectRegions" /\ s.group = wiz.group
        /\ \A d \in Depots : s.depots[d] = {r \in Rows : wiz.group[r] = d}
        /\ s.completed = wiz.completed /\ s.km = wiz.km /\ s.kmSelected = wiz.kmSelected
        /\ s.failed = wiz.failed
    BY <1>1, GotoState, SeededState DEF Steps
  <2>3. Move(s)
    BY <1>4
  <2> HIDE DEF s
  <2>4. wiz' = s /\ wiz.step = "fixAddresses"
    BY <1>4, <2>3 DEF Move, At
  <2>5. Bucketed' /\ CursorFits'
    BY <2>2, <2>4 DEF Bucketed, CursorFits, EarlySteps, ImportSteps
  <2> QED
    BY <1>1, <2>1, <2>2, <2>3, <2>4, <2>5, Moved DEF WizInv
<1> QED
  BY <1>2, <1>3, <1>4 DEF NextStep

\* The Back button, which a careful operator leaves alone once a depot is imported.
LEMMA BackKeeps == ASSUME WizInv, Careful, Back PROVE WizInv'
<1>1. opened /\ wiz \in WizState /\ request = NoCall
  BY DEF Back, At, Idle, WizInv, WizTypes
<1>2. CASE At("mapColumns") /\ Move(Goto(wiz, "newImport"))
  BY <1>1, <1>2, WentOn DEF WizInv, Bucketed, Steps, At, EarlySteps, ImportSteps
<1>3. CASE At("fixZips") /\ Move(Goto(wiz, "mapColumns"))
  BY <1>1, <1>3, WentOn DEF WizInv, Bucketed, Steps, At, EarlySteps, ImportSteps
<1>4. CASE At("fixAddresses") /\ Move(Goto(wiz, "fixZips"))
  BY <1>1, <1>4, WentOn DEF WizInv, Bucketed, Steps, At, EarlySteps, ImportSteps
<1>5. CASE /\ At("selectRegions") /\ (Careful => wiz.completed = {})
           /\ Move(Goto(wiz, "fixAddresses"))
  BY <1>1, <1>5, WentOn DEF Steps, At, EarlySteps, ImportSteps
<1>6. CASE At("schedulePicker") /\ Move(Seeded(Goto(wiz, "selectRegions")))
  <2> DEFINE s == Seeded(Goto(wiz, "selectRegions"))
  <2>2. /\ s \in WizState /\ s.step = "selectRegions" /\ s.group = wiz.group
        /\ \A d \in Depots : s.depots[d] = {r \in Rows : wiz.group[r] = d}
        /\ s.completed = wiz.completed /\ s.km = wiz.km /\ s.kmSelected = wiz.kmSelected
        /\ s.failed = wiz.failed
    BY <1>1, GotoState, SeededState DEF Steps
  <2>3. Move(s)
    BY <1>6
  <2> HIDE DEF s
  <2>4. wiz' = s /\ wiz.step = "schedulePicker"
    BY <1>6, <2>3 DEF Move, At
  <2>5. Bucketed' /\ CursorFits'
    BY <2>2, <2>4 DEF Bucketed, CursorFits, EarlySteps, ImportSteps
  <2> QED
    BY <1>1, <2>2, <2>3, <2>4, <2>5, Moved DEF WizInv
<1>7. CASE At("truckPreview") /\ Move(Goto(wiz, "schedulePicker"))
  BY <1>1, <1>7, WentOn DEF Steps, At, EarlySteps, ImportSteps
<1>8. CASE At("rateByDistance") /\ Move(Goto(wiz, "schedulePicker"))
  BY <1>1, <1>8, WentOn DEF Steps, At, EarlySteps, ImportSteps
<1> QED
  BY <1>2, <1>3, <1>4, <1>5, <1>6, <1>7, <1>8 DEF Back

\* The first depot of those ticked is entered.
LEMMA StartKeeps == ASSUME WizInv, StartDepots PROVE WizInv'
<1> DEFINE d == NextPending(wiz, 0)
           s == Goto(AtDepot(wiz, d), "schedulePicker")
<1>1. /\ opened /\ wiz \in WizState /\ wiz.step = "selectRegions" /\ d # NoDepot
      /\ Move(s)
  BY DEF StartDepots, At, WizInv, WizTypes
<1>2. request = NoCall
  BY <1>1, IdleElsewhere DEF ImportSteps
<1>3. /\ d \in Included(wiz) \ wiz.completed
      /\ \A x \in Included(wiz) \ wiz.completed : x > 0 => d <= x
  BY <1>1, PendingDepot
<1>4. d \in Depots
  BY <1>3 DEF Included
<1> HIDE DEF d
<1>5. /\ s \in WizState /\ s.step = "schedulePicker" /\ s.group = wiz.group
      /\ s.depots = wiz.depots /\ s.selected = wiz.selected /\ s.cursor = d
      /\ s.completed = wiz.completed /\ s.km = wiz.km /\ s.kmSelected = wiz.kmSelected
      /\ s.failed = wiz.failed
  BY <1>1, <1>4, AtDepotState, GotoState DEF Steps
<1> HIDE DEF s
<1>6. wiz' = s
  BY <1>1 DEF Move
<1>7. Bucketed'
  BY <1>1, <1>5, <1>6 DEF WizInv, Bucketed, EarlySteps
<1>8. Included(wiz') = Included(wiz)
  BY <1>5, <1>6 DEF Included
<1>9. \A x \in Included(wiz) : x < d => x \in wiz.completed
  <2> TAKE x \in Included(wiz)
  <2>1. x \in Nat /\ x > 0 /\ d \in Nat
    BY <1>4, DepotsAssumption DEF Included
  <2> QED
    BY <1>3, <2>1
<1>10. CursorFits'
  BY <1>3, <1>5, <1>6, <1>8, <1>9 DEF CursorFits, ImportSteps
<1> QED
  BY <1>1, <1>2, <1>5, <1>6, <1>7, <1>10, Moved DEF WizInv

\* A depot is ticked or left out before the import starts.
LEMMA ToggleKeeps == ASSUME WizInv, NEW d \in Depots, ToggleDepot(d) PROVE WizInv'
<1> DEFINE s == [wiz EXCEPT !.selected = IF d \in @ THEN @ \ {d} ELSE @ \cup {d}]
<1>1. opened /\ wiz \in WizState /\ wiz.step = "selectRegions" /\ Move(s)
  BY DEF ToggleDepot, At, WizInv, WizTypes
<1>2. request = NoCall
  BY <1>1, IdleElsewhere DEF ImportSteps
<1>3. /\ s \in WizState /\ s.step = "selectRegions" /\ s.group = wiz.group
      /\ s.depots = wiz.depots /\ s.completed = wiz.completed /\ s.km = wiz.km
      /\ s.kmSelected = wiz.kmSelected /\ s.failed = wiz.failed
  BY <1>1 DEF WizState
<1> HIDE DEF s
<1>4. wiz' = s
  BY <1>1 DEF Move
<1>5. Bucketed' /\ CursorFits'
  BY <1>1, <1>3, <1>4 DEF WizInv, Bucketed, EarlySteps, CursorFits, ImportSteps
<1> QED
  BY <1>1, <1>2, <1>3, <1>4, <1>5, Moved DEF WizInv

\* A date is picked for the depot on screen.
LEMMA PickKeeps == ASSUME WizInv, NEW date \in BookDates, Pick(date) PROVE WizInv'
<1> DEFINE s == [wiz EXCEPT !.date = date, !.picked = TRUE]
<1>1. opened /\ wiz \in WizState /\ wiz.step = "schedulePicker" /\ request = NoCall /\ Move(s)
  BY DEF Pick, At, Idle, WizInv, WizTypes
<1>2. /\ s \in WizState /\ s.step = "schedulePicker" /\ s.group = wiz.group
      /\ s.depots = wiz.depots /\ s.selected = wiz.selected /\ s.cursor = wiz.cursor
      /\ s.completed = wiz.completed /\ s.km = wiz.km /\ s.kmSelected = wiz.kmSelected
      /\ s.failed = wiz.failed
  BY <1>1 DEF WizState
<1> HIDE DEF s
<1>3. wiz' = s
  BY <1>1 DEF Move
<1>4. Included(wiz') = Included(wiz)
  BY <1>2, <1>3 DEF Included
<1>5. Bucketed' /\ CursorFits'
  BY <1>1, <1>2, <1>3, <1>4 DEF WizInv, Bucketed, CursorFits
<1> QED
  BY <1>1, <1>2, <1>3, <1>5, Moved DEF WizInv

\* A row of the km-rated review is ticked or unticked.
LEMMA TickKeeps == ASSUME WizInv, NEW q \in Rows, ToggleKmRow(q) PROVE WizInv'
<1> DEFINE s == [wiz EXCEPT !.kmSelected = IF q \in @ THEN @ \ {q} ELSE @ \cup {q}]
<1>1. /\ opened /\ wiz \in WizState /\ wiz.step = "kmRatedReview" /\ request = NoCall
      /\ q \in wiz.km /\ Move(s)
  BY DEF ToggleKmRow, At, Idle, WizInv, WizTypes
<1>2. /\ s \in WizState /\ s.step = "kmRatedReview" /\ s.group = wiz.group
      /\ s.depots = wiz.depots /\ s.selected = wiz.selected /\ s.cursor = wiz.cursor
      /\ s.completed = wiz.completed /\ s.km = wiz.km /\ s.failed = wiz.failed
      /\ s.kmSelected \subseteq wiz.kmSelected \cup {q}
  BY <1>1 DEF WizState
<1> HIDE DEF s
<1>3. wiz' = s
  BY <1>1 DEF Move
<1>4. Included(wiz') = Included(wiz)
  BY <1>2, <1>3 DEF Included
<1>5. Bucketed' /\ CursorFits'
  BY <1>1, <1>2, <1>3, <1>4 DEF WizInv, Bucketed, CursorFits
<1>6. s.kmSelected \subseteq s.km
  BY <1>1, <1>2 DEF WizInv
<1> QED
  BY <1>1, <1>2, <1>3, <1>5, <1>6, Moved

\* Every step of the operator that sends nothing.
LEMMA PrepareKeeps == ASSUME WizInv, Careful, Prepare PROVE WizInv'
BY OpenKeeps, CloseKeeps, SwitchKeeps, NextKeeps, BackKeeps, StartKeeps, UploadKeeps,
   CorrectKeeps, ToggleKeeps, PickKeeps, TickKeeps DEF Prepare
-------------------------------------------------------------------------------
(* Calls and replies                                                       *)

Tallies == [imported : Nat, failed : Nat, rows : SUBSET Rows]

\* A call that leaves the wizard as it is and asks for rows of the depot on screen.
LEMMA CallKeeps ==
  ASSUME WizInv, opened, wiz.step \in ImportSteps, NEW pass \in {"preview", "first"}, Call(pass),
         UNCHANGED <<opened, wiz, tally, landed>>
  PROVE  WizInv'
<1>1. wiz \in WizState /\ request' = [pass |-> pass, seen |-> wiz]
  BY DEF WizInv, WizTypes, Call
<1>2. WizTypes' /\ ClosedIsFresh' /\ Bucketed' /\ CursorFits'
  BY <1>1 DEF WizInv, WizTypes, ClosedIsFresh, Bucketed, CursorFits, Included
<1>0. \A r \in Rows : IsIn(r)' = IsIn(r)
  BY SameTable
<1>3. LandedDone'
  <2>1. \A r \in wiz.km : r \in Rows
    BY <1>1 DEF WizState
  <2> QED
    BY <1>0, <2>1 DEF WizInv, LandedDone
<1>6. Accounted'
  BY <1>0 DEF WizInv, Accounted
<1>4. wiz = [wiz EXCEPT !.failed = wiz.failed]
  BY <1>1 DEF WizState
<1>5. ClosureIsCurrent'
  BY <1>1, <1>4 DEF ClosureIsCurrent, ImportSteps
<1> QED
  BY <1>2, <1>3, <1>5, <1>6, SameTable DEF WizInv, TallyIsWhatLanded

\* The picks are sent for a preview.
LEMMA SubmitKeeps == ASSUME WizInv, SubmitPicks PROVE WizInv'
<1>1. opened /\ wiz.step = "schedulePicker" /\ request = NoCall
  BY DEF SubmitPicks, At, Idle
<1>2. CASE Move(Goto(wiz, "rateByDistance"))
  BY <1>1, <1>2, WentOn DEF Steps, EarlySteps, ImportSteps
<1>3. CASE Call("preview") /\ UNCHANGED <<opened, wiz, tally, landed>>
  BY <1>1, <1>3, CallKeeps DEF ImportSteps
<1>4. CASE Call("first") /\ UNCHANGED <<opened, wiz, tally, landed>>
  BY <1>1, <1>4, CallKeeps DEF ImportSteps
<1> QED
  BY <1>2, <1>3, <1>4 DEF SubmitPicks

\* The import of a depot is sent.
LEMMA ConfirmKeeps == ASSUME WizInv, ConfirmImport PROVE WizInv'
BY CallKeeps DEF ConfirmImport, At, ImportSteps

\* The ticked km-rated rows are sent.
LEMMA UploadKmKeeps == ASSUME WizInv, UploadKmRows PROVE WizInv'
<1> DEFINE left == tally.rows \cup (wiz.km \ wiz.kmSelected)
<1>1. /\ opened /\ wiz.step = "kmRatedReview" /\ wiz \in WizState
      /\ tally \in Tallies /\ request' = [pass |-> "km", seen |-> wiz]
      /\ UNCHANGED <<opened, landed>>
  BY DEF UploadKmRows, At, Call, WizInv, WizTypes, Tallies
<1>2. tally' = [tally EXCEPT !.rows = left]
  BY DEF UploadKmRows
<1>3. left \in SUBSET Rows
  BY <1>1 DEF WizState, Tallies
<1>4. wiz' = [wiz EXCEPT !.failed = wiz'.failed]
  BY <1>1 DEF UploadKmRows, WizState
<1>5. wiz.failed = tally.rows /\ wiz.kmSelected \subseteq wiz.km
  BY <1>1 DEF WizInv, Accounted
<1>6. wiz'.failed = left
  <2>1. wiz'.failed = IF wiz.km = wiz.kmSelected THEN wiz.failed ELSE left
    BY <1>1 DEF UploadKmRows, WizState
  <2>2. wiz.km = wiz.kmSelected => left = tally.rows
    OBVIOUS
  <2> QED
    BY <1>5, <2>1, <2>2
<1> HIDE DEF left
<1>7. /\ wiz' \in WizState /\ wiz'.step = "kmRatedReview" /\ wiz'.group = wiz.group
      /\ wiz'.depots = wiz.depots /\ wiz'.selected = wiz.selected /\ wiz'.cursor = wiz.cursor
      /\ wiz'.completed = wiz.completed /\ wiz'.km = wiz.km /\ wiz'.kmSelected = wiz.kmSelected
  BY <1>1, <1>3, <1>4, <1>6 DEF WizState
<1>8. tally' \in Tallies /\ tally'.rows = left /\ tally'.imported = tally.imported
  BY <1>1, <1>2, <1>3 DEF Tallies
<1>9. WizTypes' /\ ClosedIsFresh'
  BY <1>1, <1>7, <1>8 DEF WizInv, WizTypes, ClosedIsFresh, Tallies
<1>10. Included(wiz') = Included(wiz)
  BY <1>7 DEF Included
<1>11. Bucketed' /\ CursorFits'
  BY <1>1, <1>7, <1>10 DEF WizInv, Bucketed, CursorFits
<1>12. \A r \in Rows : IsIn(r)' = IsIn(r)
  BY <1>1, SameTable
<1>13. LandedDone'
  <2>1. \A r \in wiz.km : r \in Rows
    BY <1>1 DEF WizState
  <2> QED
    BY <1>1, <1>7, <1>12, <2>1 DEF WizInv, LandedDone
<1>14. Accounted'
  <2>1. wiz.completed # {}
    BY <1>1 DEF WizInv, CursorFits
  <2>2. wiz.failed \subseteq left
    BY <1>5 DEF left
  <2> QED
    BY <1>1, <1>6, <1>7, <1>8, <1>12, <2>1, <2>2 DEF WizInv, Accounted
<1>15. ClosureIsCurrent'
  <2>1. wiz'.km \ wiz'.kmSelected \subseteq wiz'.failed
    BY <1>6, <1>7 DEF left
  <2>2. LeftOut' = wiz.km \ wiz.kmSelected
    BY <1>1 DEF LeftOut, NoCall
  <2>3. wiz'.failed \subseteq request'.seen.failed \cup LeftOut'
    BY <1>1, <1>5, <1>6, <2>2 DEF left
  <2> QED
    BY <1>1, <1>4, <1>7, <2>1, <2>3 DEF ClosureIsCurrent
<1> QED
  BY <1>1, <1>5, <1>7, <1>8, <1>9, <1>11, <1>13, <1>14, <1>15, SameTable
     DEF WizInv, TallyIsWhatLanded

\* On the summary, a row of a depot that is done is on the server or listed.
LEMMA RestListed ==
  ASSUME WizInv', wiz'.depots = wiz.depots, wiz'.selected = wiz.selected
  PROVE  At("summary")' => Remaining \subseteq wiz'.failed
<1> SUFFICES ASSUME opened', wiz'.step = "summary", NEW d \in Included(wiz), NEW r \in wiz.depots[d],
                    ~IsIn(r)'
             PROVE  r \in wiz'.failed
  BY DEF At, Remaining
<1>1. Included(wiz') = Included(wiz)
  BY DEF Included
<1>2. d \in Depots /\ d \in wiz'.completed
  BY <1>1 DEF WizInv, CursorFits, Included
<1>3. r \in Rows /\ wiz'.group[r] = d
  BY <1>2 DEF WizInv, Bucketed, EarlySteps
<1> QED
  BY <1>2, <1>3 DEF WizInv, Accounted

\* The state now, once the cursor's depot is settled, and how it differs from what was seen.
Settled(seen, now, t) ==
  /\ seen.depots = now.depots /\ seen.selected = now.selected /\ seen.cursor = now.cursor
  /\ \A d \in Depots : now.depots[d] = {r \in Rows : now.group[r] = d}
  /\ now.cursor \in Included(now) \cap now.completed
  /\ \A d \in Included(now) : d < now.cursor => d \in now.completed
  /\ seen.completed \subseteq now.completed
  /\ now.completed \subseteq seen.completed \cup {now.cursor}
  /\ now.failed = t.rows /\ now.kmSelected \subseteq now.km

\* Where the wizard is after a depot: with the same buckets, or closed with nothing seen to fail.
Ended(seen, now, t) ==
  IF opened' THEN wiz'.depots = now.depots /\ wiz'.selected = now.selected
  ELSE /\ ~(t.failed > 0) /\ seen.failed = {}
       /\ \A d \in Included(now) : \A r \in now.depots[d] : IsIn(r)' \/ r \in t.rows

\* After a depot is done, the next one is entered or the summary is shown.
LEMMA AdvanceKeeps ==
  ASSUME NEW seen \in WizState, NEW now \in WizState, NEW t \in Tallies, NEW pickup \in BOOLEAN,
         opened, WizTypes, Settled(seen, now, t), AdvanceOrFinish(seen, now, t, pickup),
         landed' \in LandedTables, request' = NoCall, NoRowTwice', t.imported = Cardinality(Taken'),
         \A r \in Rows : IsIn(r)' => now.group[r] \in now.completed,
         \A r \in Rows : now.group[r] \in now.completed => IsIn(r)' \/ r \in t.rows
  PROVE  WizInv' /\ Ended(seen, now, t)
<1> DEFINE f == FollowingDepot(seen)
<1>1. seen.cursor \in Depots \cup {0} /\ Included(seen) = Included(now) /\ now.cursor \in Depots
  BY DEF Settled, Included, WizState, NoDepot
<1>2. ASSUME NEW u \in WizState, wiz' = u, tally' = t, opened' = opened,
             u.group = now.group, u.depots = now.depots, u.completed = now.completed,
             u.failed = now.failed, u.kmSelected \subseteq u.km,
             u.step \in {"schedulePicker", "bookPickup", "summary"}, CursorFits'
      PROVE  WizInv'
  <2>1. u.step \notin EarlySteps /\ u.step # "kmRatedReview"
    BY <1>2 DEF EarlySteps
  <2>2. WizTypes' /\ ClosedIsFresh' /\ ClosureIsCurrent'
    BY <1>2 DEF WizTypes, ClosedIsFresh, ClosureIsCurrent, LandedTables, Tallies
  <2>3. Bucketed' /\ LandedDone' /\ Accounted'
    BY <1>2, <2>1 DEF Bucketed, LandedDone, Accounted, Settled
  <2> QED
    BY <1>2, <2>2, <2>3 DEF WizInv, TallyIsWhatLanded
<1>6. ASSUME f = NoDepot PROVE Included(now) \subseteq now.completed
  <2> SUFFICES ASSUME NEW x \in Included(now) PROVE x \in now.completed
    OBVIOUS
  <2>1. x > now.cursor => x \in seen.completed
    BY <1>1, <1>6, NoDepotPending DEF FollowingDepot, Settled
  <2>2. x \in Nat /\ now.cursor \in Nat
    BY <1>1, DepotsAssumption DEF Included
  <2> QED
    BY <2>1, <2>2 DEF Settled
<1>3. CASE f # NoDepot
  <2> DEFINE u == Goto(KmRated(AtDepot(now, f), {}), "schedulePicker")
  <2>1. /\ f \in Included(now) \ seen.completed /\ f > now.cursor
        /\ \A x \in Included(now) \ seen.completed : x > now.cursor => f <= x
    BY <1>1, <1>3, PendingDepot DEF FollowingDepot, Settled
  <2>2. f \in Depots
    BY <2>1 DEF Included
  <2>3. wiz' = u /\ tally' = t /\ opened' = opened
    BY <1>3 DEF AdvanceOrFinish
  <2> HIDE DEF f
  <2>4. /\ u \in WizState /\ u.step = "schedulePicker" /\ u.group = now.group
        /\ u.depots = now.depots /\ u.selected = now.selected /\ u.cursor = f
        /\ u.completed = now.completed /\ u.failed = now.failed /\ u.km = {}
        /\ u.kmSelected = {}
    BY <2>2, AtDepotState, KmRatedState, GotoState DEF Steps
  <2> HIDE DEF u
  <2>5. Included(wiz') = Included(now)
    BY <2>3, <2>4 DEF Included
  <2>6. now.cursor \in Nat /\ f \in Nat /\ \A x \in Included(now) : x \in Nat
    BY <1>1, <2>2, DepotsAssumption DEF Included
  <2>7. f \in Included(now) \ now.completed
    BY <2>1, <2>6 DEF Settled
  <2>8. \A x \in Included(now) : x < f => x \in now.completed
    <3> TAKE x \in Included(now)
    <3>1. CASE x < now.cursor
      BY <3>1 DEF Settled
    <3>2. CASE x = now.cursor
      BY <3>2 DEF Settled
    <3>3. CASE x > now.cursor /\ x < f
      BY <2>1, <2>6, <3>3 DEF Settled
    <3> QED
      BY <2>6, <3>1, <3>2, <3>3
  <2>9. CursorFits'
    BY <2>3, <2>4, <2>5, <2>7, <2>8 DEF CursorFits, ImportSteps
  <2>10. Ended(seen, now, t)
    BY <2>3, <2>4 DEF Ended
  <2> QED
    BY <1>2, <2>3, <2>4, <2>9, <2>10
<1>4. CASE f = NoDepot /\ (pickup \/ t.failed > 0 \/ seen.failed # {})
  <2> DEFINE step == IF pickup THEN "bookPickup" ELSE "summary"
             u == Goto(now, step)
  <2>1. wiz' = u /\ tally' = t /\ opened' = opened
    BY <1>4 DEF AdvanceOrFinish
  <2>2. step \in {"bookPickup", "summary"}
    OBVIOUS
  <2> HIDE DEF step
  <2>3. /\ u \in WizState /\ u.step = step /\ u.group = now.group
        /\ u.depots = now.depots /\ u.selected = now.selected
        /\ u.completed = now.completed /\ u.failed = now.failed /\ u.km = now.km
        /\ u.kmSelected = now.kmSelected
    BY <2>2, GotoState DEF Steps
  <2> HIDE DEF u
  <2>4. Included(wiz') = Included(now)
    BY <2>1, <2>3 DEF Included
  <2>5. Included(now) \subseteq now.completed
    BY <1>4, <1>6
  <2>6. CursorFits'
    BY <2>1, <2>2, <2>3, <2>4, <2>5 DEF CursorFits, ImportSteps
  <2>7. u.kmSelected \subseteq u.km
    BY <2>3 DEF Settled
  <2>8. Ended(seen, now, t)
    BY <2>1, <2>3 DEF Ended
  <2> QED
    BY <1>2, <2>1, <2>2, <2>3, <2>6, <2>7, <2>8
<1>5. CASE f = NoDepot /\ ~(pickup \/ t.failed > 0 \/ seen.failed # {})
  <2>1. wiz' = Fresh /\ tally' = NoResults /\ opened' = FALSE
    BY <1>5 DEF AdvanceOrFinish
  <2>2. ASSUME NEW d \in Included(now), NEW r \in now.depots[d]
        PROVE  IsIn(r)' \/ r \in t.rows
    <3>1. d \in Depots /\ d \in now.completed
      BY <1>5, <1>6 DEF Included
    <3>2. r \in Rows /\ now.group[r] = d
      BY <3>1 DEF Settled
    <3> QED
      BY <3>1, <3>2
  <2>3. Ended(seen, now, t)
    BY <1>5, <2>1, <2>2 DEF Ended
  <2> QED
    BY <2>1, <2>3, ShutKeeps
<1> QED
  BY <1>3, <1>4, <1>5

\* What a call under way was made with, on the steps as they are.
LEMMA CallFacts ==
  ASSUME WizInv, request.pass \in {"first", "km"}
  PROVE  /\ opened /\ request.seen \in WizState /\ wiz \in WizState
         /\ request.seen.depots = wiz.depots /\ request.seen.selected = wiz.selected
         /\ request.seen.cursor = wiz.cursor /\ request.seen.completed = wiz.completed
         /\ request.seen.date \in BookDates
         /\ \A d \in Depots : wiz.depots[d] = {r \in Rows : wiz.group[r] = d}
         /\ wiz.cursor \in Included(wiz) /\ Bucket(request.seen) = wiz.cursor
         /\ \A d \in Included(wiz) : d < wiz.cursor => d \in wiz.completed
         /\ Payload(request) \in SUBSET Rows
         /\ \A r \in Payload(request) : wiz.group[r] = wiz.cursor /\ ~IsIn(r)
         /\ request.pass = "km" => wiz.km \ Payload(request) \subseteq wiz.failed
         /\ request.pass = "first" => wiz.step # "kmRatedReview"
         /\ request.pass = "first" => Payload(request) = {r \in Rows : wiz.group[r] = wiz.cursor}
<1>1. request # NoCall
  BY DEF NoCall
<1>2. request.seen \in WizState /\ wiz \in WizState
  BY <1>1 DEF WizInv, WizTypes
<1>3. opened /\ wiz = [request.seen EXCEPT !.failed = wiz.failed]
  BY <1>1 DEF WizInv, ClosureIsCurrent
<1> DEFINE seen == request.seen
<1>4. /\ seen.depots = wiz.depots /\ seen.selected = wiz.selected /\ seen.cursor = wiz.cursor
      /\ seen.completed = wiz.completed /\ seen.kmSelected = wiz.kmSelected
      /\ seen.date \in BookDates
  BY <1>2, <1>3 DEF WizState
<1>5. /\ wiz.step \in ImportSteps \cup {"kmRatedReview"}
      /\ request.pass = "first" => wiz.step \in ImportSteps
      /\ request.pass = "km" => /\ wiz.step = "kmRatedReview"
                                /\ wiz.km \ wiz.kmSelected \subseteq wiz.failed
  BY <1>1 DEF WizInv, ClosureIsCurrent
<1>6. wiz.step \notin EarlySteps
  BY <1>5 DEF EarlySteps, ImportSteps
<1>7. \A d \in Depots : wiz.depots[d] = {r \in Rows : wiz.group[r] = d}
  BY <1>6 DEF WizInv, Bucketed
<1>8. wiz.cursor \in Included(wiz) /\ \A d \in Included(wiz) : d < wiz.cursor => d \in wiz.completed
  BY <1>5 DEF WizInv, CursorFits
<1>9. wiz.cursor \in Depots /\ wiz.cursor # NoDepot
  BY <1>8, DepotsAssumption DEF Included, NoDepot
<1>10. Included(seen) = Included(wiz)
  BY <1>4 DEF Included
<1>11. Bucket(seen) = wiz.cursor
  BY <1>4, <1>8, <1>10 DEF Bucket
<1>12. CASE request.pass = "first"
  <2>1. Payload(request) = {r \in Rows : wiz.group[r] = wiz.cursor}
    BY <1>4, <1>7, <1>9, <1>11, <1>12 DEF Payload
  <2>2. wiz.step \in ImportSteps /\ wiz.step # "kmRatedReview" /\ wiz.cursor \notin wiz.completed
    BY <1>5, <1>12 DEF WizInv, CursorFits, ImportSteps
  <2>3. \A r \in Payload(request) : ~IsIn(r)
    BY <1>3, <2>1, <2>2 DEF WizInv, LandedDone
  <2> QED
    BY <1>2, <1>3, <1>4, <1>7, <1>8, <1>11, <1>12, <2>1, <2>2, <2>3
<1>13. CASE request.pass = "km"
  <2>1. Payload(request) = wiz.kmSelected
    BY <1>4, <1>13 DEF Payload
  <2>2. wiz.kmSelected \subseteq wiz.km /\ wiz.km \in SUBSET Rows
    BY <1>2 DEF WizInv, WizState
  <2>3. \A r \in wiz.km : wiz.group[r] = wiz.cursor /\ ~IsIn(r)
    BY <1>3, <1>5, <1>13 DEF WizInv, LandedDone
  <2> QED
    BY <1>2, <1>3, <1>4, <1>5, <1>7, <1>8, <1>11, <1>13, <2>1, <2>2, <2>3
<1> QED
  BY <1>12, <1>13

\* Marking a depot as done changes the completed set only.
LEMMA DoneState ==
  ASSUME NEW s \in WizState, NEW d \in Depots
  PROVE  LET u == MarkDone(s, d)
         IN  /\ u \in WizState /\ u.completed = s.completed \cup {d} /\ u.step = s.step
             /\ u.cursor = s.cursor /\ u.group = s.group /\ u.depots = s.depots
             /\ u.selected = s.selected /\ u.failed = s.failed /\ u.km = s.km
             /\ u.kmSelected = s.kmSelected
<1>1. d # NoDepot
  BY DepotsAssumption DEF NoDepot
<1> QED
  BY <1>1 DEF MarkDone, WizState

\* The tally adds what a reply reports.
LEMMA CountedTally ==
  ASSUME NEW t \in Tallies, NEW n \in Nat, NEW m \in Nat, NEW rows \in SUBSET Rows
  PROVE  /\ Counted(t, n, m, rows) \in Tallies
         /\ Counted(t, n, m, rows).imported = t.imported + n
         /\ Counted(t, n, m, rows).failed = t.failed + m
         /\ Counted(t, n, m, rows).rows = t.rows \cup rows
BY DEF Counted, Tallies

\* The last depot is done: nothing came back and nothing was seen to fail.
LEMMA EndTold ==
  ASSUME WizInv, WizInv', opened, NEW seen \in WizState, wiz.failed \subseteq seen.failed \cup LeftOut,
         NEW now \in WizState, now.depots = wiz.depots, now.selected = wiz.selected,
         NEW back \in SUBSET Rows, NEW t \in Tallies, t.rows = tally.rows \cup back,
         t.failed = tally.failed + Cardinality(back), Ended(seen, now, t)
  PROVE  Told
<1>1. Included(now) = Included(wiz)
  BY DEF Included
<1>2. CASE opened'
  BY <1>2, RestListed DEF Ended, Told
<1>3. CASE ~opened'
  <2>1. IsFiniteSet(back)
    BY RowsAssumption, FS_Subset, Zenon
  <2>2. Cardinality(back) \in Nat /\ tally.failed \in Nat
    BY <2>1, FS_CardinalityType DEF WizInv, WizTypes
  <2>3. ~(t.failed > 0) /\ seen.failed = {}
    BY <1>3 DEF Ended
  <2>4. Cardinality(back) = 0
    BY <2>2, <2>3
  <2>5. back = {}
    BY <2>1, <2>4, FS_EmptySet
  <2>6. t.rows \subseteq LeftOut
    BY <2>3, <2>5 DEF WizInv, Accounted
  <2>7. \A d \in Included(wiz) : \A r \in wiz.depots[d] : IsIn(r)' \/ r \in t.rows
    BY <1>1, <1>3 DEF Ended
  <2>8. Remaining \subseteq LeftOut
    BY <2>6, <2>7 DEF Remaining
  <2> QED
    BY <1>3, <2>8 DEF Told, At
<1> QED
  BY <1>2, <1>3

\* A depot whose rows are all refused is done without an import.
LEMMA RefusedKeeps == ASSUME WizInv, AllRefused PROVE WizInv' /\ Told
<1> DEFINE P == Payload(request)
           t == Counted(tally, 0, Cardinality(P), P)
           now == [MarkDone(wiz, Bucket(request.seen)) EXCEPT !.failed = t.rows]
<1>1. /\ request.pass \in {"first", "km"} /\ request' = NoCall /\ UNCHANGED landed
      /\ AdvanceOrFinish(request.seen, now, t, request.seen.pickup)
  BY DEF AllRefused
<1>2. PICK u : u = MarkDone(wiz, wiz.cursor)
  OBVIOUS
<1>3. wiz.cursor \in Depots /\ wiz \in WizState
  BY <1>1, CallFacts DEF Included
<1>4. /\ u \in WizState /\ u.completed = wiz.completed \cup {wiz.cursor}
      /\ u.cursor = wiz.cursor /\ u.group = wiz.group /\ u.depots = wiz.depots
      /\ u.selected = wiz.selected /\ u.km = wiz.km /\ u.kmSelected = wiz.kmSelected
  BY <1>2, <1>3, DoneState
<1>5. P \in SUBSET Rows /\ tally \in Tallies /\ Cardinality(P) \in Nat
  <2>1. P \in SUBSET Rows
    BY <1>1, CallFacts
  <2>2. IsFiniteSet(P)
    BY <2>1, RowsAssumption, FS_Subset, Zenon
  <2> QED
    BY <2>1, <2>2, FS_CardinalityType DEF WizInv, WizTypes, Tallies
<1>6. /\ t \in Tallies /\ t.imported = tally.imported /\ t.rows = tally.rows \cup P
      /\ t.failed = tally.failed + Cardinality(P)
  <2>1. t.imported = tally.imported + 0 /\ tally.imported \in Nat
    BY <1>5, CountedTally DEF Tallies
  <2> QED
    BY <1>5, <2>1, CountedTally
<1> HIDE DEF t
<1>7. now = [u EXCEPT !.failed = t.rows]
  BY <1>1, <1>2, CallFacts
<1> HIDE DEF now
<1>8. /\ now \in WizState /\ now.completed = wiz.completed \cup {wiz.cursor}
      /\ now.cursor = wiz.cursor /\ now.group = wiz.group /\ now.depots = wiz.depots
      /\ now.selected = wiz.selected /\ now.km = wiz.km /\ now.kmSelected = wiz.kmSelected
      /\ now.failed = t.rows
  BY <1>4, <1>6, <1>7 DEF WizState, Tallies
<1>9. Included(now) = Included(wiz)
  BY <1>8 DEF Included
<1>10. Settled(request.seen, now, t)
  BY <1>1, <1>8, <1>9, CallFacts DEF Settled, WizInv
<1>11. \A r \in Rows : IsIn(r)' = IsIn(r)
  BY <1>1, SameTable
<1>12. opened /\ request.seen \in WizState
  BY <1>1, CallFacts
<1>13. \A r \in Rows : IsIn(r)' => now.group[r] \in now.completed
  BY <1>8, <1>11, <1>12 DEF WizInv, LandedDone
<1>14. ASSUME NEW r \in Rows, now.group[r] \in now.completed
       PROVE  IsIn(r)' \/ r \in t.rows
  <2>1. CASE wiz.group[r] = wiz.cursor /\ request.pass = "first"
    BY <1>1, <1>6, <2>1, CallFacts
  <2>2. CASE wiz.group[r] \in wiz.completed
    <3>1. IsIn(r) \/ r \in tally.rows \/ (wiz.step = "kmRatedReview" /\ r \in wiz.km)
      BY <1>12, <2>2 DEF WizInv, Accounted
    <3>2. wiz.step = "kmRatedReview" /\ r \in wiz.km => r \in P \/ r \in tally.rows
      BY <1>1, <1>12, CallFacts DEF WizInv, Accounted
    <3> QED
      BY <1>6, <1>11, <3>1, <3>2
  <2>3. CASE request.pass = "km"
    <3>1. wiz.cursor \in wiz.completed
      BY <1>12, <2>3 DEF WizInv, ClosureIsCurrent, CursorFits, NoCall
    <3> QED
      BY <1>8, <1>14, <2>2, <3>1
  <2> QED
    BY <1>1, <1>8, <1>14, <2>1, <2>2, <2>3
<1>15. NoRowTwice' /\ t.imported = Cardinality(Taken')
  BY <1>1, <1>6, <1>12, SameTable DEF WizInv, TallyIsWhatLanded
<1>16. landed' \in LandedTables /\ WizTypes /\ request.seen.pickup \in BOOLEAN
  BY <1>1, <1>12 DEF WizInv, WizTypes, LandedTables, WizState
<1>17. WizInv' /\ Ended(request.seen, now, t)
  BY <1>1, <1>6, <1>8, <1>10, <1>12, <1>13, <1>14, <1>15, <1>16, AdvanceKeeps
<1>18. request # NoCall
  BY <1>1 DEF NoCall
<1> QED
  BY <1>5, <1>6, <1>8, <1>9, <1>12, <1>17, <1>18, EndTold DEF WizInv, ClosureIsCurrent

\* Km-rated rows that are skipped are counted as left out.
LEMMA SkipKeeps == ASSUME WizInv, SkipKmRows PROVE WizInv' /\ Told
<1> DEFINE t == Counted(tally, 0, Cardinality(wiz.km), wiz.km)
           now == [wiz EXCEPT !.failed = t.rows]
<1>1. /\ opened /\ wiz.step = "kmRatedReview" /\ request = NoCall /\ wiz \in WizState
      /\ AdvanceOrFinish(wiz, now, t, wiz.pickup) /\ UNCHANGED <<request, landed>>
  BY DEF SkipKmRows, At, Idle, WizInv, WizTypes
<1>2. wiz.km \in SUBSET Rows /\ tally \in Tallies /\ Cardinality(wiz.km) \in Nat
  <2>1. wiz.km \in SUBSET Rows
    BY <1>1 DEF WizState
  <2>2. IsFiniteSet(wiz.km)
    BY <2>1, RowsAssumption, FS_Subset, Zenon
  <2> QED
    BY <2>1, <2>2, FS_CardinalityType DEF WizInv, WizTypes, Tallies
<1>3. /\ t \in Tallies /\ t.imported = tally.imported /\ t.rows = tally.rows \cup wiz.km
      /\ t.failed = tally.failed + Cardinality(wiz.km)
  <2>1. t.imported = tally.imported + 0 /\ tally.imported \in Nat
    BY <1>2, CountedTally DEF Tallies
  <2> QED
    BY <1>2, <2>1, CountedTally
<1> HIDE DEF t
<1>4. /\ now \in WizState /\ now.completed = wiz.completed
      /\ now.cursor = wiz.cursor /\ now.group = wiz.group /\ now.depots = wiz.depots
      /\ now.selected = wiz.selected /\ now.km = wiz.km /\ now.kmSelected = wiz.kmSelected
      /\ now.failed = t.rows
  BY <1>1, <1>3 DEF WizState, Tallies
<1> HIDE DEF now
<1>5. Included(now) = Included(wiz)
  BY <1>4 DEF Included
<1>6. /\ \A d \in Depots : wiz.depots[d] = {r \in Rows : wiz.group[r] = d}
      /\ wiz.cursor \in Included(wiz) \cap wiz.completed
      /\ \A d \in Included(wiz) : d < wiz.cursor => d \in wiz.completed
  BY <1>1 DEF WizInv, Bucketed, CursorFits, EarlySteps
<1>7. Settled(wiz, now, t)
  BY <1>4, <1>5, <1>6 DEF Settled, WizInv
<1>8. \A r \in Rows : IsIn(r)' = IsIn(r)
  BY <1>1, SameTable
<1>9. \A r \in Rows : IsIn(r)' => now.group[r] \in now.completed
  BY <1>1, <1>4, <1>8 DEF WizInv, LandedDone
<1>10. \A r \in Rows : now.group[r] \in now.completed => IsIn(r)' \/ r \in t.rows
  BY <1>1, <1>3, <1>4, <1>8 DEF WizInv, Accounted
<1>11. NoRowTwice' /\ t.imported = Cardinality(Taken')
  BY <1>1, <1>3, SameTable DEF WizInv, TallyIsWhatLanded
<1>12. landed' \in LandedTables /\ WizTypes /\ wiz.pickup \in BOOLEAN /\ request' = NoCall
  BY <1>1 DEF WizInv, WizTypes, LandedTables, WizState
<1>13. WizInv' /\ Ended(wiz, now, t)
  BY <1>1, <1>3, <1>4, <1>7, <1>9, <1>10, <1>11, <1>12, AdvanceKeeps
<1> QED
  BY <1>1, <1>2, <1>3, <1>4, <1>5, <1>13, EndTold

\* A call that fails lands nothing and leaves its error on the screen.
LEMMA RejectedKeeps == ASSUME WizInv, Rejected PROVE WizInv'
<1>1. request' = NoCall /\ UNCHANGED <<opened, wiz, tally, landed>>
  BY DEF Rejected
<1>2. WizTypes' /\ ClosedIsFresh' /\ Bucketed' /\ CursorFits' /\ ClosureIsCurrent'
  BY <1>1 DEF WizInv, WizTypes, ClosedIsFresh, Bucketed, CursorFits, Included, ClosureIsCurrent
<1>3. \A r \in Rows : IsIn(r)' = IsIn(r)
  BY <1>1, SameTable
<1>4. LandedDone'
  <2>1. \A r \in wiz.km : r \in Rows
    BY DEF WizInv, WizTypes, WizState
  <2> QED
    BY <1>1, <1>3, <2>1 DEF WizInv, LandedDone
<1>5. Accounted'
  BY <1>1, <1>3 DEF WizInv, Accounted
<1> QED
  BY <1>1, <1>2, <1>4, <1>5, SameTable DEF WizInv, TallyIsWhatLanded

\* A preview is answered.
LEMMA PreviewKeeps == ASSUME WizInv, NEW hasTrucks \in BOOLEAN, Previewed(hasTrucks) PROVE WizInv'
<1>1. /\ request # NoCall /\ request.pass = "preview" /\ UNCHANGED <<opened, tally, landed>>
  BY DEF Previewed
<1>2. opened /\ wiz.step \in ImportSteps /\ wiz \in WizState
  BY <1>1 DEF WizInv, WizTypes, ClosureIsCurrent
<1>3. \A r \in Rows : IsIn(r)' = IsIn(r)
  BY <1>1, SameTable
<1>4. CASE wiz' = Goto(wiz, "truckPreview") /\ request' = NoCall
  <2>1. /\ wiz' \in WizState /\ wiz'.step = "truckPreview" /\ wiz'.group = wiz.group
        /\ wiz'.depots = wiz.depots /\ wiz'.selected = wiz.selected
        /\ wiz'.cursor = wiz.cursor /\ wiz'.completed = wiz.completed /\ wiz'.km = wiz.km
        /\ wiz'.kmSelected = wiz.kmSelected /\ wiz'.failed = wiz.failed
    BY <1>2, <1>4, GotoState DEF Steps
  <2>2. wiz.step \notin EarlySteps /\ wiz.step # "kmRatedReview"
    BY <1>2 DEF ImportSteps, EarlySteps
  <2>3. WizTypes' /\ ClosedIsFresh' /\ ClosureIsCurrent'
    BY <1>1, <1>2, <1>4, <2>1 DEF WizInv, WizTypes, ClosedIsFresh, ClosureIsCurrent
  <2>4. Included(wiz') = Included(wiz)
    BY <2>1 DEF Included
  <2>5. Bucketed' /\ CursorFits'
    BY <1>2, <2>1, <2>2, <2>4 DEF WizInv, Bucketed, CursorFits, EarlySteps, ImportSteps
  <2>6. LandedDone' /\ Accounted'
    BY <1>1, <1>2, <1>3, <2>1, <2>2 DEF WizInv, LandedDone, Accounted
  <2> QED
    BY <1>1, <2>1, <2>3, <2>5, <2>6, SameTable DEF WizInv, TallyIsWhatLanded
<1>5. CASE request' = [request EXCEPT !.pass = "first"] /\ wiz' = wiz
  <2>1. request \in [pass : {"preview", "first", "km"}, seen : WizState]
    BY <1>1 DEF WizInv, WizTypes
  <2>2. /\ request' \in [pass : {"preview", "first", "km"}, seen : WizState]
        /\ request'.pass = "first" /\ request'.seen = request.seen
    BY <1>5, <2>1
  <2>3. WizTypes' /\ ClosedIsFresh' /\ Bucketed' /\ CursorFits'
    BY <1>1, <1>2, <1>5, <2>2
       DEF WizInv, WizTypes, ClosedIsFresh, Bucketed, CursorFits, Included
  <2>4. ClosureIsCurrent'
    BY <1>1, <1>2, <1>5, <2>2 DEF WizInv, ClosureIsCurrent, LeftOut
  <2>5. wiz.step # "kmRatedReview"
    BY <1>2 DEF ImportSteps
  <2>6. LandedDone' /\ Accounted'
    BY <1>1, <1>2, <1>3, <1>5, <2>5 DEF WizInv, LandedDone, Accounted
  <2> QED
    BY <1>1, <1>5, <2>3, <2>4, <2>6, SameTable DEF WizInv, TallyIsWhatLanded
<1> QED
  BY <1>4, <1>5 DEF Previewed

\* The pickup step of a depot ends.
LEMMA PickupKeeps == ASSUME WizInv, FinishPickup PROVE WizInv' /\ Told
<1>1. opened /\ wiz.step = "bookPickup"
  BY DEF FinishPickup, At
<1>2. request = NoCall
  BY <1>1, IdleElsewhere DEF ImportSteps
<1>3. CASE Move(Goto(wiz, "summary"))
  <2>1. WizInv'
    BY <1>1, <1>2, <1>3, WentOn DEF Steps, EarlySteps, ImportSteps
  <2>2. wiz \in WizState /\ wiz' = Goto(wiz, "summary") /\ opened' = opened
    BY <1>3 DEF Move, WizInv, WizTypes
  <2>3. wiz'.depots = wiz.depots /\ wiz'.selected = wiz.selected
    BY <2>2, GotoState DEF Steps
  <2> QED
    BY <1>1, <2>1, <2>2, <2>3, RestListed DEF Told
<1>4. CASE /\ wiz.failed = {} /\ opened' = FALSE /\ wiz' = Fresh /\ tally' = NoResults
           /\ UNCHANGED <<request, landed>>
  <2>1. landed' \in LandedTables /\ NoRowTwice' /\ WizTypes
    BY <1>4, SameTable DEF WizInv, WizTypes, LandedTables
  <2>2. WizInv'
    BY <1>2, <1>4, <2>1, ShutKeeps
  <2>3. Told
    <3> SUFFICES ASSUME NEW d \in Included(wiz), NEW r \in wiz.depots[d], ~IsIn(r)' PROVE FALSE
      BY <1>4 DEF Told, Remaining, At
    <3>1. d \in Depots /\ d \in wiz.completed
      BY <1>1 DEF WizInv, CursorFits, Included
    <3>2. r \in Rows /\ wiz.group[r] = d
      BY <1>1, <3>1 DEF WizInv, Bucketed, EarlySteps
    <3>3. IsIn(r)' = IsIn(r)
      BY <1>4, <3>2, SameTable
    <3> QED
      BY <1>1, <1>4, <3>1, <3>2, <3>3 DEF WizInv, Accounted
  <2> QED
    BY <2>2, <2>3
<1> QED
  BY <1>3, <1>4 DEF FinishPickup

\* What an import puts on the server, and what it leaves there.
LEMMA CallLands ==
  ASSUME WizInv, request.pass \in {"first", "km"}, NEW returned \in SUBSET Payload(request),
         Land(Payload(request) \ returned, request.seen.date)
  PROVE  /\ landed' \in LandedTables /\ NoRowTwice'
         /\ \A r \in Rows : IsIn(r)' <=> IsIn(r) \/ r \in Payload(request) \ returned
         /\ Cardinality(Payload(request) \ returned) \in Nat /\ Cardinality(returned) \in Nat
         /\ tally.imported + Cardinality(Payload(request) \ returned) = Cardinality(Taken')
<1> DEFINE P == Payload(request) \ returned
<1>1. /\ P \in SUBSET Rows /\ returned \in SUBSET Rows /\ request.seen.date \in BookDates
      /\ \A r \in P : ~IsIn(r)
  BY CallFacts
<1>2. landed \in LandedTables /\ OnceIn(landed)
  BY DEF WizInv, WizTypes, LandedTables, NoRowTwice, OnceIn
<1>3. tally.imported = Cardinality(Taken)
  BY CallFacts DEF WizInv, TallyIsWhatLanded
<1>4. Land(P, request.seen.date)
  OBVIOUS
<1> HIDE DEF P
<1>5. /\ landed' \in LandedTables /\ NoRowTwice' /\ \A r \in Rows : IsIn(r)' <=> IsIn(r) \/ r \in P
      /\ Cardinality(Taken') = Cardinality(Taken) + Cardinality(P)
  BY <1>1, <1>2, <1>4, LandRows
<1>6. IsFiniteSet(P) /\ IsFiniteSet(returned)
  BY <1>1, RowsAssumption, FS_Subset, Zenon
<1>7. Cardinality(P) \in Nat /\ Cardinality(returned) \in Nat
  BY <1>6, FS_CardinalityType, Zenon
<1> QED
  BY <1>3, <1>5, <1>7 DEF P

\* What a reply makes of the wizard's state before it moves on.
Replied(s, d, pickup, gone, rows) ==
  [[MarkDone(s, d) EXCEPT !.pickup = pickup] EXCEPT !.failed = IF gone = {} THEN @ ELSE rows]

RepliedFields(s, d, rows, v) ==
  /\ v \in WizState /\ v.completed = s.completed \cup {d} /\ v.cursor = s.cursor
  /\ v.group = s.group /\ v.depots = s.depots /\ v.selected = s.selected
  /\ v.failed = rows /\ v.km = s.km /\ v.kmSelected = s.kmSelected

\* What a reply to an import does to the wizard, field by field.
LEMMA RepliedState ==
  ASSUME NEW s \in WizState, NEW d \in Depots, NEW pickup \in BOOLEAN, NEW rows \in SUBSET Rows,
         NEW gone, gone = {} => rows = s.failed
  PROVE  RepliedFields(s, d, rows, Replied(s, d, pickup, gone, rows))
<1>1. PICK u : u = MarkDone(s, d)
  OBVIOUS
<1>2. /\ u \in WizState /\ u.completed = s.completed \cup {d} /\ u.cursor = s.cursor
      /\ u.group = s.group /\ u.depots = s.depots /\ u.selected = s.selected
      /\ u.failed = s.failed /\ u.km = s.km /\ u.kmSelected = s.kmSelected
  BY <1>1, DoneState
<1>3. PICK w : w = [u EXCEPT !.pickup = pickup]
  OBVIOUS
<1>4. /\ w \in WizState /\ w.completed = u.completed /\ w.cursor = u.cursor
      /\ w.group = u.group /\ w.depots = u.depots /\ w.selected = u.selected
      /\ w.failed = u.failed /\ w.km = u.km /\ w.kmSelected = u.kmSelected
  BY <1>2, <1>3 DEF WizState
<1>5. (IF gone = {} THEN w.failed ELSE rows) = rows
  BY <1>2, <1>4
<1>6. PICK v : v = [w EXCEPT !.failed = rows]
  OBVIOUS
<1>7. /\ v \in WizState /\ v.completed = w.completed /\ v.cursor = w.cursor
      /\ v.group = w.group /\ v.depots = w.depots /\ v.selected = w.selected
      /\ v.failed = rows /\ v.km = w.km /\ v.kmSelected = w.kmSelected
  BY <1>4, <1>6 DEF WizState
<1>8. v = [w EXCEPT !.failed = IF gone = {} THEN @ ELSE rows]
  BY <1>5, <1>6
<1>9. v = Replied(s, d, pickup, gone, rows)
  BY <1>1, <1>3, <1>8 DEF Replied
<1>10. RepliedFields(s, d, rows, v)
  BY <1>2, <1>4, <1>7 DEF RepliedFields
<1> QED
  BY <1>9, <1>10

\* A first pass that asks for a review: what it returned is under review or refused.
LEMMA ReviewKeeps ==
  ASSUME WizInv, request.pass = "first", NEW review \in SUBSET Rows, NEW refused \in SUBSET Rows,
         NEW returned \in SUBSET Payload(request), returned = review \cup refused,
         Land(Payload(request) \ returned, request.seen.date),
         NEW t \in Tallies, t.rows = tally.rows \cup refused,
         t.imported = tally.imported + Cardinality(Payload(request) \ returned),
         NEW w \in WizState, w.step = "kmRatedReview",
         w.completed = wiz.completed \cup {wiz.cursor},
         w.cursor = wiz.cursor, w.group = wiz.group, w.depots = wiz.depots,
         w.selected = wiz.selected, w.failed = t.rows, w.km = review, w.kmSelected = review,
         wiz' = w, tally' = t, opened' = opened, request' = NoCall
  PROVE  WizInv'
<1> DEFINE P == Payload(request)
<1>1. /\ opened /\ wiz \in WizState /\ wiz.cursor \in Included(wiz)
      /\ wiz.step # "kmRatedReview" /\ P = {r \in Rows : wiz.group[r] = wiz.cursor}
      /\ \A d \in Depots : wiz.depots[d] = {r \in Rows : wiz.group[r] = d}
      /\ \A d \in Included(wiz) : d < wiz.cursor => d \in wiz.completed
      /\ returned \subseteq P /\ \A r \in P : ~IsIn(r)
  BY CallFacts
<1>2. /\ landed' \in LandedTables /\ NoRowTwice'
      /\ \A r \in Rows : IsIn(r)' <=> IsIn(r) \/ r \in P \ returned
      /\ t.imported = Cardinality(Taken')
  BY CallLands
<1> HIDE DEF P
<1>3. WizTypes' /\ ClosedIsFresh' /\ ClosureIsCurrent'
  BY <1>1, <1>2 DEF WizInv, WizTypes, ClosedIsFresh, ClosureIsCurrent, LandedTables, Tallies
<1>4. Included(w) = Included(wiz)
  BY DEF Included
<1>5. /\ w.step \notin EarlySteps /\ w.step \notin ImportSteps
      /\ w.step \notin {"bookPickup", "summary"}
  BY DEF EarlySteps, ImportSteps
<1>6. Bucketed'
  BY <1>1, <1>5 DEF Bucketed
<1>7. CursorFits'
  BY <1>1, <1>4, <1>5 DEF CursorFits
<1>8. LandedDone'
  <2>1. ASSUME NEW r \in Rows, IsIn(r)'
        PROVE  w.group[r] \in w.completed
    BY <1>1, <1>2, <2>1 DEF WizInv, LandedDone
  <2>2. ASSUME NEW r \in w.km
        PROVE  w.group[r] = w.cursor /\ ~IsIn(r)'
    BY <1>1, <1>2, <2>2
  <2> QED
    BY <2>1, <2>2 DEF LandedDone
<1>9. Accounted'
  <2>1. ASSUME NEW r \in Rows, w.group[r] \in w.completed
        PROVE  IsIn(r)' \/ r \in w.failed \/ r \in w.km
    <3>1. CASE wiz.group[r] = wiz.cursor
      BY <1>1, <1>2, <3>1
    <3>2. CASE wiz.group[r] \in wiz.completed
      <4>1. IsIn(r) \/ r \in tally.rows
        BY <1>1, <3>2 DEF WizInv, Accounted
      <4> QED
        BY <1>2, <4>1
    <3> QED
      BY <2>1, <3>1, <3>2
  <2> QED
    BY <2>1 DEF Accounted
<1> QED
  BY <1>2, <1>3, <1>6, <1>7, <1>8, <1>9 DEF WizInv, TallyIsWhatLanded

\* The reply of any other pass.
LEMMA DoneKeeps ==
  ASSUME WizInv, request.pass \in {"first", "km"}, NEW returned \in SUBSET Payload(request),
         Land(Payload(request) \ returned, request.seen.date),
         NEW later \in BOOLEAN, NEW t \in Tallies, t.rows = tally.rows \cup returned,
         t.imported = tally.imported + Cardinality(Payload(request) \ returned),
         t.failed = tally.failed + Cardinality(returned),
         NEW v \in WizState, v.completed = wiz.completed \cup {wiz.cursor},
         v.cursor = wiz.cursor, v.group = wiz.group, v.depots = wiz.depots,
         v.selected = wiz.selected, v.failed = t.rows, v.km = wiz.km,
         v.kmSelected = wiz.kmSelected,
         request' = NoCall, AdvanceOrFinish(request.seen, v, t, later)
  PROVE  WizInv' /\ Told
<1> DEFINE P == Payload(request)
<1>1. /\ opened /\ wiz \in WizState /\ wiz.cursor \in Depots /\ request.seen \in WizState
      /\ P \in SUBSET Rows /\ WizTypes
  BY CallFacts DEF Included, WizInv
<1>2. wiz.failed = tally.rows
  BY <1>1 DEF WizInv, Accounted
<1>3. /\ landed' \in LandedTables /\ NoRowTwice'
      /\ \A r \in Rows : IsIn(r)' <=> IsIn(r) \/ r \in P \ returned
      /\ t.imported = Cardinality(Taken')
  BY CallLands
<1>4. Included(v) = Included(wiz)
  BY DEF Included
<1>5. Settled(request.seen, v, t)
  BY <1>4, CallFacts DEF Settled, WizInv
<1>6. \A r \in Rows : IsIn(r)' => v.group[r] \in v.completed
  <2> SUFFICES ASSUME NEW r \in Rows, IsIn(r)' PROVE v.group[r] \in v.completed
    OBVIOUS
  <2>1. CASE r \in P
    BY <2>1, CallFacts
  <2>2. CASE IsIn(r)
    BY <1>1, <2>2 DEF WizInv, LandedDone
  <2> QED
    BY <1>3, <2>1, <2>2
<1>7. ASSUME NEW r \in Rows, v.group[r] \in v.completed
      PROVE  IsIn(r)' \/ r \in t.rows
  <2>1. CASE r \in P
    BY <1>3, <2>1
  <2>2. CASE wiz.group[r] = wiz.cursor /\ request.pass = "first"
    BY <2>1, <2>2, CallFacts
  <2>3. CASE wiz.group[r] \in wiz.completed
    <3>1. IsIn(r) \/ r \in tally.rows \/ (wiz.step = "kmRatedReview" /\ r \in wiz.km)
      BY <1>1, <2>3 DEF WizInv, Accounted
    <3>2. wiz.step = "kmRatedReview" /\ r \in wiz.km => r \in P \/ r \in tally.rows
      BY <1>2, CallFacts
    <3> QED
      BY <1>3, <2>1, <3>1, <3>2
  <2>4. CASE request.pass = "km"
    <3>1. wiz.cursor \in wiz.completed
      BY <2>4 DEF WizInv, ClosureIsCurrent, CursorFits, NoCall
    <3> QED
      BY <1>7, <2>3, <3>1
  <2> QED
    BY <1>7, <2>2, <2>3, <2>4
<1>8. returned \in SUBSET Rows
  BY <1>1
<1> HIDE DEF P
<1>9. WizInv' /\ Ended(request.seen, v, t)
  BY <1>1, <1>3, <1>5, <1>6, <1>7, AdvanceKeeps
<1>10. request # NoCall
  BY DEF NoCall
<1> QED
  BY <1>1, <1>8, <1>9, <1>10, EndTold DEF WizInv, ClosureIsCurrent

\* An import is answered: rows land, are returned for review, or are refused.
LEMMA ImportedKeeps ==
  ASSUME WizInv, NEW review \in SUBSET Rows, NEW refused \in SUBSET Rows, NEW pickup \in BOOLEAN,
         Imported(review, refused, pickup)
  PROVE  WizInv' /\ Told
<1> DEFINE c == request
           returned == review \cup refused
           n == Cardinality(Payload(c) \ returned)
           now == [MarkDone(wiz, Bucket(c.seen)) EXCEPT !.pickup = @ \/ pickup]
           later == c.seen.pickup \/ pickup
<1>1. /\ c.pass \in {"first", "km"} /\ returned \in SUBSET Payload(c) /\ request' = NoCall
      /\ Land(Payload(c) \ returned, c.seen.date)
  BY DEF Imported, KmPass, FirstPass
<1>2. /\ Bucket(c.seen) = wiz.cursor /\ wiz \in WizState /\ wiz.cursor \in Depots
      /\ c.seen \in WizState /\ opened
  BY <1>1, CallFacts DEF Included
<1>3. later \in BOOLEAN
  BY <1>2 DEF WizState
<1>4. PICK b \in BOOLEAN : now = [MarkDone(wiz, wiz.cursor) EXCEPT !.pickup = b]
  <2>1. MarkDone(wiz, wiz.cursor).pickup \in BOOLEAN
    BY <1>2, DoneState DEF WizState
  <2>2. now = [MarkDone(wiz, wiz.cursor) EXCEPT !.pickup = @ \/ pickup]
    BY <1>2
  <2>3. now = [MarkDone(wiz, wiz.cursor) EXCEPT !.pickup =
                 MarkDone(wiz, wiz.cursor).pickup \/ pickup]
    BY <2>2
  <2> QED
    BY <2>1, <2>3
<1>5. tally \in Tallies /\ wiz.failed = tally.rows
  BY <1>2 DEF WizInv, WizTypes, Accounted, Tallies
<1>6. n \in Nat
  BY <1>1, CallLands
<1>7. Cardinality(refused) \in Nat /\ Cardinality(returned) \in Nat
  <2>1. IsFiniteSet(refused) /\ returned \in SUBSET Rows
    BY RowsAssumption, FS_Subset, Zenon
  <2>2. IsFiniteSet(returned)
    BY <2>1, RowsAssumption, FS_Subset, Zenon
  <2> QED
    BY <2>1, <2>2, FS_CardinalityType, Zenon
<1>8. CASE c.pass = "first" /\ review # {}
  <2> DEFINE t == FirstResult(tally, n, refused)
             v == [now EXCEPT !.failed = IF refused = {} THEN @ ELSE t.rows]
             w == Goto(KmRated(v, review), "kmRatedReview")
  <2>1. tally' = t /\ opened' = opened /\ wiz' = w
    BY <1>8 DEF Imported
  <2>2. t \in Tallies /\ t.imported = tally.imported + n /\ t.rows = tally.rows \cup refused
    <3>1. PICK k \in Nat, m \in Nat : k = Cardinality(refused) /\ m = n
      BY <1>6, <1>7
    <3>2. refused \in SUBSET Rows
      OBVIOUS
    <3>3. t = Counted(tally, m, k, refused)
      BY <3>1 DEF FirstResult
    <3>4. /\ Counted(tally, m, k, refused) \in Tallies
          /\ Counted(tally, m, k, refused).imported = tally.imported + m
          /\ Counted(tally, m, k, refused).rows = tally.rows \cup refused
      BY <1>5, <3>2, CountedTally
    <3> HIDE DEF n, t
    <3> QED
      BY <3>1, <3>3, <3>4
  <2> HIDE DEF t, now
  <2>3. /\ v \in WizState /\ v.completed = wiz.completed \cup {wiz.cursor}
        /\ v.cursor = wiz.cursor /\ v.group = wiz.group /\ v.depots = wiz.depots
        /\ v.selected = wiz.selected /\ v.failed = t.rows
    <3>1. t.rows \in SUBSET Rows /\ (refused = {} => t.rows = wiz.failed)
      BY <1>5, <2>2 DEF Tallies
    <3>3. PICK rows \in SUBSET Rows : rows = t.rows
      BY <3>1
    <3>4. refused = {} => rows = wiz.failed
      BY <3>1, <3>3
    <3>5. v = Replied(wiz, wiz.cursor, b, refused, rows)
      BY <1>4, <3>3 DEF Replied
    <3> HIDE DEF v
    <3>6. RepliedFields(wiz, wiz.cursor, rows, v)
      BY <1>2, <3>4, <3>5, RepliedState, Zenon
    <3> QED
      BY <3>3, <3>6 DEF RepliedFields
  <2> HIDE DEF v
  <2>4. /\ w \in WizState /\ w.step = "kmRatedReview" /\ w.completed = v.completed
        /\ w.cursor = v.cursor /\ w.group = v.group /\ w.depots = v.depots
        /\ w.selected = v.selected /\ w.failed = v.failed /\ w.km = review
        /\ w.kmSelected = review
    <3>1. PICK x : x = KmRated(v, review)
      OBVIOUS
    <3>2. /\ x \in WizState /\ x.completed = v.completed
          /\ x.cursor = v.cursor /\ x.group = v.group /\ x.depots = v.depots
          /\ x.selected = v.selected /\ x.failed = v.failed /\ x.km = review
          /\ x.kmSelected = review
      BY <2>3, <3>1, KmRatedState
    <3>3. "kmRatedReview" \in Steps /\ w = Goto(x, "kmRatedReview")
      BY <3>1 DEF Steps
    <3> HIDE DEF w
    <3> QED
      BY <3>2, <3>3, GotoState
  <2>5. PICK rs \in SUBSET Payload(request) : rs = returned
    BY <1>1
  <2> HIDE DEF w, returned
  <2>6. rs = review \cup refused
    BY <2>5 DEF returned
  <2>7. WizInv'
    BY <1>1, <1>8, <2>1, <2>2, <2>3, <2>4, <2>5, <2>6, ReviewKeeps
  <2>8. Told
    BY <1>2, <2>1, <2>4 DEF Told, At
  <2> QED
    BY <2>7, <2>8
<1>9. CASE ~(c.pass = "first" /\ review # {})
  <2> DEFINE t == Counted(tally, n, Cardinality(returned), returned)
             v == [now EXCEPT !.failed = IF returned = {} THEN @ ELSE t.rows]
  <2>1. AdvanceOrFinish(c.seen, v, t, later)
    BY <1>9 DEF Imported
  <2>2. /\ t \in Tallies /\ t.imported = tally.imported + n /\ t.rows = tally.rows \cup returned
        /\ t.failed = tally.failed + Cardinality(returned)
    <3>1. returned \in SUBSET Rows
      OBVIOUS
    <3>2. PICK k \in Nat, m \in Nat : k = Cardinality(returned) /\ m = n
      BY <1>6, <1>7
    <3>3. t = Counted(tally, m, k, returned)
      BY <3>2
    <3> HIDE DEF n, returned, t
    <3>4. /\ Counted(tally, m, k, returned) \in Tallies
          /\ Counted(tally, m, k, returned).imported = tally.imported + m
          /\ Counted(tally, m, k, returned).failed = tally.failed + k
          /\ Counted(tally, m, k, returned).rows = tally.rows \cup returned
      BY <1>5, <3>1, CountedTally
    <3> QED
      BY <3>2, <3>3, <3>4
  <2> HIDE DEF t, now
  <2>3. /\ v \in WizState /\ v.completed = wiz.completed \cup {wiz.cursor}
        /\ v.cursor = wiz.cursor /\ v.group = wiz.group /\ v.depots = wiz.depots
        /\ v.selected = wiz.selected /\ v.failed = t.rows /\ v.km = wiz.km
        /\ v.kmSelected = wiz.kmSelected
    <3>1. t.rows \in SUBSET Rows /\ (returned = {} => t.rows = wiz.failed)
      BY <1>5, <2>2 DEF Tallies
    <3>3. PICK rows \in SUBSET Rows : rows = t.rows
      BY <3>1
    <3>4. returned = {} => rows = wiz.failed
      BY <3>1, <3>3
    <3>5. v = Replied(wiz, wiz.cursor, b, returned, rows)
      BY <1>4, <3>3 DEF Replied
    <3> HIDE DEF v
    <3>6. RepliedFields(wiz, wiz.cursor, rows, v)
      BY <1>2, <3>4, <3>5, RepliedState, Zenon
    <3> QED
      BY <3>3, <3>6 DEF RepliedFields
  <2> HIDE DEF v, later, returned
  <2> QED
    BY <1>1, <1>3, <2>1, <2>2, <2>3, DoneKeeps
<1> QED
  BY <1>8, <1>9

-------------------------------------------------------------------------------
(* The invariant, and what follows from it                                 *)

\* Nothing is open and nothing has landed.
LEMMA WizStarts == ASSUME WizInit PROVE WizInv
<1>1. /\ opened = FALSE /\ wiz = Fresh /\ tally = NoResults /\ request = NoCall
      /\ landed = [r \in Rows |-> [d \in BookDates |-> 0]]
  BY DEF WizInit
<1>2. /\ landed \in [Rows -> [BookDates -> Nat]]
      /\ \A r \in Rows : \A d \in BookDates : landed[r][d] = 0
  BY <1>1
<1>3. /\ Fresh.step = "newImport" /\ Fresh.completed = {} /\ Fresh.kmSelected = Fresh.km
  BY DEF Fresh
<1>4. NoResults \in [imported : Nat, failed : Nat, rows : SUBSET Rows]
  BY DEF NoResults
<1>5. WizTypes /\ ClosedIsFresh /\ Bucketed /\ CursorFits
  BY <1>1, <1>2, <1>3, <1>4, FreshState
     DEF WizTypes, ClosedIsFresh, Bucketed, CursorFits, EarlySteps, ImportSteps
<1>6. /\ LandedDone /\ Accounted /\ ClosureIsCurrent /\ wiz.kmSelected \subseteq wiz.km
      /\ NoRowTwice /\ TallyIsWhatLanded
  BY <1>1, <1>2, <1>3
     DEF LandedDone, Accounted, ClosureIsCurrent, NoRowTwice, TallyIsWhatLanded
<1> QED
  BY <1>5, <1>6 DEF WizInv

\* A step that leaves the wizard alone.
LEMMA WizStays == ASSUME WizInv, UNCHANGED wizVars PROVE WizInv'
<1>1. UNCHANGED <<opened, wiz, tally, request, landed>>
  BY DEF wizVars
<1>2. WizTypes' /\ ClosedIsFresh' /\ Bucketed' /\ CursorFits' /\ ClosureIsCurrent'
  BY <1>1 DEF WizInv, WizTypes, ClosedIsFresh, Bucketed, CursorFits, Included, ClosureIsCurrent,
         LeftOut
<1>3. \A r \in Rows : IsIn(r)' = IsIn(r)
  BY <1>1, SameTable
<1>4. LandedDone'
  <2>1. \A r \in wiz.km : r \in Rows
    BY DEF WizInv, WizTypes, WizState
  <2> QED
    BY <1>1, <1>3, <2>1 DEF WizInv, LandedDone
<1>5. Accounted'
  BY <1>1, <1>3 DEF WizInv, Accounted
<1> QED
  BY <1>1, <1>2, <1>4, <1>5, SameTable DEF WizInv, TallyIsWhatLanded

\* Each step of a careful operator or of the server.
LEMMA WizStep == ASSUME WizInv, Careful, [WizNext]_wizVars PROVE WizInv'
<1>1. CASE Prepare
  BY <1>1, PrepareKeeps
<1>2. CASE Send
  BY <1>2, SubmitKeeps, ConfirmKeeps, UploadKmKeeps, SkipKeeps, PickupKeeps DEF Send
<1>3. CASE Reply
  <2>1. ASSUME NEW review \in SUBSET Rows, NEW refused \in SUBSET Rows, NEW pickup \in BOOLEAN,
               Imported(review, refused, pickup)
        PROVE  WizInv'
    BY <2>1, ImportedKeeps
  <2> QED
    BY <1>3, <2>1, RefusedKeeps, RejectedKeeps, PreviewKeeps DEF Reply
<1>4. CASE UNCHANGED wizVars
  BY <1>4, WizStays
<1> QED
  BY <1>1, <1>2, <1>3, <1>4 DEF WizNext

\* An operator who leaves neither a call under way nor a started import keeps WizInv.
LEMMA WizAlways == ASSUME Careful PROVE WizSpec => []WizInv
<1>1. WizInit => WizInv
  BY WizStarts
<1>2. WizInv /\ [WizNext]_wizVars => WizInv'
  BY WizStep
<1> QED
  BY <1>1, <1>2, PTL DEF WizSpec

\* For every file, depots, dates and replies: no row of the file is put on the server twice.
THEOREM RowsLandOnce == ASSUME Careful PROVE WizSpec => []NoRowTwice
<1>1. WizInv => NoRowTwice
  BY DEF WizInv
<1> QED
  BY <1>1, WizAlways, PTL

\* The count the operator is shown is what the server took, over every depot, pass and review.
THEOREM TallyTells == ASSUME Careful PROVE WizSpec => []TallyIsWhatLanded
<1>1. WizInv => TallyIsWhatLanded
  BY DEF WizInv
<1> QED
  BY <1>1, WizAlways, PTL

\* The operator's steps before the summary do not lead to it.
LEMMA PrepareElsewhere == ASSUME WizInv, Prepare PROVE ~At("summary")'
<1> SUFFICES ASSUME opened', wiz'.step = "summary" PROVE FALSE
  BY DEF At
<1>1. wiz \in WizState /\ Fresh.step = "newImport" /\ (~opened => wiz = Fresh)
  BY DEF WizInv, WizTypes, ClosedIsFresh, Fresh
<1>2. CASE OpenWizard \/ CloseWizard \/ SwitchClient
  BY <1>1, <1>2 DEF OpenWizard, CloseWizard, SwitchClient, Move
<1>3. ASSUME NEW s \in WizState, NEW step \in Steps \ {"summary"},
             wiz' = Goto(s, step) \/ wiz' = Seeded(Goto(s, step))
      PROVE  FALSE
  BY <1>3, GotoState, SeededState
<1>4. CASE NextStep \/ Back
  BY <1>1, <1>3, <1>4 DEF NextStep, Back, Move, Steps
<1>5. CASE StartDepots
  <2>1. NextPending(wiz, 0) \in Depots
    BY <1>1, <1>5, PendingDepot DEF StartDepots, Included
  <2>2. AtDepot(wiz, NextPending(wiz, 0)) \in WizState
    BY <1>1, <2>1, AtDepotState
  <2> QED
    BY <1>3, <1>5, <2>2 DEF StartDepots, Move, Steps
<1>6. ASSUME NEW group \in [Rows -> Depots \cup {Unmatched}], Upload(group) PROVE FALSE
  BY <1>1, <1>6 DEF Upload, Move, Goto, WizState
<1>7. ASSUME NEW r \in Rows, NEW d \in Depots \cup {Unmatched}, Correct(r, d) PROVE FALSE
  BY <1>1, <1>7 DEF Correct, At, Move, WizState
<1>8. ASSUME NEW d \in Depots, ToggleDepot(d) PROVE FALSE
  BY <1>1, <1>8 DEF ToggleDepot, At, Move, WizState
<1>9. ASSUME NEW date \in BookDates, Pick(date) PROVE FALSE
  BY <1>1, <1>9 DEF Pick, At, Move, WizState
<1>10. ASSUME NEW r \in Rows, ToggleKmRow(r) PROVE FALSE
  BY <1>1, <1>10 DEF ToggleKmRow, At, Move, WizState
<1> QED
  BY <1>2, <1>4, <1>5, <1>6, <1>7, <1>8, <1>9, <1>10 DEF Prepare

\* Each step tells of the rows left, when it comes to the summary or closes the wizard.
LEMMA StepTold ==
  ASSUME WizInv, WizInv', [WizNext]_wizVars
  PROVE  /\ At("summary")' => Remaining \subseteq wiz'.failed
         /\ ClosesItself => Remaining \subseteq LeftOut
<1>1. ASSUME NEW review \in SUBSET Rows, NEW refused \in SUBSET Rows, NEW pickup \in BOOLEAN,
             Imported(review, refused, pickup)
      PROVE  Told
  BY <1>1, ImportedKeeps
<1>2. CASE FinishPickup \/ SkipKmRows \/ AllRefused
  BY <1>2, PickupKeeps, SkipKeeps, RefusedKeeps DEF Told, ClosesItself
<1>3. CASE UNCHANGED <<opened, wiz>>
  BY <1>3, RestListed DEF ClosesItself
<1>4. ASSUME NEW hasTrucks \in BOOLEAN, Previewed(hasTrucks)
      PROVE  Told
  <2>1. opened' = opened /\ wiz \in WizState
    BY <1>4 DEF Previewed, WizInv, WizTypes
  <2>2. wiz' = wiz \/ wiz' = Goto(wiz, "truckPreview")
    BY <1>4 DEF Previewed
  <2>3. wiz'.depots = wiz.depots /\ wiz'.selected = wiz.selected
    BY <2>1, <2>2, GotoState DEF Steps
  <2> QED
    BY <2>1, <2>3, RestListed DEF Told
<1>5. CASE Reply
  BY <1>1, <1>2, <1>3, <1>4, <1>5 DEF Reply, Rejected, Told, ClosesItself
<1>6. ASSUME ClosesItself PROVE Remaining \subseteq LeftOut
  BY <1>2, <1>5, <1>6 DEF ClosesItself
<1>7. CASE SubmitPicks \/ ConfirmImport \/ UploadKmRows
  <2>1. opened /\ wiz \in WizState /\ wiz.step # "summary"
    BY <1>7 DEF SubmitPicks, ConfirmImport, UploadKmRows, At, WizInv, WizTypes
  <2>2. \/ wiz' = wiz \/ wiz' = Goto(wiz, "rateByDistance")
        \/ \E rows : wiz' = [wiz EXCEPT !.failed = rows]
    BY <1>7 DEF SubmitPicks, ConfirmImport, UploadKmRows, Move
  <2>3. wiz'.step # "summary"
    BY <2>1, <2>2, GotoState DEF Steps, WizState
  <2> QED
    BY <1>6, <2>3 DEF At
<1>8. CASE Prepare
  BY <1>6, <1>8, PrepareElsewhere
<1> QED
  BY <1>2, <1>3, <1>5, <1>7, <1>8 DEF WizNext, Send, wizVars

\* SummaryListsTheRest, for every file, depots, dates and replies: what is left is listed when the
\* summary is shown, and a wizard that closes without one leaves only what the operator unticked in
\* the review just answered.
THEOREM SummaryTells == ASSUME Careful PROVE WizSpec => SummaryListsTheRest
<1>1. WizInv /\ WizInv' /\ [WizNext]_wizVars =>
        [LET rest == {r \in UNION {wiz.depots[d] : d \in Included(wiz)} : ~IsIn(r)'}
         IN  /\ At("summary")' => rest \subseteq wiz'.failed
             /\ ClosesItself => rest \subseteq (IF request # NoCall /\ request.pass = "km"
                                              THEN request.seen.km \ request.seen.kmSelected
                                              ELSE {})]_wizVars
  BY StepTold DEF Remaining, LeftOut
<1> QED
  BY <1>1, WizAlways, PTL DEF WizSpec, SummaryListsTheRest

-------------------------------------------------------------------------------
(* The types of the import list                                           *)

\* A finite set laid out as a sequence.
LEMMA LaidOut == ASSUME NEW S, IsFiniteSet(S) PROVE SetToSeq(S) \in Seq(S)
<1>1. PICK n \in Nat : ExistsBijection(1 .. n, S) /\ Cardinality(S) = n
  BY FS_NatBijection, FS_CountingElements, FS_CardinalityType
<1>2. \E f \in [1 .. n -> S] : IsInjective(f)
  BY <1>1 DEF ExistsBijection, Bijection, Injection, IsInjective
<1>3. SetToSeq(S) \in [1 .. n -> S]
  BY <1>1, <1>2 DEF SetToSeq
<1> QED
  BY <1>3

\* The jobs that a batch deletion has left and the keys it has deleted are of the list; no row is taken
\* that is not there.
BatchTypes ==
  /\ ilServer.taken \subseteq ilServer.rows
  /\ ilBulk \in [left : Seq(IlJobs), gone : SUBSET IlKeys]

\* Deletions start from the rows asked about, and go one by one.
LEMMA BatchStep == IlTypes /\ BatchTypes /\ [IlNext]_ilVars => BatchTypes'
<1> SUFFICES ASSUME IlTypes, BatchTypes, [IlNext]_ilVars PROVE BatchTypes'
  OBVIOUS
<1>0. /\ ilServer \in [rows : SUBSET IlJobs, taken : SUBSET IlJobs] /\ ilAsk.rows \subseteq IlJobs
      /\ NoBulk \in [left : Seq(IlJobs), gone : SUBSET IlKeys]
  BY DEF IlTypes, LoadAsk, NoBulk
<1> USE DEF BatchTypes
<1>1. CASE UNCHANGED <<ilServer, ilBulk>>
  BY <1>1
<1>2. ASSUME NEW row \in IlJobs, WizardImports(row) \/ OthersImport(row) PROVE BatchTypes'
  BY <1>0, <1>2 DEF WizardImports, OthersImport
<1>3. CASE AgreeSelected
  <2>1. SetToSeq(ilAsk.rows) \in Seq(IlJobs)
    <3>1. IsFiniteSet(ilAsk.rows)
      BY <1>0, IlAssumption, FS_Subset
    <3>2. SetToSeq(ilAsk.rows) \in Seq(ilAsk.rows)
      BY <3>1, LaidOut
    <3> QED
      BY <3>2, <1>0
  <2>2. ilBulk' = [NoBulk EXCEPT !.left = SetToSeq(ilAsk.rows)] /\ UNCHANGED ilServer
    BY <1>3 DEF AgreeSelected
  <2> QED
    BY <2>1, <2>2, <1>0
<1>4. ASSUME NEW row, NEW ok \in BOOLEAN, IlDeleted(row, ok)
      PROVE  ilServer'.taken \subseteq ilServer'.rows
  BY <1>0, <1>4 DEF IlDeleted, IlDeletable
<1>5. ASSUME NEW d \in ilOnes, DeleteOne(d) PROVE BatchTypes'
  <2>1. PICK ok \in BOOLEAN : IlDeleted(d.row, ok)
    BY <1>5 DEF DeleteOne
  <2> QED
    BY <1>5, <2>1, <1>4 DEF DeleteOne
<1>6. CASE DeleteNext
  <2> DEFINE gone(ok) == ilBulk.gone \cup (IF ok THEN {RowKey(Head(ilBulk.left))} ELSE {})
  <2>1. PICK ok \in BOOLEAN : /\ IlDeleted(Head(ilBulk.left), ok)
                              /\ ilBulk' = NoBulk \/ ilBulk' = [left |-> Tail(ilBulk.left), gone |-> gone(ok)]
    BY <1>6, Zenon DEF DeleteNext
  <2>2. Head(ilBulk.left) \in IlJobs /\ Tail(ilBulk.left) \in Seq(IlJobs)
    BY <1>6 DEF DeleteNext
  <2>3. gone(ok) \subseteq IlKeys
    BY <2>2, RowHasKey
  <2>4. ilServer'.taken \subseteq ilServer'.rows
    BY <2>1, <1>4
  <2> HIDE DEF gone
  <2>5. [left |-> Tail(ilBulk.left), gone |-> gone(ok)] \in [left : Seq(IlJobs), gone : SUBSET IlKeys]
    BY <2>2, <2>3
  <2> QED
    BY <2>1, <2>4, <2>5, <1>0
<1>7. \/ UNCHANGED <<ilServer, ilBulk>> \/ \E row \in IlJobs : WizardImports(row) \/ OthersImport(row)
      \/ AgreeSelected \/ (\E d \in ilOnes : DeleteOne(d)) \/ DeleteNext
  BY DEF IlNext, ilVars, IlRefresh, ToggleAllImports, IlLooks, AskDeleteSelected, IlConfirm, IlDecline, AgreeOne,
     ServeImports, ImportsLoaded, SetTypeFilter, ToggleRowSelected, AskDeleteRow
<1> QED
  BY <1>1, <1>2, <1>3, <1>5, <1>6, <1>7

\* Whatever is loaded, imported and deleted, the list, its ticks and its deletions are about rows of the
\* tables.
THEOREM ImportListTypesHold == IlSpec => []IlTypeOK
<1>1. IlInit => IlTypes /\ BatchTypes
  <2>1. IlInit => BatchTypes
    BY DEF IlInit, BatchTypes, NoBulk
  <2> QED
    BY <2>1, IlStart
<1>2. IlTypes /\ BatchTypes => IlTypeOK
  BY DEF IlTypes, BatchTypes, IlTypeOK, ListRecord, LoadAsk
<1> QED
  BY <1>1, <1>2, IlStep, BatchStep, PTL DEF IlSpec

-------------------------------------------------------------------------------
(* The types of the historic archive                                      *)

FileSize == [good : Nat, bad : Nat]

\* A batch that was recorded, or none.
BatchOrNone == DOMAIN haBatches \cup {0}

\* The audit rows are numbered from 1 on, and the ids archived are finitely many.
TablesTyped ==
  /\ haBatches = [b \in DOMAIN haBatches |-> haBatches[b]]
  /\ \E k \in Nat : DOMAIN haBatches = 1 .. k
  /\ \A b \in DOMAIN haBatches : haBatches[b] \in [start : Int, good : Nat, bad : Nat]
  /\ HaIds \subseteq Int /\ IsFiniteSet(HaIds)

\* A commit on the server names the batch it recorded, if any.
TxTyped(t) ==
  /\ DOMAIN t = {"n", "file", "phase", "start", "batch"}
  /\ t.file \in FileSize /\ t.start \in Int /\ t.batch \in BatchOrNone

CommitsTyped == \A t \in haTxs : TxTyped(t)

\* The page shows and asks about batches recorded.
FormTyped(form) ==
  /\ DOMAIN form = HaFormFields /\ form.file \in FileSize /\ form.result \in BatchOrNone
  /\ form.list \subseteq DOMAIN haBatches
  /\ \A list \in form.loads : list \subseteq DOMAIN haBatches

LookRows == [batch : BatchOrNone, tab : {"jobs", "errors"}, detail : BatchOrNone,
             jobs : [of : BatchOrNone, from : Nat], fetched : BOOLEAN, waits : BOOLEAN]

CallRows == [what : {"detail", "jobs"}, batch : DOMAIN haBatches, from : Nat]

DrillTyped == haLook \in LookRows /\ haCalls \subseteq CallRows

ArchiveTyped == TablesTyped /\ CommitsTyped /\ FormTyped(haForm) /\ DrillTyped

\* What is shown stays typed when batches are only added.
LEMMA GrownTyped ==
  ASSUME FormTyped(haForm), DrillTyped, UNCHANGED <<haForm, haLook, haCalls>>,
         DOMAIN haBatches \subseteq DOMAIN haBatches'
  PROVE  FormTyped(haForm)' /\ DrillTyped'
<1>1. BatchOrNone \subseteq BatchOrNone'
  BY DEF BatchOrNone
<1>2. FormTyped(haForm)'
  BY <1>1 DEF FormTyped
<1>3. haLook'.batch \in BatchOrNone' /\ haLook'.detail \in BatchOrNone' /\ haLook'.jobs.of \in BatchOrNone'
  BY <1>1 DEF DrillTyped, LookRows, CallRows
<1>4. haLook' \in [batch : BatchOrNone', tab : {"jobs", "errors"}, detail : BatchOrNone',
                   jobs : [of : BatchOrNone', from : Nat], fetched : BOOLEAN, waits : BOOLEAN]
  BY <1>1 DEF DrillTyped, LookRows, CallRows
<1>5. haCalls' \subseteq [what : {"detail", "jobs"}, batch : DOMAIN haBatches', from : Nat]
  BY DEF DrillTyped, LookRows, CallRows
<1> QED
  BY <1>2, <1>4, <1>5 DEF DrillTyped, LookRows, CallRows

\* A range starts at a whole number.
LEMMA StartIsInt == ASSUME TablesTyped PROVE StartId \in Int
<1> DEFINE S == HaIds \cup HaLive \cup {0}
           last == HaInt(Max(S) + 1)
<1>1. S \in SUBSET Int /\ IsFiniteSet(S) /\ S # {}
  <2>1. IsFiniteSet(HaIds \cup HaLive)
    BY HaAssumption, FS_Union DEF TablesTyped
  <2>2. IsFiniteSet(S)
    BY <2>1, FS_AddElement
  <2> QED
    BY <2>2, HaAssumption DEF TablesTyped
<1>2. Max(S) \in Int
  <2> HIDE DEF S
  <2> QED
    BY <1>1, FiniteMax
<1>3. last \in Int
  <2> HIDE DEF S
  <2> QED
    BY <1>2, HaAssumption DEF HaInt
<1>4. StartId = IF last > HaFloor THEN last ELSE HaFloor
  BY DEF StartId
<1> HIDE DEF last, S
<1> QED
  BY <1>3, <1>4, HaAssumption

\* A batch recorded gets the next number.
LEMMA RecordedTyped ==
  ASSUME TablesTyped, NEW start \in Int, NEW file \in FileSize, Recorded(start, file)
  PROVE  /\ NewBatch \in DOMAIN haBatches' /\ DOMAIN haBatches \subseteq DOMAIN haBatches'
         /\ haBatches' = [b \in DOMAIN haBatches' |-> haBatches'[b]]
         /\ \E k \in Nat : DOMAIN haBatches' = 1 .. k
         /\ \A b \in DOMAIN haBatches' : haBatches'[b] \in [start : Int, good : Nat, bad : Nat]
<1>1. PICK k \in Nat : DOMAIN haBatches = 1 .. k
  BY DEF TablesTyped
<1>2. NewBatch = k + 1
  <2>1. Cardinality(1 .. k) = k
    BY FS_Interval
  <2> QED
    BY <1>1, <2>1 DEF NewBatch
<1>3. haBatches' = [b \in 1 .. k + 1 |->
                      IF b = k + 1 THEN [start |-> start, good |-> file.good, bad |-> file.bad]
                      ELSE haBatches[b]]
  <2>1. (1 .. k) \cup {k + 1} = 1 .. k + 1
    OBVIOUS
  <2> QED
    BY <1>1, <1>2, <2>1 DEF Recorded
<1>4. [start |-> start, good |-> file.good, bad |-> file.bad] \in [start : Int, good : Nat, bad : Nat]
  BY DEF FileSize
<1>5. \A b \in 1 .. k : haBatches[b] \in [start : Int, good : Nat, bad : Nat]
  BY <1>1 DEF TablesTyped
<1>6. DOMAIN haBatches' = 1 .. k + 1
  BY <1>3
<1>7. ASSUME NEW b \in 1 .. k + 1 PROVE haBatches'[b] \in [start : Int, good : Nat, bad : Nat]
  BY <1>3, <1>4, <1>5
<1>8. k + 1 \in Nat /\ k + 1 \in 1 .. k + 1 /\ 1 .. k \subseteq 1 .. k + 1
  OBVIOUS
<1>9. haBatches' = [b \in DOMAIN haBatches' |-> haBatches'[b]]
  BY <1>3
<1> QED
  BY <1>1, <1>2, <1>6, <1>7, <1>8, <1>9

\* The others' commits stay typed when one is replaced by a typed one.
LEMMA TxsTyped ==
  ASSUME CommitsTyped, NEW t \in haTxs, NEW u, TxTyped(u)', haTxs' = (haTxs \ {t}) \cup {u},
         DOMAIN haBatches \subseteq DOMAIN haBatches'
  PROVE  CommitsTyped'
  BY DEF CommitsTyped, TxTyped, BatchOrNone

\* A commit that moves on.
LEMMA MovedTyped ==
  ASSUME CommitsTyped, NEW t \in haTxs, NEW phase, NEW start \in Int, HaStep(t, phase, start), UNCHANGED haBatches
  PROVE  CommitsTyped'
<1>1. TxTyped([t EXCEPT !.phase = phase, !.start = start])'
  BY DEF CommitsTyped, TxTyped, BatchOrNone
<1> QED
  BY <1>1, TxsTyped DEF HaStep

\* A commit that begins.
LEMMA BegunTyped ==
  ASSUME CommitsTyped, NEW file \in FileSize, HaBegin(file), UNCHANGED haBatches
  PROVE  CommitsTyped'
  BY DEF CommitsTyped, TxTyped, BatchOrNone, HaBegin

\* A commit records its batch.
LEMMA DoneTyped ==
  ASSUME TablesTyped, CommitsTyped, NEW t \in haTxs, NEW start \in Int, Recorded(start, t.file),
         haTxs' = (haTxs \ {t}) \cup {[t EXCEPT !.phase = "done", !.batch = NewBatch]},
         HaIds' \subseteq Int, IsFiniteSet(HaIds')
  PROVE  TablesTyped' /\ CommitsTyped' /\ DOMAIN haBatches \subseteq DOMAIN haBatches'
<1>1. t.file \in FileSize
  BY DEF CommitsTyped, TxTyped
<1>2. /\ NewBatch \in DOMAIN haBatches' /\ DOMAIN haBatches \subseteq DOMAIN haBatches'
      /\ haBatches' = [b \in DOMAIN haBatches' |-> haBatches'[b]]
      /\ \E k \in Nat : DOMAIN haBatches' = 1 .. k
      /\ \A b \in DOMAIN haBatches' : haBatches'[b] \in [start : Int, good : Nat, bad : Nat]
  BY <1>1, RecordedTyped
<1>0. PICK n : n = NewBatch
  OBVIOUS
<1> DEFINE u == [t EXCEPT !.phase = "done", !.batch = n]
<1>3. TxTyped(t)
  BY DEF CommitsTyped
<1>4. /\ DOMAIN u = {"n", "file", "phase", "start", "batch"} /\ u.file = t.file /\ u.start = t.start
      /\ u.batch = n
  BY <1>3 DEF TxTyped
<1>5. haTxs' = (haTxs \ {t}) \cup {u}
  BY <1>0
<1> HIDE DEF u
<1>6. CommitsTyped'
  <2>0. DOMAIN t = {"n", "file", "phase", "start", "batch"} /\ t.file \in FileSize /\ t.start \in Int
    BY <1>3 DEF TxTyped
  <2>1. ASSUME NEW v \in haTxs PROVE TxTyped(v)'
    BY <1>2 DEF CommitsTyped, TxTyped, BatchOrNone
  <2>2. ASSUME NEW v, DOMAIN v = {"n", "file", "phase", "start", "batch"}, v.file \in FileSize, v.start \in Int,
               v.batch \in DOMAIN haBatches'
        PROVE  TxTyped(v)'
    BY <2>2 DEF TxTyped, BatchOrNone
  <2>3. TxTyped(u)'
    <3>1. u.file \in FileSize /\ u.start \in Int /\ u.batch \in DOMAIN haBatches'
      BY <1>0, <1>2, <1>4, <2>0
    <3> QED
      BY <1>4, <2>2, <3>1
  <2> QED
    BY <1>5, <2>1, <2>3 DEF CommitsTyped
<1>7. TablesTyped'
  BY <1>2 DEF TablesTyped
<1> QED
  BY <1>2, <1>6, <1>7

\* The server keeps the types.
LEMMA ServerTyped == ASSUME ArchiveTyped, HaServer PROVE ArchiveTyped'
<1>1. TablesTyped /\ CommitsTyped /\ FormTyped(haForm) /\ DrillTyped
  BY DEF ArchiveTyped
<1>2. ASSUME UNCHANGED haRows PROVE HaIds' = HaIds
  BY <1>2 DEF HaIds
<1>3. ASSUME TablesTyped', CommitsTyped', DOMAIN haBatches \subseteq DOMAIN haBatches' PROVE ArchiveTyped'
  BY <1>1, <1>3, GrownTyped DEF ArchiveTyped, HaServer
<1>4. ASSUME UNCHANGED <<haRows, haBatches>>, CommitsTyped' PROVE ArchiveTyped'
  BY <1>1, <1>2, <1>3, <1>4 DEF TablesTyped
<1>5. ASSUME NEW t \in haTxs, HaAllocate(t) PROVE ArchiveTyped'
  BY <1>1, <1>4, <1>5, StartIsInt, MovedTyped DEF HaAllocate
<1>6. ASSUME NEW t \in haTxs, HaInsert(t) \/ HaFail(t) PROVE ArchiveTyped'
  <2>1. t.start \in Int
    BY <1>1 DEF CommitsTyped, TxTyped
  <2>2. UNCHANGED <<haRows, haBatches>> /\ \E phase : HaStep(t, phase, t.start)
    BY <1>6 DEF HaInsert, HaFail, RolledBack
  <2> QED
    BY <1>1, <1>4, <2>1, <2>2, MovedTyped
<1>7. ASSUME NEW t \in haTxs, HaCommitTx(t) PROVE ArchiveTyped'
  <2>1. t.start \in Int /\ t.file \in FileSize /\ t.file.good \in Nat
    BY <1>1 DEF CommitsTyped, TxTyped, FileSize
  <2>2. TxIds(t) \subseteq Int /\ IsFiniteSet(TxIds(t))
    <3>1. IsFiniteSet(0 .. t.file.good - 1)
      <4>1. t.file.good - 1 \in Int /\ 0 \in Int
        BY <2>1
      <4>. QED
        BY <4>1, FS_Interval
    <3>2. IsFiniteSet(RangeOf(t.start, t.file.good))
      <4> DEFINE S == 0 .. t.file.good - 1
                 f == [i \in S |-> HaInt(t.start + i)]
                 T == {f[i] : i \in S}
      <4>1. IsFiniteSet(T)
        <5>1. f \in Surjection(S, T)
          BY DEF Surjection
        <5> HIDE DEF f, T, S
        <5> QED
          BY <3>1, <5>1, FS_Surjection DEF S
      <4>2. T = RangeOf(t.start, t.file.good)
        BY DEF RangeOf
      <4> QED
        BY <4>1, <4>2
    <3>3. \A i \in 0 .. t.file.good - 1 : HaInt(t.start + i) \in Int
      BY <2>1, HaAssumption DEF HaInt
    <3> QED
      BY <3>2, <3>3 DEF TxIds, RangeOf
  <2>3. HaIds' = HaIds \cup TxIds(t)
    <3> DEFINE new == {[id |-> id, by |-> t.n] : id \in TxIds(t)}
    <3>1. haRows' = haRows \cup new
      BY <1>7 DEF HaCommitTx
    <3>2. {row.id : row \in new} = TxIds(t)
      <4>1. ASSUME NEW i \in TxIds(t) PROVE i \in {row.id : row \in new}
        <5>1. [id |-> i, by |-> t.n] \in new /\ [id |-> i, by |-> t.n].id = i
          OBVIOUS
        <5> QED
          BY <5>1
      <4>2. ASSUME NEW row \in new PROVE row.id \in TxIds(t)
        OBVIOUS
      <4> HIDE DEF new
      <4> QED
        BY <4>1, <4>2
    <3> HIDE DEF new
    <3> QED
      BY <3>1, <3>2 DEF HaIds
  <2>4. HaIds' \subseteq Int /\ IsFiniteSet(HaIds')
    BY <1>1, <2>2, <2>3, FS_Union DEF TablesTyped
  <2> QED
    BY <1>1, <1>3, <1>7, <2>1, <2>4, DoneTyped DEF HaCommitTx
<1>8. ASSUME NEW t \in haTxs, HaRecordEmpty(t) PROVE ArchiveTyped'
  <2>1. HaIds' \subseteq Int /\ IsFiniteSet(HaIds')
    BY <1>1, <1>2, <1>8 DEF TablesTyped, HaRecordEmpty
  <2>2. Recorded(0, t.file) /\ haTxs' = (haTxs \ {t}) \cup {[t EXCEPT !.phase = "done", !.batch = NewBatch]}
    BY <1>8 DEF HaRecordEmpty
  <2>3. 0 \in Int
    OBVIOUS
  <2>4. TablesTyped' /\ CommitsTyped' /\ DOMAIN haBatches \subseteq DOMAIN haBatches'
    BY ONLY <1>1, <2>1, <2>2, <2>3, DoneTyped, t \in haTxs
  <2> QED
    BY <1>3, <2>4
<1>9. ASSUME NEW file \in HaFiles, HaOthersCommit(file) PROVE ArchiveTyped'
  <2>1. file \in FileSize
    BY HaAssumption DEF FileSize
  <2> QED
    BY <1>1, <1>4, <1>9, <2>1, BegunTyped DEF HaOthersCommit
<1> QED
  BY <1>5, <1>6, <1>7, <1>8, <1>9 DEF HaServer

\* The page asks for and stores what is typed.
LEMMA ArchivePageTyped == ASSUME ArchiveTyped, [HaNext]_haVars, ~HaServer PROVE ArchiveTyped'
<1>1. TablesTyped /\ CommitsTyped /\ FormTyped(haForm) /\ DrillTyped
  BY DEF ArchiveTyped
<1>2. ASSUME UNCHANGED <<haRows, haBatches>>, CommitsTyped', FormTyped(haForm'), DrillTyped' PROVE ArchiveTyped'
  <2>1. HaIds' = HaIds
    BY <1>2 DEF HaIds
  <2> QED
    BY <1>1, <1>2, <2>1 DEF ArchiveTyped, TablesTyped, FormTyped, BatchOrNone
<1>3. ASSUME UNCHANGED <<haDb, haLook, haCalls>>, FormTyped(haForm') PROVE ArchiveTyped'
  BY <1>1, <1>2, <1>3 DEF haDb, CommitsTyped, TxTyped, DrillTyped, LookRows, CallRows, BatchOrNone
<1>4. ASSUME UNCHANGED <<haDb, haForm>>, DrillTyped' PROVE ArchiveTyped'
  BY <1>1, <1>2, <1>4 DEF haDb, CommitsTyped, TxTyped, BatchOrNone
<1>5. ASSUME NEW form, FormTyped(form) PROVE FormTyped(Loading(form))
  BY <1>5 DEF FormTyped, Loading, HaFormFields
<1>6. ASSUME NEW step PROVE FormTyped(Emptied(haForm, step))
  BY <1>1 DEF FormTyped, Emptied, HaFormFields, NoFile, FileSize, BatchOrNone
<1>7. CASE UNCHANGED haVars
  BY <1>1, <1>3, <1>7 DEF haVars
<1>8. CASE HaRefresh \/ StartNewUpload \/ BackToList
  BY <1>1, <1>3, <1>5, <1>6, <1>8 DEF HaRefresh, StartNewUpload, BackToList, HaMove
<1>9. CASE MapColumn
  BY <1>1, <1>3, <1>9 DEF MapColumn, HaMove, FormTyped, HaFormFields
<1>10. ASSUME NEW list \in haForm.loads, BatchesListed(list) PROVE ArchiveTyped'
  BY <1>1, <1>3, <1>10 DEF BatchesListed, HaMove, FormTyped, HaFormFields
<1>11. ASSUME NEW file \in HaFiles, HaUpload(file) PROVE ArchiveTyped'
  BY <1>1, <1>3, <1>11, HaAssumption DEF HaUpload, HaMove, FormTyped, HaFormFields, FileSize
<1>12. ASSUME NEW t \in haTxs, CommitAnswered(t) PROVE ArchiveTyped'
  <2>1. t.batch \in BatchOrNone
    BY <1>1 DEF CommitsTyped, TxTyped
  <2>2. FormTyped([haForm EXCEPT !.busy = FALSE])
    BY <1>1 DEF FormTyped, HaFormFields
  <2>3. FormTyped([haForm EXCEPT !.busy = FALSE, !.result = t.batch, !.step = "result"])
    BY <1>1, <2>1 DEF FormTyped, HaFormFields
  <2> QED
    BY <1>3, <1>5, <1>12, <2>2, <2>3 DEF CommitAnswered, HaMove
<1>13. CASE OnCommit
  <2>1. FormTyped([haForm EXCEPT !.step = "result"])
    BY <1>1 DEF FormTyped, HaFormFields
  <2>2. FormTyped([haForm EXCEPT !.busy = TRUE, !.sent = CommitsSoFar + 1])
    BY <1>1 DEF FormTyped, HaFormFields
  <2>3. haForm.file \in FileSize
    BY <1>1 DEF FormTyped
  <2>4. CommitsTyped'
    <3>1. CASE UNCHANGED haTxs
      BY <1>1, <1>13, <3>1 DEF OnCommit, CommitsTyped, TxTyped, BatchOrNone
    <3>2. CASE HaBegin(haForm.file)
      BY <1>1, <1>13, <2>3, <3>2, BegunTyped DEF OnCommit
    <3> QED
      BY <1>13, <3>1, <3>2 DEF OnCommit
  <2>5. DrillTyped'
    BY <1>1, <1>13 DEF OnCommit, DrillTyped, LookRows, CallRows, BatchOrNone
  <2> QED
    BY <1>2, <1>5, <1>13, <2>1, <2>2, <2>4, <2>5 DEF OnCommit
<1>14. CASE CloseBatch
  BY <1>1, <1>4, <1>14 DEF CloseBatch, DrillTyped, LookRows, CallRows, BatchOrNone, HaUnread, haDb
<1>15. ASSUME NEW look \in LookRows, haLook' = look, UNCHANGED <<haDb, haForm>>,
              haCalls' \subseteq CallRows
       PROVE  ArchiveTyped'
  <2>1. DrillTyped'
    BY <1>15 DEF DrillTyped, LookRows, CallRows, haDb, BatchOrNone
  <2> QED
    BY <1>4, <1>15, <2>1
<1>16. haLook \in LookRows /\ haCalls \subseteq CallRows
  BY <1>1 DEF DrillTyped, LookRows, CallRows
<1>17. ASSUME NEW b \in DOMAIN haBatches, SelectBatch(b) PROVE ArchiveTyped'
  <2>1. PICK look \in LookRows : look = haLook
    BY <1>16
  <2>2. PICK tab \in {"jobs", "errors"}, waits \in BOOLEAN :
          haLook' = [look EXCEPT !.batch = b, !.tab = tab, !.waits = waits]
    <3> DEFINE tab == IF haBatches[b].good = 0 /\ haBatches[b].bad > 0 THEN "errors" ELSE "jobs"
               waits == look.waits \/ (haBatches[b].good > 0 /\ ~look.fetched)
    <3>1. haLook' = [look EXCEPT !.batch = b, !.tab = tab, !.waits = waits]
      BY <1>17, <2>1 DEF SelectBatch
    <3>2. tab \in {"jobs", "errors"} /\ waits \in BOOLEAN
      BY DEF LookRows
    <3> HIDE DEF tab, waits
    <3> QED
      BY <3>1, <3>2
  <2>3. [look EXCEPT !.batch = b, !.tab = tab, !.waits = waits] \in LookRows
    BY DEF LookRows, BatchOrNone
  <2>4. HaAsk("detail", b, 0) \in CallRows /\ HaAsk("jobs", b, 0) \in CallRows
    BY DEF HaAsk, CallRows
  <2>5. haCalls' \subseteq CallRows
    BY <1>16, <1>17, <2>4 DEF SelectBatch
  <2> QED
    BY <1>15, <1>17, <2>2, <2>3, <2>5 DEF SelectBatch
<1>18. ASSUME NEW tab \in {"jobs", "errors"}, SetTab(tab) PROVE ArchiveTyped'
  <2>1. PICK look \in LookRows : look = haLook
    BY <1>16
  <2>2. PICK waits \in BOOLEAN : haLook' = [look EXCEPT !.tab = tab, !.waits = waits]
    <3> DEFINE loads == tab = "jobs" /\ ~haLook.fetched /\ haBatches[haLook.batch].good > 0
    <3>1. haLook' = [look EXCEPT !.tab = tab, !.waits = look.waits \/ loads]
      BY <1>18, <2>1 DEF SetTab
    <3>2. (look.waits \/ loads) \in BOOLEAN
      BY DEF LookRows
    <3> HIDE DEF loads
    <3> QED
      BY <3>1, <3>2
  <2>3. [look EXCEPT !.tab = tab, !.waits = waits] \in LookRows
    BY DEF LookRows
  <2>4. haLook.batch \in DOMAIN haBatches
    BY <1>16, <1>18 DEF SetTab, LookRows, BatchOrNone
  <2>5. HaAsk("jobs", haLook.batch, 0) \in CallRows
    BY <2>4 DEF HaAsk, CallRows
  <2>6. haCalls' \subseteq CallRows
    BY <1>16, <1>18, <2>5 DEF SetTab
  <2> QED
    BY <1>15, <1>18, <2>2, <2>3, <2>6 DEF SetTab
<1>20. ASSUME NEW from \in Nat, PageJobs(from) PROVE ArchiveTyped'
  <2>1. PICK look \in LookRows : look = haLook
    BY <1>16
  <2>2. haLook' = [look EXCEPT !.waits = TRUE]
    BY <1>20, <2>1 DEF PageJobs
  <2>3. [look EXCEPT !.waits = TRUE] \in LookRows
    BY DEF LookRows
  <2>4. haLook.batch \in DOMAIN haBatches
    BY <1>16, <1>20 DEF PageJobs, LookRows, BatchOrNone
  <2>5. HaAsk("jobs", haLook.batch, from) \in CallRows
    BY <2>4 DEF HaAsk, CallRows
  <2>6. haCalls' \subseteq CallRows
    BY <1>16, <1>20, <2>5 DEF PageJobs
  <2> QED
    BY <1>15, <1>20, <2>2, <2>3, <2>6 DEF PageJobs
<1>21. ASSUME NEW c \in haCalls, DrillAnswered(c) PROVE ArchiveTyped'
  <2>1. PICK look \in LookRows : look = haLook
    BY <1>16
  <2>2. c.batch \in BatchOrNone /\ c.from \in Nat
    BY <1>16 DEF CallRows, BatchOrNone
  <2>3. [of |-> c.batch, from |-> c.from] \in [of : BatchOrNone, from : Nat]
    BY <2>2
  <2>4. /\ [look EXCEPT !.detail = c.batch] \in LookRows
        /\ [look EXCEPT !.jobs = [of |-> c.batch, from |-> c.from], !.fetched = TRUE, !.waits = FALSE] \in LookRows
        /\ [look EXCEPT !.waits = FALSE] \in LookRows
    BY <2>2, <2>3 DEF LookRows
  <2>5. haLook' \in LookRows
    BY <1>21, <2>1, <2>4 DEF DrillAnswered
  <2>6. haCalls' \subseteq CallRows
    BY <1>16, <1>21 DEF DrillAnswered
  <2> QED
    BY <1>15, <1>21, <2>5, <2>6 DEF DrillAnswered
<1>19. 0 .. Max({f.good : f \in HaFiles}) \subseteq Nat
  OBVIOUS
<1> QED
  BY <1>7, <1>8, <1>9, <1>10, <1>11, <1>12, <1>13, <1>14, <1>17, <1>18, <1>19, <1>20, <1>21 DEF HaNext

\* Whatever imports run, are lost or clash, the list, the result and the drill-down are about batches
\* that were recorded.
THEOREM ArchiveTypesHold == HaSpec => []HaTypeOK
<1>1. HaInit => ArchiveTyped
  <2> SUFFICES ASSUME HaInit PROVE ArchiveTyped
    OBVIOUS
  <2>1. HaIds = {} /\ DOMAIN haBatches = {} /\ 1 .. 0 = {}
    BY DEF HaInit, HaIds
  <2>2. TablesTyped
    BY <2>1, FS_EmptySet DEF HaInit, TablesTyped
  <2> QED
    BY <2>1, <2>2 DEF HaInit, ArchiveTyped, CommitsTyped, FormTyped, HaFormFields, NoFile, FileSize, BatchOrNone,
       DrillTyped, LookRows, CallRows, HaUnread
<1>2. ArchiveTyped /\ [HaNext]_haVars => ArchiveTyped'
  BY ServerTyped, ArchivePageTyped
<1>3. ArchiveTyped => HaTypeOK
  BY DEF ArchiveTyped, TablesTyped, FormTyped, DrillTyped, LookRows, CallRows, BatchOrNone, HaTypeOK
<1> QED
  BY <1>1, <1>2, <1>3, PTL DEF HaSpec

-------------------------------------------------------------------------------
(* The wizard's types, for any operator                                    *)

\* What WizTypeOK says, in the parts the steps keep.
WizTyped == WizTypes /\ wiz.kmSelected \subseteq wiz.km

\* A wizard state whose ticks are on rows under review.
Ticked(s) == s \in WizState /\ s.kmSelected \subseteq s.km

\* What a call may be.
Calls == [pass : {"preview", "first", "km"}, seen : WizState] \cup {NoCall}

\* A dispatch onto a well formed state leaves one.
LEMMA MoveTyped == ASSUME WizTyped, NEW s, Ticked(s), Move(s) PROVE WizTyped'
BY DEF WizTyped, WizTypes, Ticked, Move

\* Going to another step keeps the state well formed.
LEMMA GotoTyped ==
  ASSUME NEW s, Ticked(s), NEW step \in Steps
  PROVE  Ticked(Goto(s, step))
BY GotoState DEF Ticked

\* The next pending bucket is a depot, or none.
LEMMA NextTyped ==
  ASSUME NEW s \in WizState, NEW d \in Depots \cup {0} PROVE NextPending(s, d) \in Depots \cup {NoDepot}
<1>1. CASE NextPending(s, d) # NoDepot
  BY <1>1, PendingDepot DEF Included
<1>2. CASE NextPending(s, d) = NoDepot
  BY <1>2
<1> QED
  BY <1>1, <1>2

\* The bucket at the cursor is a depot, or none.
LEMMA BucketTyped == ASSUME NEW s \in WizState PROVE Bucket(s) \in Depots \cup {NoDepot}
BY DEF Bucket, Included

\* Marking a bucket as done, or no bucket, keeps the state well formed.
LEMMA MarkTyped ==
  ASSUME NEW s, Ticked(s), NEW d \in Depots \cup {NoDepot} PROVE Ticked(MarkDone(s, d))
<1>1. CASE d = NoDepot
  BY <1>1 DEF MarkDone
<1>2. CASE d # NoDepot
  BY <1>2, DoneState DEF Ticked
<1> QED
  BY <1>1, <1>2

\* A request sends rows of the file, finitely many.
LEMMA PayloadTyped ==
  ASSUME WizTypes, request # NoCall
  PROVE  /\ request.seen \in WizState /\ Payload(request) \in SUBSET Rows
         /\ \A S \in SUBSET Payload(request) : Cardinality(S) \in Nat
<1>1. request.seen \in WizState
  BY DEF WizTypes
<1>2. Payload(request) \in SUBSET Rows
  BY <1>1 DEF Payload, WizState, Bucket, Included
<1>3. ASSUME NEW S \in SUBSET Payload(request) PROVE Cardinality(S) \in Nat
  BY <1>2, RowsAssumption, FS_Subset, FS_CardinalityType
<1> QED
  BY <1>1, <1>2, <1>3

\* Rows that land are counted.
LEMMA LandTyped ==
  ASSUME landed \in LandedTables, NEW P \in SUBSET Rows, NEW date \in BookDates, Land(P, date)
  PROVE  landed' \in LandedTables
<1>1. ASSUME NEW r \in Rows
      PROVE  landed[r] \in [BookDates -> Nat] /\ [landed[r] EXCEPT ![date] = @ + 1] \in [BookDates -> Nat]
  BY DEF LandedTables
<1>2. landed' = [r \in Rows |-> IF r \in P THEN [landed[r] EXCEPT ![date] = @ + 1] ELSE landed[r]]
  BY DEF Land
<1> QED
  BY <1>1, <1>2 DEF LandedTables

\* After a depot the next is entered, the pickup or the summary shown, or the wizard closed.
LEMMA AdvanceTyped ==
  ASSUME WizTypes, NEW seen \in WizState, NEW now, Ticked(now), NEW t \in Tallies,
         NEW pickup \in BOOLEAN, AdvanceOrFinish(seen, now, t, pickup),
         landed' \in LandedTables, request' \in Calls
  PROVE  WizTyped'
<1> DEFINE f == FollowingDepot(seen)
<1>1. seen.cursor \in Depots \cup {0} /\ now \in WizState
  BY DEF WizState, NoDepot, Ticked
<1>2. f \in Depots \cup {NoDepot}
  BY <1>1, NextTyped DEF FollowingDepot
<1> HIDE DEF f
<1>3. Ticked(Goto(KmRated(AtDepot(now, f), {}), "schedulePicker"))
  <2>1. AtDepot(now, f) \in WizState
    BY <1>1, <1>2, AtDepotState
  <2>2. Ticked(KmRated(AtDepot(now, f), {}))
    BY <2>1, KmRatedState DEF Ticked
  <2> QED
    BY <2>2, GotoTyped DEF Steps
<1>4. Ticked(Goto(now, "bookPickup")) /\ Ticked(Goto(now, "summary"))
  BY GotoTyped DEF Steps
<1>5. Ticked(Fresh) /\ NoResults \in Tallies
  BY FreshState DEF Ticked, Fresh, NoResults, Tallies
<1>6. /\ Ticked(wiz') /\ tally' \in Tallies /\ opened' \in BOOLEAN
  BY <1>3, <1>4, <1>5 DEF AdvanceOrFinish, f, WizTypes
<1> QED
  BY <1>6 DEF WizTyped, WizTypes, Ticked, Tallies, LandedTables, Calls

\* The steps of the operator before the import.
LEMMA PrepareTyped == ASSUME WizTyped, Prepare PROVE WizTyped'
<1>0. Ticked(wiz) /\ wiz \in WizState
  BY DEF WizTyped, WizTypes, Ticked
<1>a. Ticked(Fresh) /\ NoResults \in Tallies
  BY FreshState DEF Ticked, Fresh, NoResults, Tallies
<1>b. Ticked(Seeded(Goto(wiz, "fixAddresses"))) /\ Ticked(Seeded(Goto(wiz, "selectRegions")))
  <2>1. Ticked(Goto(wiz, "fixAddresses")) /\ Ticked(Goto(wiz, "selectRegions"))
    BY <1>0, GotoTyped DEF Steps
  <2> QED
    BY <2>1, SeededState DEF Ticked
<1>1. CASE OpenWizard
  <2>1. landed' \in LandedTables
    BY <1>1 DEF OpenWizard, LandedTables
  <2> QED
    BY <1>1, <2>1 DEF OpenWizard, WizTyped, WizTypes, LandedTables
<1>2. CASE CloseWizard
  BY <1>2, <1>a DEF CloseWizard, WizTyped, WizTypes, Ticked, Tallies
<1>3. CASE SwitchClient
  BY <1>3, <1>a, MoveTyped DEF SwitchClient
<1>4. CASE NextStep
  <2>1. Ticked(Goto(wiz, "fixZips")) /\ Ticked(Goto(wiz, "fixAddresses"))
    BY <1>0, GotoTyped DEF Steps
  <2> QED
    BY <1>4, <1>b, <2>1, MoveTyped DEF NextStep
<1>5. CASE Back
  <2>1. /\ Ticked(Goto(wiz, "newImport")) /\ Ticked(Goto(wiz, "mapColumns"))
        /\ Ticked(Goto(wiz, "fixZips")) /\ Ticked(Goto(wiz, "fixAddresses"))
        /\ Ticked(Goto(wiz, "schedulePicker"))
    BY <1>0, GotoTyped DEF Steps
  <2>2. PICK s : Ticked(s) /\ Move(s)
    BY <1>5, <1>b, <2>1, Zenon DEF Back
  <2> QED
    BY <2>2, MoveTyped
<1>6. CASE StartDepots
  <2>1. NextPending(wiz, 0) \in Depots \cup {NoDepot}
    BY <1>0, NextTyped
  <2>2. Ticked(AtDepot(wiz, NextPending(wiz, 0)))
    BY <1>0, <2>1, AtDepotState DEF Ticked
  <2>3. Ticked(Goto(AtDepot(wiz, NextPending(wiz, 0)), "schedulePicker"))
    BY <2>2, GotoTyped DEF Steps
  <2> QED
    BY <1>6, <2>3, MoveTyped DEF StartDepots
<1>7. ASSUME NEW group \in [Rows -> Depots \cup {Unmatched}], Upload(group) PROVE WizTyped'
  <2>1. PICK u : u = Goto(wiz, "mapColumns")
    OBVIOUS
  <2>2. Ticked(u)
    BY <1>0, <2>1, GotoTyped DEF Steps
  <2>3. Ticked([u EXCEPT !.group = group])
    BY <2>2 DEF Ticked, WizState
  <2> QED
    BY <1>7, <2>1, <2>3, MoveTyped DEF Upload
<1>8. ASSUME NEW r \in Rows, NEW d \in Depots \cup {Unmatched}, Correct(r, d) PROVE WizTyped'
  <2>1. Ticked([wiz EXCEPT !.group[r] = d])
    BY <1>0 DEF Ticked, WizState
  <2> QED
    BY <1>8, <2>1, MoveTyped DEF Correct
<1>9. ASSUME NEW d \in Depots, ToggleDepot(d) PROVE WizTyped'
  <2>1. PICK S : S = IF d \in wiz.selected THEN wiz.selected \ {d} ELSE wiz.selected \cup {d}
    OBVIOUS
  <2>2. Ticked([wiz EXCEPT !.selected = S])
    BY <1>0, <2>1 DEF Ticked, WizState
  <2> QED
    BY <1>9, <2>1, <2>2, MoveTyped DEF ToggleDepot
<1>10. ASSUME NEW date \in BookDates, Pick(date) PROVE WizTyped'
  <2>1. Ticked([wiz EXCEPT !.date = date, !.picked = TRUE])
    BY <1>0 DEF Ticked, WizState
  <2> QED
    BY <1>10, <2>1, MoveTyped DEF Pick
<1>11. ASSUME NEW r \in Rows, ToggleKmRow(r) PROVE WizTyped'
  <2>1. PICK S : S = IF r \in wiz.kmSelected THEN wiz.kmSelected \ {r} ELSE wiz.kmSelected \cup {r}
    OBVIOUS
  <2>2. Ticked([wiz EXCEPT !.kmSelected = S])
    BY <1>0, <1>11, <2>1 DEF Ticked, WizState, ToggleKmRow
  <2> QED
    BY <1>11, <2>1, <2>2, MoveTyped DEF ToggleKmRow
<1> QED
  BY <1>1, <1>2, <1>3, <1>4, <1>5, <1>6, <1>7, <1>8, <1>9, <1>10, <1>11 DEF Prepare

\* The steps that make a request, skip the review or end the pickup.
LEMMA SendTyped == ASSUME WizTyped, Send PROVE WizTyped'
<1>0. Ticked(wiz) /\ wiz \in WizState
  BY DEF WizTyped, WizTypes, Ticked
<1>a. ASSUME NEW pass \in {"preview", "first", "km"}, Call(pass) PROVE request' \in Calls
  BY <1>a, <1>0 DEF Call, Calls
<1>b. ASSUME NEW pass \in {"preview", "first", "km"}, Call(pass), UNCHANGED <<opened, wiz, tally, landed>>
      PROVE  WizTyped'
  BY <1>b, <1>a DEF Calls, WizTyped, WizTypes
<1>1. CASE SubmitPicks
  <2>1. CASE Move(Goto(wiz, "rateByDistance"))
    BY <1>0, <2>1, GotoTyped, MoveTyped DEF Steps
  <2>2. CASE /\ Call(IF Trucks THEN "preview" ELSE "first")
             /\ UNCHANGED <<opened, wiz, tally, landed>>
    <3>1. PICK pass \in {"preview", "first", "km"} : pass = IF Trucks THEN "preview" ELSE "first"
      OBVIOUS
    <3> QED
      BY <2>2, <3>1, <1>b
  <2> QED
    BY <1>1, <2>1, <2>2 DEF SubmitPicks
<1>2. CASE ConfirmImport
  BY <1>2, <1>b DEF ConfirmImport
<1>3. CASE UploadKmRows
  <2> DEFINE left == tally.rows \cup (wiz.km \ wiz.kmSelected)
  <2>1. left \in SUBSET Rows /\ tally \in Tallies
    BY <1>0 DEF WizTyped, WizTypes, WizState, Tallies
  <2>2. PICK rows \in SUBSET Rows : rows = IF wiz.km = wiz.kmSelected THEN wiz.failed ELSE left
    BY <1>0, <2>1 DEF WizState
  <2> HIDE DEF left
  <2>3. tally' = [tally EXCEPT !.rows = left] /\ wiz' = [wiz EXCEPT !.failed = rows]
    BY <1>3, <2>2 DEF UploadKmRows, left
  <2>4. tally' \in Tallies
    BY <2>1, <2>3 DEF Tallies
  <2>5. Ticked(wiz')
    BY <1>0, <2>3 DEF Ticked, WizState
  <2>6. request' \in Calls
    BY <1>3, <1>a DEF UploadKmRows
  <2> QED
    BY <1>3, <2>4, <2>5, <2>6 DEF UploadKmRows, WizTyped, WizTypes, Ticked, Tallies, Calls
<1>4. CASE SkipKmRows
  <2>1. tally \in Tallies /\ wiz.km \in SUBSET Rows
    BY <1>0 DEF WizTyped, WizTypes, WizState, Tallies
  <2>2. Cardinality(wiz.km) \in Nat
    BY <2>1, RowsAssumption, FS_Subset, FS_CardinalityType
  <2>3. PICK t : t = Counted(tally, 0, Cardinality(wiz.km), wiz.km)
    OBVIOUS
  <2>4. t \in Tallies
    BY <2>1, <2>2, <2>3, CountedTally
  <2>5. PICK now : now = [wiz EXCEPT !.failed = t.rows]
    OBVIOUS
  <2>6. Ticked(now)
    BY <1>0, <2>4, <2>5 DEF Ticked, WizState, Tallies
  <2>7. AdvanceOrFinish(wiz, now, t, wiz.pickup) /\ UNCHANGED <<request, landed>>
    BY <1>4, <2>3, <2>5 DEF SkipKmRows
  <2>8. wiz.pickup \in BOOLEAN
    BY <1>0 DEF WizState
  <2>9. request' \in Calls /\ landed' \in LandedTables /\ WizTypes
    BY <2>7 DEF WizTyped, WizTypes, Calls, LandedTables
  <2> QED
    BY <1>0, <2>4, <2>6, <2>7, <2>8, <2>9, AdvanceTyped
<1>5. CASE FinishPickup
  <2>1. CASE Move(Goto(wiz, "summary"))
    BY <1>0, <2>1, GotoTyped, MoveTyped DEF Steps
  <2>2. CASE opened' = FALSE /\ wiz' = Fresh /\ tally' = NoResults /\ UNCHANGED <<request, landed>>
    <3>1. Ticked(Fresh) /\ NoResults \in Tallies
      BY FreshState DEF Ticked, Fresh, NoResults, Tallies
    <3> QED
      BY <2>2, <3>1 DEF WizTyped, WizTypes, Ticked, Tallies
  <2> QED
    BY <1>5, <2>1, <2>2 DEF FinishPickup
<1> QED
  BY <1>1, <1>2, <1>3, <1>4, <1>5 DEF Send

\* The reply to an import, whatever is returned for review or refused.
LEMMA ImportTyped ==
  ASSUME WizTyped, NEW review \in SUBSET Rows, NEW refused \in SUBSET Rows, NEW pickup \in BOOLEAN,
         Imported(review, refused, pickup)
  PROVE  WizTyped'
<1>0. Ticked(wiz) /\ wiz \in WizState /\ WizTypes /\ tally \in Tallies /\ landed \in LandedTables
  BY DEF WizTyped, WizTypes, Ticked, Tallies, LandedTables
<1>1. request.pass \in {"first", "km"} /\ request # NoCall
  BY DEF Imported, NoCall
<1>2. PICK returned : returned = review \cup refused
  OBVIOUS
<1>3. returned \subseteq Payload(request) /\ refused \subseteq Payload(request)
  BY <1>2 DEF Imported
<1>4. /\ request.seen \in WizState /\ Payload(request) \in SUBSET Rows
      /\ Cardinality(returned) \in Nat /\ Cardinality(refused) \in Nat
      /\ Cardinality(Payload(request) \ returned) \in Nat
  BY <1>0, <1>1, <1>3, PayloadTyped
<1>5. request.seen.date \in BookDates /\ request.seen.pickup \in BOOLEAN
  BY <1>4 DEF WizState
<1>6. landed' \in LandedTables
  <2>1. Land(Payload(request) \ returned, request.seen.date)
    BY <1>2 DEF Imported, KmPass, FirstPass
  <2>2. Payload(request) \ returned \in SUBSET Rows
    BY <1>4
  <2> QED
    BY <1>0, <1>5, <2>1, <2>2, LandTyped
<1>7. request' = NoCall /\ request' \in Calls
  BY DEF Imported, Calls
<1>8. PICK now : now = [MarkDone(wiz, Bucket(request.seen)) EXCEPT !.pickup = @ \/ pickup]
  OBVIOUS
<1>9. Ticked(now) /\ now.failed \in SUBSET Rows
  <2>1. PICK u : u = MarkDone(wiz, Bucket(request.seen))
    OBVIOUS
  <2>2. Ticked(u)
    BY <1>0, <1>4, <2>1, BucketTyped, MarkTyped
  <2>3. PICK b \in BOOLEAN : b = (u.pickup \/ pickup)
    OBVIOUS
  <2>4. now = [u EXCEPT !.pickup = b]
    BY <1>8, <2>1, <2>3
  <2> QED
    BY <2>2, <2>4 DEF Ticked, WizState
<1>10. PICK n : n = Cardinality(Payload(request) \ returned)
  OBVIOUS
<1>11. CASE request.pass = "first" /\ review # {}
  <2>1. PICK t : t = FirstResult(tally, n, refused)
    OBVIOUS
  <2>2. t \in Tallies
    BY <1>0, <1>4, <1>10, <2>1, CountedTally DEF FirstResult
  <2>3. PICK rows : rows = IF refused = {} THEN now.failed ELSE t.rows
    OBVIOUS
  <2>4. rows \in SUBSET Rows
    BY <1>9, <2>2, <2>3 DEF Tallies
  <2>5. PICK v : v = [now EXCEPT !.failed = rows]
    OBVIOUS
  <2>6. Ticked(v)
    BY <1>9, <2>4, <2>5 DEF Ticked, WizState
  <2>7. v = [now EXCEPT !.failed = IF refused = {} THEN @ ELSE t.rows]
    BY <2>3, <2>5
  <2>8. /\ tally' = t /\ wiz' = Goto(KmRated(v, review), "kmRatedReview") /\ UNCHANGED opened
    BY <1>2, <1>8, <1>10, <1>11, <2>1, <2>7 DEF Imported
  <2>9. Ticked(KmRated(v, review))
    BY <2>6, KmRatedState DEF Ticked
  <2>10. Ticked(wiz')
    BY <2>8, <2>9, GotoTyped DEF Steps
  <2> QED
    BY <1>0, <1>6, <1>7, <2>2, <2>8, <2>10 DEF WizTyped, WizTypes, Ticked, Tallies, LandedTables, Calls
<1>12. CASE ~(request.pass = "first" /\ review # {})
  <2>1. PICK t : t = Counted(tally, n, Cardinality(returned), returned)
    OBVIOUS
  <2>2. t \in Tallies
    BY <1>0, <1>3, <1>4, <1>10, <2>1, CountedTally
  <2>3. PICK rows : rows = IF returned = {} THEN now.failed ELSE t.rows
    OBVIOUS
  <2>4. rows \in SUBSET Rows
    BY <1>9, <2>2, <2>3 DEF Tallies
  <2>5. PICK v : v = [now EXCEPT !.failed = rows]
    OBVIOUS
  <2>6. Ticked(v)
    BY <1>9, <2>4, <2>5 DEF Ticked, WizState
  <2>7. v = [now EXCEPT !.failed = IF returned = {} THEN @ ELSE t.rows]
    BY <2>3, <2>5
  <2>8. AdvanceOrFinish(request.seen, v, t, request.seen.pickup \/ pickup)
    BY <1>2, <1>8, <1>10, <1>12, <2>1, <2>7 DEF Imported
  <2>9. PICK b \in BOOLEAN : b = (request.seen.pickup \/ pickup)
    OBVIOUS
  <2> QED
    BY <1>0, <1>4, <1>6, <1>7, <2>2, <2>6, <2>8, <2>9, AdvanceTyped
<1> QED
  BY <1>11, <1>12

\* The other replies: all refused, rejected or failed, and the price list.
LEMMA ReplyTyped == ASSUME WizTyped, Reply PROVE WizTyped'
<1>0. Ticked(wiz) /\ wiz \in WizState /\ WizTypes /\ tally \in Tallies /\ landed \in LandedTables
  BY DEF WizTyped, WizTypes, Ticked, Tallies, LandedTables
<1>1. CASE AllRefused
  <2>1. request # NoCall
    BY <1>1 DEF AllRefused, NoCall
  <2>2. /\ request.seen \in WizState /\ Payload(request) \in SUBSET Rows
        /\ Cardinality(Payload(request)) \in Nat
    BY <1>0, <2>1, PayloadTyped
  <2>3. PICK t : t = Counted(tally, 0, Cardinality(Payload(request)), Payload(request))
    OBVIOUS
  <2>4. t \in Tallies
    BY <1>0, <2>2, <2>3, CountedTally
  <2>5. PICK u : u = MarkDone(wiz, Bucket(request.seen))
    OBVIOUS
  <2>6. Ticked(u)
    BY <1>0, <2>2, <2>5, BucketTyped, MarkTyped
  <2>7. PICK now : now = [u EXCEPT !.failed = t.rows]
    OBVIOUS
  <2>8. Ticked(now)
    BY <2>4, <2>6, <2>7 DEF Ticked, WizState, Tallies
  <2>9. /\ AdvanceOrFinish(request.seen, now, t, request.seen.pickup)
        /\ request' = NoCall /\ UNCHANGED landed
    BY <1>1, <2>3, <2>5, <2>7 DEF AllRefused
  <2>10. request' \in Calls /\ landed' \in LandedTables /\ request.seen.pickup \in BOOLEAN
    BY <1>0, <2>2, <2>9 DEF Calls, WizState
  <2> QED
    BY <1>0, <2>2, <2>4, <2>8, <2>9, <2>10, AdvanceTyped
<1>2. CASE Rejected
  BY <1>2 DEF Rejected, WizTyped, WizTypes
<1>3. ASSUME NEW hasTrucks \in BOOLEAN, Previewed(hasTrucks) PROVE WizTyped'
  <2>1. request # NoCall /\ UNCHANGED <<opened, tally, landed>>
    BY <1>3 DEF Previewed
  <2>2. CASE wiz' = Goto(wiz, "truckPreview") /\ request' = NoCall
    <3>1. Ticked(wiz')
      BY <1>0, <2>2, GotoTyped DEF Steps
    <3> QED
      BY <2>1, <2>2, <3>1 DEF WizTyped, WizTypes, Ticked
  <2>3. CASE request' = [request EXCEPT !.pass = "first"] /\ wiz' = wiz
    <3>1. request \in [pass : {"preview", "first", "km"}, seen : WizState]
      BY <1>0, <2>1 DEF WizTypes
    <3>2. request' \in [pass : {"preview", "first", "km"}, seen : WizState]
      BY <2>3, <3>1
    <3> QED
      BY <2>1, <2>3, <3>2 DEF WizTyped, WizTypes
  <2> QED
    BY <1>3, <2>2, <2>3 DEF Previewed
<1> QED
  BY <1>1, <1>2, <1>3, ImportTyped DEF Reply

\* Whatever the operator leaves behind: ticks are on rows under review, and everything the wizard keeps,
\* its closures included, is well formed.
THEOREM WizTypesHold == WizSpec => []WizTypeOK
<1>1. WizInit => WizTyped
  <2> SUFFICES ASSUME WizInit PROVE WizTyped
    OBVIOUS
  <2>1. landed \in LandedTables /\ wiz \in WizState /\ wiz.kmSelected \subseteq wiz.km
    BY FreshState DEF WizInit, LandedTables, Fresh
  <2>2. tally \in Tallies
    BY DEF WizInit, NoResults, Tallies
  <2> QED
    BY <2>1, <2>2 DEF WizInit, WizTyped, WizTypes, LandedTables, Tallies
<1>2. WizTyped /\ [WizNext]_wizVars => WizTyped'
  <2>1. ASSUME WizTyped, UNCHANGED wizVars PROVE WizTyped'
    BY <2>1 DEF WizTyped, WizTypes, wizVars
  <2> QED
    BY <2>1, PrepareTyped, SendTyped, ReplyTyped DEF WizNext
<1>3. WizTyped => WizTypeOK
  BY DEF WizTyped, WizTypes, WizTypeOK
<1> QED
  BY <1>1, <1>2, <1>3, PTL DEF WizSpec
===============================================================================
