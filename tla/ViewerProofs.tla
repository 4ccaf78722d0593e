----------------------------- MODULE ViewerProofs -----------------------------
(*****************************************************************************)
(* Three pages that select and draw, for any runs, jobs, days, links and     *)
(* polygons: the bulk actions of /routed act on the jobs that the page       *)
(* showed, and what is selected belongs to the day; the scan grid is a page  *)
(* of its filters; and the polygon page stores no shape under another        *)
(* polygon than the one it was drawn for.                                    *)
(*****************************************************************************)
EXTENDS RouteViewer, ScanManager, PolygonBuilder, SequenceTheorems, FiniteSetTheorems, TLAPS

PageFields ==
  {"day", "view", "cancelled", "runs", "rows", "selRuns", "selJobs", "anchor", "menu", "menuRun",
   "ids", "link", "linked"}

\* The runs listed are of the date, for which reason what is chosen among them is.
PageOfDay(p) ==
  /\ DOMAIN p = PageFields
  /\ \A r \in p.runs : RunDay[r] = p.day
  /\ ~p.linked =>
       /\ \A r \in p.selRuns : RunDay[r] = p.day
       /\ p.anchor # Nowhere => RunDay[p.anchor] = p.day

\* What a bulk action has left was shown when it was chosen.
LoopRecord == {l \in [todo : SUBSET RvJobs, shown : SUBSET RvJobs] : l.todo \subseteq l.shown}

ViewInv == PageOfDay(page) /\ loops \in [1 .. MaxLoops -> LoopRecord]

\* A page has nothing selected when it opens.
LEMMA FreshPage == ASSUME NEW link PROVE PageOfDay(NewPage(link))
  BY DEF NewPage, PageOfDay, PageFields

\* Only the date, the runs and what is selected of them matter.
LEMMA OtherFields ==
  ASSUME NEW p, PageOfDay(p), NEW q, DOMAIN q = PageFields, q.day = p.day, q.runs = p.runs,
         q.selRuns = p.selRuns, q.anchor = p.anchor, q.linked = p.linked
  PROVE  PageOfDay(q)
  BY DEF PageOfDay

\* A change of the query's key keeps the date and what is selected.
LEMMA KeyedOfDay == ASSUME NEW p, PageOfDay(p) PROVE PageOfDay(Keyed(p))
<1> DEFINE q == Keyed(p)
<1>1. /\ DOMAIN q = PageFields /\ q.day = p.day /\ q.runs = p.runs /\ q.selRuns = p.selRuns
      /\ q.anchor = p.anchor /\ q.linked = p.linked
  BY DEF Keyed, PageOfDay, PageFields
<1> QED
  BY <1>1, OtherFields

\* So does closing the menu.
LEMMA ClosedOfDay == ASSUME NEW p, PageOfDay(p) PROVE PageOfDay(Closed(p))
<1> DEFINE q == Closed(p)
<1>1. /\ DOMAIN q = PageFields /\ q.day = p.day /\ q.runs = p.runs /\ q.selRuns = p.selRuns
      /\ q.anchor = p.anchor /\ q.linked = p.linked
  BY DEF Closed, PageOfDay, PageFields
<1> QED
  BY <1>1, OtherFields

\* The runs selected by a click or a range are listed ones or were selected.
LEMMA RangeOfDay ==
  ASSUME PageOfDay(page), ~page.linked, NEW r PROVE \A s \in RangeTo(r) : RunDay[s] = page.day
<1>1. CASE page.anchor \in page.runs
  BY <1>1 DEF RangeTo, PageOfDay
<1>2. CASE page.anchor \notin page.runs
  BY <1>2 DEF RangeTo, PageOfDay
<1> QED
  BY <1>1, <1>2

\* A click on a run, alone or with a key held.
LEMMA RunSelected ==
  ASSUME PageOfDay(page), NEW r \in RunIds, NEW key, SelectRun(r, key)
  PROVE  PageOfDay(page')
<1> DEFINE shift == key = "shift" /\ page.anchor # Nowhere
           runs == IF shift THEN RangeTo(r)
                   ELSE IF key = "ctrl"
                   THEN IF r \in page.selRuns THEN page.selRuns \ {r} ELSE page.selRuns \cup {r}
                   ELSE {r}
           anchor == IF shift THEN page.anchor ELSE r
           p == [page EXCEPT !.selRuns = runs, !.selJobs = {}, !.anchor = anchor]
<1>1. RunDay[r] = page.day
  BY DEF SelectRun, PageOfDay
<1>2. ~page.linked =>
        (\A s \in runs : RunDay[s] = page.day) /\ (anchor # Nowhere => RunDay[anchor] = page.day)
  <2> SUFFICES ASSUME ~page.linked
               PROVE  (\A s \in runs : RunDay[s] = page.day)
                      /\ (anchor # Nowhere => RunDay[anchor] = page.day)
    OBVIOUS
  <2>1. \A s \in page.selRuns : RunDay[s] = page.day
    BY DEF PageOfDay
  <2>2. page.anchor # Nowhere => RunDay[page.anchor] = page.day
    BY DEF PageOfDay
  <2> QED
    BY <1>1, <2>1, <2>2, RangeOfDay
<1>3. page' \in {p, Keyed(p)}
  BY Zenon DEF SelectRun, Shows
<1> HIDE DEF runs, anchor
<1>4. /\ DOMAIN p = PageFields /\ p.day = page.day /\ p.runs = page.runs /\ p.selRuns = runs
      /\ p.anchor = anchor /\ p.linked = page.linked
  BY DEF PageOfDay, PageFields
<1> HIDE DEF p
<1>5. PageOfDay(p)
  BY <1>2, <1>4 DEF PageOfDay
<1> QED
  BY <1>3, <1>5, KeyedOfDay

\* The menu of a run that is not selected selects it alone.
LEMMA RunMenuOpened ==
  ASSUME PageOfDay(page), NEW r \in RunIds, OpenRunMenu(r)
  PROVE  PageOfDay(page')
<1> DEFINE runs == IF r \in page.selRuns THEN page.selRuns ELSE {r}
           p == [page EXCEPT !.menu = "run", !.menuRun = r, !.selRuns = runs]
<1>1. RunDay[r] = page.day
  BY DEF OpenRunMenu, PageOfDay
<1>2. ~page.linked => \A s \in runs : RunDay[s] = page.day
  BY <1>1 DEF PageOfDay
<1>3. page' \in {p, Keyed(p)}
  BY Zenon DEF OpenRunMenu, Shows
<1> HIDE DEF runs
<1>4. /\ DOMAIN p = PageFields /\ p.day = page.day /\ p.runs = page.runs /\ p.selRuns = runs
      /\ p.anchor = page.anchor /\ p.linked = page.linked
  BY DEF PageOfDay, PageFields
<1> HIDE DEF p
<1>5. PageOfDay(p)
  BY <1>2, <1>4 DEF PageOfDay
<1> QED
  BY <1>3, <1>5, KeyedOfDay

\* Another date deselects.
LEMMA DayChanged ==
  ASSUME PageOfDay(page), NEW d, ChangeDay(d)
  PROVE  PageOfDay(page')
<1> DEFINE p == [page EXCEPT !.day = d, !.runs = {}]
           q == [p EXCEPT !.selRuns = {}, !.selJobs = {}, !.anchor = Nowhere]
<1>1. page' = Keyed(q)
  BY Zenon DEF ChangeDay, Shows, Unselected
<1>2. DOMAIN q = PageFields /\ q.runs = {} /\ q.selRuns = {} /\ q.anchor = Nowhere
  BY DEF PageOfDay, PageFields
<1>3. PageOfDay(q)
  BY <1>2 DEF PageOfDay
<1> QED
  BY <1>1, <1>3, KeyedOfDay

\* A link to a job is answered: the job's run is selected, whatever its date.
LEMMA LinkAnswered ==
  ASSUME PageOfDay(page), NEW j, LinkAnswers(j)
  PROVE  PageOfDay(page')
<1> DEFINE p == [page EXCEPT !.link = {}, !.linked = TRUE]
           q == [p EXCEPT !.selRuns = {onRun[j]}]
<1>1. page' \in {p, Keyed(q)}
  BY Zenon DEF LinkAnswers, Shows
<1>2. /\ DOMAIN p = PageFields /\ p.day = page.day /\ p.runs = page.runs /\ p.linked
      /\ DOMAIN q = PageFields /\ q.day = page.day /\ q.runs = page.runs /\ q.linked
  BY DEF PageOfDay, PageFields
<1>3. PageOfDay(p) /\ PageOfDay(q)
  BY <1>2 DEF PageOfDay
<1> QED
  BY <1>1, <1>3, KeyedOfDay

\* Steps that leave date, runs, selection and anchor of the page alone.
LEMMA PageTouched ==
  ASSUME PageOfDay(page),
         \/ FetchRunJobs \/ ToggleCancelled \/ FetchAssignIds
         \/ \E j \in RvJobs, key \in {"none", "ctrl"} : SelectJob(j, key)
         \/ \E j \in RvJobs : OpenJobMenu(j)
         \/ \E d \in {"assignJobs", "transferJobs", "moveBack"} : OpenDialog(d)
  PROVE  PageOfDay(page')
<1> SUFFICES /\ DOMAIN page' = PageFields /\ page'.day = page.day /\ page'.runs = page.runs
             /\ page'.selRuns = page.selRuns /\ page'.anchor = page.anchor
             /\ page'.linked = page.linked
  BY OtherFields
<1> USE DEF PageOfDay, PageFields, Shows
<1>1. CASE FetchRunJobs
  BY <1>1 DEF FetchRunJobs
<1>2. CASE ToggleCancelled
  BY <1>2 DEF ToggleCancelled
<1>3. CASE FetchAssignIds
  BY <1>3 DEF FetchAssignIds
<1>4. ASSUME NEW j \in RvJobs, NEW key \in {"none", "ctrl"}, SelectJob(j, key)
      PROVE  /\ DOMAIN page' = PageFields /\ page'.day = page.day /\ page'.runs = page.runs
             /\ page'.selRuns = page.selRuns /\ page'.anchor = page.anchor
             /\ page'.linked = page.linked
  BY <1>4 DEF SelectJob
<1>5. ASSUME NEW j \in RvJobs, OpenJobMenu(j)
      PROVE  /\ DOMAIN page' = PageFields /\ page'.day = page.day /\ page'.runs = page.runs
             /\ page'.selRuns = page.selRuns /\ page'.anchor = page.anchor
             /\ page'.linked = page.linked
  BY <1>5 DEF OpenJobMenu
<1>6. ASSUME NEW d \in {"assignJobs", "transferJobs", "moveBack"}, OpenDialog(d)
      PROVE  /\ DOMAIN page' = PageFields /\ page'.day = page.day /\ page'.runs = page.runs
             /\ page'.selRuns = page.selRuns /\ page'.anchor = page.anchor
             /\ page'.linked = page.linked
  BY <1>6 DEF OpenDialog
<1> QED
  BY <1>1, <1>2, <1>3, <1>4, <1>5, <1>6

\* The runs fetched are of the date that the page has.
LEMMA RunsFetched == ASSUME PageOfDay(page), FetchRuns PROVE PageOfDay(page')
<1>1. page' = [page EXCEPT !.runs = {r \in RunIds : RunDay[r] = page.day}]
  BY DEF FetchRuns, Shows
<1>2. /\ DOMAIN page' = PageFields /\ page'.day = page.day
      /\ page'.runs = {r \in RunIds : RunDay[r] = page.day}
      /\ page'.selRuns = page.selRuns /\ page'.anchor = page.anchor /\ page'.linked = page.linked
  BY <1>1 DEF PageOfDay, PageFields
<1> QED
  BY <1>2 DEF PageOfDay

\* Another view keeps the selection.
LEMMA ViewChanged == ASSUME PageOfDay(page), NEW v, ChangeView(v) PROVE PageOfDay(page')
<1> DEFINE p == [page EXCEPT !.view = v, !.runs = {}]
<1>1. page' = Keyed(p)
  BY Zenon DEF ChangeView, Shows
<1>2. /\ DOMAIN p = PageFields /\ p.day = page.day /\ p.runs = {}
      /\ p.selRuns = page.selRuns /\ p.anchor = page.anchor /\ p.linked = page.linked
  BY DEF PageOfDay, PageFields
<1>3. PageOfDay(p)
  BY <1>2 DEF PageOfDay
<1> QED
  BY <1>1, <1>3, KeyedOfDay

\* A step of the page keeps its date together.
LEMMA PageStep == ASSUME PageOfDay(page), [RvNext]_rvVars PROVE PageOfDay(page')
<1>1. ASSUME UNCHANGED page PROVE PageOfDay(page')
  BY <1>1 DEF PageOfDay
<1>2. ASSUME page' = Closed(page) PROVE PageOfDay(page')
  BY <1>2, ClosedOfDay
<1>3. ASSUME Select PROVE PageOfDay(page')
  <2>1. CASE CloseMenu
    BY <1>2, <2>1 DEF CloseMenu, Shows
  <2>2. CASE Reload
    BY <2>2, FreshPage DEF Reload, Shows
  <2>3. ASSUME NEW j \in RvJobs, DragStart(j) PROVE PageOfDay(page')
    BY <1>1, <2>3 DEF DragStart
  <2> QED
    BY <1>3, <2>1, <2>2, <2>3, DayChanged, ViewChanged, RunSelected, RunMenuOpened, PageTouched
       DEF Select
<1>4. ASSUME Act PROVE PageOfDay(page')
  <2>1. ASSUME NEW r \in RunIds, TransferJobs(r) \/ Drop(r) PROVE PageOfDay(page')
    BY <1>1, <1>2, <2>1 DEF TransferJobs, Drop
  <2>2. ASSUME NEW keep \in BOOLEAN, MoveBack(keep) PROVE PageOfDay(page')
    BY <1>2, <2>2 DEF MoveBack
  <2>3. ASSUME NEW failed \in SUBSET RvJobs, AssignJobs(failed) PROVE PageOfDay(page')
    BY <1>2, <2>3 DEF AssignJobs
  <2>4. CASE VoidMenuJobs
    BY <1>2, <2>4 DEF VoidMenuJobs
  <2>5. ASSUME NEW l \in 1 .. MaxLoops, StartBulk(l) PROVE PageOfDay(page')
    BY <1>2, <2>5 DEF StartBulk
  <2> QED
    BY <1>4, <2>1, <2>2, <2>3, <2>4, <2>5, PageTouched DEF Act
<1>5. ASSUME NEW l \in 1 .. MaxLoops, NEW j \in RvJobs, NEW ok \in BOOLEAN, CallNext(l, j, ok)
      PROVE  PageOfDay(page')
  BY <1>1, <1>5 DEF CallNext
<1>6. ASSUME NEW j \in RvJobs, Elsewhere(j) PROVE PageOfDay(page')
  BY <1>1, <1>6 DEF Elsewhere
<1>7. CASE UNCHANGED rvVars
  BY <1>1, <1>7 DEF rvVars
<1> QED
  BY <1>3, <1>4, <1>5, <1>6, <1>7, RunsFetched, PageTouched, LinkAnswered DEF RvNext

\* A bulk action only gets shorter.
LEMMA LoopStep ==
  ASSUME loops \in [1 .. MaxLoops -> LoopRecord], [RvNext]_rvVars
  PROVE  loops' \in [1 .. MaxLoops -> LoopRecord]
<1>1. ASSUME NEW l \in 1 .. MaxLoops, StartBulk(l) PROVE loops' \in [1 .. MaxLoops -> LoopRecord]
  <2>1. [todo |-> MenuJobs(page), shown |-> RowsShown(page)] \in LoopRecord
    BY DEF MenuJobs, RowsShown, LoopRecord
  <2> QED
    BY <1>1, <2>1 DEF StartBulk
<1>2. ASSUME NEW l \in 1 .. MaxLoops, NEW j \in RvJobs, NEW ok \in BOOLEAN, CallNext(l, j, ok)
      PROVE  loops' \in [1 .. MaxLoops -> LoopRecord]
  <2>1. PICK rest : rest = [todo |-> loops[l].todo \ {j}, shown |-> loops[l].shown]
    OBVIOUS
  <2>2. rest \in LoopRecord
    BY <2>1 DEF LoopRecord
  <2>3. NoLoop \in LoopRecord
    BY DEF NoLoop, LoopRecord
  <2>4. loops' = [loops EXCEPT ![l] = IF loops[l].todo = {j} THEN NoLoop ELSE rest]
    BY <1>2, <2>1 DEF CallNext
  <2> QED
    BY <2>2, <2>3, <2>4
<1>3. ASSUME UNCHANGED loops PROVE loops' \in [1 .. MaxLoops -> LoopRecord]
  BY <1>3
<1>4. CASE Select
  BY <1>3, <1>4 DEF Select, ChangeDay, ChangeView, ToggleCancelled, SelectRun, SelectJob,
      OpenRunMenu,
       OpenJobMenu, DragStart, CloseMenu, Reload, Shows
<1>5. CASE Act
  BY <1>1, <1>3, <1>5 DEF Act, OpenDialog, TransferJobs, Drop, MoveBack, FetchAssignIds, AssignJobs,
       VoidMenuJobs, Shows
<1> QED
  BY <1>2, <1>3, <1>4, <1>5 DEF RvNext, rvVars, FetchRuns, FetchRunJobs, LinkAnswers, Elsewhere,
      Shows

\* The invariant holds throughout.
LEMMA ViewAlways == RvSpec => []ViewInv
<1>1. RvInit => ViewInv
  <2> SUFFICES ASSUME RvInit PROVE ViewInv
    OBVIOUS
  <2>1. PageOfDay(page)
    BY FreshPage DEF RvInit
  <2>2. NoLoop \in LoopRecord
    BY DEF NoLoop, LoopRecord
  <2> QED
    BY <2>1, <2>2 DEF RvInit, ViewInv
<1>2. ViewInv /\ [RvNext]_rvVars => ViewInv'
  BY PageStep, LoopStep DEF ViewInv, PageOfDay
<1> QED
  BY <1>1, <1>2, PTL DEF RvSpec

\* Any number of bulk actions, whatever others do to the rows meanwhile, call only for jobs that
\* were in the grid when they were chosen.
THEOREM BulkOfShown == RvSpec => []ActsOnShown
<1>1. ViewInv => ActsOnShown
  BY DEF ViewInv, LoopRecord, ActsOnShown
<1> QED
  BY <1>1, ViewAlways, PTL

\* For any runs and dates: no run of another date stays selected or anchored.
THEOREM SelectedOfTheDay == RvSpec => []SelectionOfTheDay
<1>1. ViewInv => SelectionOfTheDay
  BY DEF ViewInv, PageOfDay, SelectionOfTheDay
<1> QED
  BY <1>1, ViewAlways, PTL


-------------------------------------------------------------------------------


ScanRow == [day : ScDays \cup {0}, scanned : BOOLEAN]

GridRecord ==
  [day : ScDays, mode : Modes, filter : ScFilters, typed : Searches, search : Searches,
   page : Nat \ {0}, descending : BOOLEAN, sel : ScJobs \cup {0}, expanded : SUBSET ScJobs]

\* What a key's rows may be: jobs of its filter, on its date.
RowsOfKey(k) ==
  UNION {[S -> {row \in ScanRow : row.day = k[2]}] : S \in SUBSET k[3]}

\* The inductive invariant: whatever is cached under a key is of that key.
ScanInv ==
  /\ scans \in [ScJobs -> ScanRow]
  /\ grid \in GridRecord
  /\ DOMAIN scCache = ScKeys
  /\ \A k \in ScKeys : scCache[k].rows = << >> \/ scCache[k].rows \in RowsOfKey(k)

-------------------------------------------------------------------------------
(* Paging                                                                  *)

\* How many of F come before j.
Rank(F, j, down) == Cardinality({i \in F : IF down THEN i > j ELSE i < j})

\* The places of the rows are 0, 1, 2 and so on, each taken.
LEMMA EveryPlaceIsTaken ==
  ASSUME NEW F \in SUBSET Nat, IsFiniteSet(F), NEW down \in BOOLEAN
  PROVE  \A p \in 0 .. Cardinality(F) - 1 : \E j \in F : Rank(F, j, down) = p
<1> DEFINE n == Cardinality(F)
           Before(j) == {i \in F : IF down THEN i > j ELSE i < j}
           T == 0 .. n - 1
           f == [j \in F |-> Rank(F, j, down)]
<1>1. n \in Nat
  BY FS_CardinalityType
<1>2. \A j \in F : Before(j) \in SUBSET F /\ IsFiniteSet(Before(j)) /\ j \notin Before(j)
  <2> SUFFICES ASSUME NEW j \in F
               PROVE  Before(j) \in SUBSET F /\ IsFiniteSet(Before(j)) /\ j \notin Before(j)
    OBVIOUS
  <2>1. Before(j) \in SUBSET F /\ j \notin Before(j)
    OBVIOUS
  <2> HIDE DEF Before
  <2> QED
    BY <2>1, FS_Subset
<1>3. \A j \in F : Rank(F, j, down) = Cardinality(Before(j)) /\ Cardinality(Before(j)) \in Nat
  BY <1>2, FS_CardinalityType DEF Rank
<1>4. \A j \in F : Cardinality(Before(j)) < n
  <2> SUFFICES ASSUME NEW j \in F PROVE Cardinality(Before(j)) < n
    OBVIOUS
  <2>1. Before(j) # F
    BY <1>2
  <2>2. Cardinality(Before(j)) <= n /\ (n = Cardinality(Before(j)) => F = Before(j))
    <3> HIDE DEF Before
    <3> QED
      BY <1>2, FS_Subset
  <2> QED
    BY <1>1, <1>3, <2>1, <2>2
<1>5. f \in [F -> T]
  <2>1. \A j \in F : Rank(F, j, down) \in T
    <3> HIDE DEF n, Before
    <3> QED
      BY <1>1, <1>3, <1>4
  <2> QED
    BY <2>1, Zenon
<1>6. \A i, j \in F : i \in Before(j) => Rank(F, i, down) # Rank(F, j, down)
  <2> SUFFICES ASSUME NEW i \in F, NEW j \in F, i \in Before(j)
               PROVE  Cardinality(Before(i)) # Cardinality(Before(j))
    BY <1>3
  <2>1. Before(i) \subseteq Before(j)
    <3> SUFFICES ASSUME NEW x \in Before(i) PROVE x \in Before(j)
      OBVIOUS
    <3>1. x \in Nat /\ i \in Nat /\ j \in Nat
      OBVIOUS
    <3>2. CASE down
      BY <3>1, <3>2
    <3>3. CASE ~down
      BY <3>1, <3>3
    <3> QED
      BY <3>2, <3>3
  <2>2. Before(i) # Before(j)
    BY <1>2
  <2>3. Cardinality(Before(j)) = Cardinality(Before(i)) => Before(j) = Before(i)
    <3> HIDE DEF Before
    <3> QED
      BY <1>2, <2>1, FS_Subset
  <2> QED
    BY <2>2, <2>3
<1>7. \A i, j \in F : i # j => i \in Before(j) \/ j \in Before(i)
  OBVIOUS
<1>8. \A i, j \in F : f[i] = f[j] => i = j
  BY <1>6, <1>7
<1>9. f \in Injection(F, T)
  <2> HIDE DEF f, T
  <2> QED
    BY <1>5, <1>8 DEF Injection, IsInjective
<1>10. IsFiniteSet(T) /\ Cardinality(T) = n
  <2>1. 0 \in Int /\ n - 1 \in Int
    BY <1>1
  <2>2. IsFiniteSet(T) /\ Cardinality(T) = IF 0 > n - 1 THEN 0 ELSE n - 1 - 0 + 1
    <3> HIDE DEF n
    <3> QED
      BY <2>1, FS_Interval, Zenon
  <2>3. (IF 0 > n - 1 THEN 0 ELSE n - 1 - 0 + 1) = n
    BY <1>1
  <2> QED
    BY <2>2, <2>3
<1>11. f \in Surjection(F, T)
  <2> HIDE DEF f, T, n
  <2>1. Cardinality(F) = Cardinality(T) <=> f \in Surjection(F, T)
    BY <1>9, <1>10, FS_Injection
  <2> QED
    BY <1>10, <2>1 DEF n
<1> QED
  BY <1>11 DEF Surjection

\* A page within the last one has a first row.
LEMMA PageWithin ==
  ASSUME NEW n \in Nat \ {0}, NEW size \in Nat \ {0}, NEW p \in 1 .. ((n + size - 1) \div size)
  PROVE  /\ (p - 1) * size \in 0 .. n - 1
         /\ ((p - 1) * size) \div size = p - 1
<1>1. \A a \in Nat, b \in Nat \ {0} : (a \div b) * b <= a
  OBVIOUS
<1> QED
  BY <1>1

\* The page shown, where there is one, has rows.
LEMMA PageHasRows ==
  ASSUME ScanInv, GridFound(grid) # {}
  PROVE  GridPaged(grid) # {}
<1> DEFINE F == GridFound(grid)
           n == Cardinality(F)
           p == CurrentPage(grid)
<1>1. CASE grid.mode = "Routed"
  BY <1>1 DEF GridPaged
<1>2. CASE grid.mode # "Routed"
  <2>1. F \in SUBSET Nat /\ IsFiniteSet(F) /\ F # {}
    <3>1. ScKey(grid) \in ScKeys /\ grid.search \subseteq ScJobs
      BY ScAssumption DEF ScanInv, GridRecord, ScKey, ScKeys
    <3>2. F \subseteq grid.search
      BY DEF GridFound
    <3>3. F \in SUBSET ScJobs
      BY <3>1, <3>2
    <3> HIDE DEF F
    <3> QED
      BY <3>3, ScAssumption, FS_Subset DEF F
  <2>2. n \in Nat \ {0}
    <3> HIDE DEF F
    <3> QED
      BY <2>1, FS_CardinalityType, FS_EmptySet
  <2>3. GridPages(grid) = (n + BulkPage - 1) \div BulkPage
    BY <2>2 DEF GridPages
  <2>4. grid.page \in Nat \ {0} /\ BulkPage \in Nat \ {0} /\ grid.descending \in BOOLEAN
    BY ScAssumption DEF ScanInv, GridRecord
  <2>5. (n + BulkPage - 1) \div BulkPage \in Nat \ {0}
    <3> HIDE DEF n
    <3> QED
      BY <2>2, <2>4
  <2>6. p \in 1 .. ((n + BulkPage - 1) \div BulkPage)
    <3> HIDE DEF n
    <3> QED
      BY <2>3, <2>4, <2>5 DEF CurrentPage
  <2>7. (p - 1) * BulkPage \in 0 .. n - 1 /\ ((p - 1) * BulkPage) \div BulkPage = p - 1
    <3> HIDE DEF n, p
    <3> QED
      BY <2>2, <2>4, <2>6, PageWithin
  <2>8. PICK j \in F : Rank(F, j, grid.descending) = (p - 1) * BulkPage
    <3> HIDE DEF F, p
    <3> QED
      BY <2>1, <2>4, <2>7, EveryPlaceIsTaken
  <2>9. EarlierRows(grid, j) = Rank(F, j, grid.descending)
    BY DEF EarlierRows, Rank
  <2>10. j \in GridPaged(grid)
    BY <1>2, <2>7, <2>8, <2>9 DEF GridPaged
  <2> QED
    BY <2>10
<1> QED
  BY <1>1, <1>2

-------------------------------------------------------------------------------
\* The server answers a key with rows that fit it.
LEMMA RowsAnswered ==
  ASSUME ScanInv, NEW k \in ScKeys
  PROVE  ScanRows(k[1], k[2], k[3]) \in RowsOfKey(k)
<1>1. k[3] \subseteq ScJobs
  BY ScAssumption DEF ScKeys
<1> DEFINE D == {j \in k[3] : scans[j].day = k[2] /\ (k[1] = "Routed" => j \notin ScChildren)}
<1>2. D \in SUBSET k[3] /\ \A j \in D : scans[j].day = k[2]
  OBVIOUS
<1>3. ScanRows(k[1], k[2], k[3]) = [j \in D |-> scans[j]]
  BY DEF ScanRows
<1> HIDE DEF D
<1>4. \A j \in D : scans[j] \in {row \in ScanRow : row.day = k[2]}
  BY <1>1, <1>2 DEF ScanInv
<1>5. [j \in D |-> scans[j]] \in [D -> {row \in ScanRow : row.day = k[2]}]
  BY <1>4
<1> QED
  BY <1>2, <1>3, <1>5 DEF RowsOfKey

\* Neither grid has rows at the start.
LEMMA ScanStart == ScInit => ScanInv
<1> SUFFICES ASSUME ScInit PROVE ScanInv
  OBVIOUS
<1>1. scans \in [ScJobs -> ScanRow]
  BY DEF ScInit, ScanRow
<1>2. grid \in GridRecord
  <2>1. PICK day \in ScDays, m \in Modes : grid = NewGrid(day, m)
    BY DEF ScInit
  <2> QED
    BY <2>1, ScAssumption DEF NewGrid, GridRecord
<1> QED
  BY <1>1, <1>2 DEF ScInit, ScanInv, Unfetched

\* A step of the page that fetches nothing yet.
LEMMA KeepGrid ==
  ASSUME ScanInv, NEW g \in GridRecord, grid' = g, UNCHANGED <<scans, scCache>>
  PROVE  ScanInv'
  BY DEF ScanInv

\* The controls of the page refit or keep its number.
LEMMA KeepControls ==
  ASSUME ScanInv,
         \/ \E d \in ScDays : SetRunDate(d)
         \/ \E m \in Modes : SetMode(m)
         \/ \E f \in ScFilters : SetScanFilter(f)
         \/ \E s \in Searches : TypeSearch(s)
         \/ SearchSettles \/ TurnOrder
         \/ \E p \in 1 .. Cardinality(ScJobs) : TurnPage(p)
         \/ \E j \in ScJobs : SelectRow(j) \/ ToggleExpanded(j)
  PROVE  ScanInv'
<1>0. grid \in GridRecord
  BY DEF ScanInv
<1>1. ASSUME NEW d \in ScDays, SetRunDate(d) PROVE ScanInv'
  <2>1. [grid EXCEPT !.day = d, !.page = 1] \in GridRecord
    <3>1. PICK g : g = [grid EXCEPT !.day = d]
      OBVIOUS
    <3>2. g \in GridRecord
      BY <1>0, <3>1 DEF GridRecord
    <3>3. [g EXCEPT !.page = 1] \in GridRecord
      BY <3>2 DEF GridRecord
    <3>4. [g EXCEPT !.page = 1] = [grid EXCEPT !.day = d, !.page = 1]
      BY <1>0, <3>1 DEF GridRecord
    <3> QED
      BY <3>3, <3>4
  <2> QED
    BY <1>1, <2>1, KeepGrid DEF SetRunDate, LookAt
<1>2. ASSUME NEW m \in Modes, SetMode(m) PROVE ScanInv'
  <2>1. [grid EXCEPT !.mode = m, !.page = 1] \in GridRecord
    <3>1. PICK g : g = [grid EXCEPT !.mode = m]
      OBVIOUS
    <3>2. g \in GridRecord
      BY <1>0, <3>1 DEF GridRecord
    <3>3. [g EXCEPT !.page = 1] \in GridRecord
      BY <3>2 DEF GridRecord
    <3>4. [g EXCEPT !.page = 1] = [grid EXCEPT !.mode = m, !.page = 1]
      BY <1>0, <3>1 DEF GridRecord
    <3> QED
      BY <3>3, <3>4
  <2> QED
    BY <1>2, <2>1, KeepGrid DEF SetMode, LookAt
<1>3. ASSUME NEW f \in ScFilters, SetScanFilter(f) PROVE ScanInv'
  <2>1. [grid EXCEPT !.filter = f, !.page = 1] \in GridRecord
    <3>1. PICK g : g = [grid EXCEPT !.filter = f]
      OBVIOUS
    <3>2. g \in GridRecord
      BY <1>0, <3>1 DEF GridRecord
    <3>3. [g EXCEPT !.page = 1] \in GridRecord
      BY <3>2 DEF GridRecord
    <3>4. [g EXCEPT !.page = 1] = [grid EXCEPT !.filter = f, !.page = 1]
      BY <1>0, <3>1 DEF GridRecord
    <3> QED
      BY <3>3, <3>4
  <2> QED
    BY <1>3, <2>1, KeepGrid DEF SetScanFilter, LookAt
<1>4. ASSUME NEW s \in Searches, TypeSearch(s) PROVE ScanInv'
  <2>1. [grid EXCEPT !.typed = s] \in GridRecord
    BY <1>0 DEF GridRecord
  <2> QED
    BY <1>4, <2>1, KeepGrid DEF TypeSearch
<1>5. CASE SearchSettles
  <2>1. [grid EXCEPT !.search = grid.typed, !.page = 1] \in GridRecord
    <3>1. PICK g : g = [grid EXCEPT !.search = grid.typed]
      OBVIOUS
    <3>2. g \in GridRecord
      BY <1>0, <3>1 DEF GridRecord
    <3>3. [g EXCEPT !.page = 1] \in GridRecord
      BY <3>2 DEF GridRecord
    <3>4. [g EXCEPT !.page = 1] = [grid EXCEPT !.search = grid.typed, !.page = 1]
      BY <1>0, <3>1 DEF GridRecord
    <3> QED
      BY <3>3, <3>4
  <2> QED
    BY <1>5, <2>1, KeepGrid DEF SearchSettles
<1>6. CASE TurnOrder
  <2>1. PICK b \in BOOLEAN : b = ~grid.descending
    BY Zenon
  <2>2. grid' = [grid EXCEPT !.descending = b] /\ UNCHANGED <<scans, scCache>>
    BY <1>6, <2>1, Zenon DEF TurnOrder
  <2>3. [grid EXCEPT !.descending = b] \in GridRecord
    BY <1>0 DEF GridRecord
  <2> QED
    BY <2>2, <2>3, KeepGrid
<1>7. ASSUME NEW p \in 1 .. Cardinality(ScJobs), TurnPage(p) PROVE ScanInv'
  <2>1. p \in Nat \ {0}
    BY FS_CardinalityType, ScAssumption
  <2>2. [grid EXCEPT !.page = p] \in GridRecord
    BY <1>0, <2>1 DEF GridRecord
  <2> QED
    BY <1>7, <2>2, KeepGrid DEF TurnPage
<1>8. ASSUME NEW j \in ScJobs, SelectRow(j) PROVE ScanInv'
  <2>1. [grid EXCEPT !.sel = j] \in GridRecord
    BY <1>0 DEF GridRecord
  <2> QED
    BY <1>8, <2>1, KeepGrid DEF SelectRow
<1>9. ASSUME NEW j \in ScJobs, ToggleExpanded(j) PROVE ScanInv'
  <2>1. PICK e \in SUBSET ScJobs : grid' = [grid EXCEPT !.expanded = e]
    BY <1>0, <1>9 DEF ToggleExpanded, GridRecord
  <2>2. [grid EXCEPT !.expanded = e] \in GridRecord
    BY <1>0 DEF GridRecord
  <2> QED
    BY <1>9, <2>1, <2>2, KeepGrid DEF ToggleExpanded
<1> QED
  BY <1>1, <1>2, <1>3, <1>4, <1>5, <1>6, <1>7, <1>8, <1>9

\* Each step of the scan manager.
LEMMA ScanStep == ScanInv /\ [ScNext]_scVars => ScanInv'
<1> SUFFICES ASSUME ScanInv, [ScNext]_scVars PROVE ScanInv'
  OBVIOUS
<1>1. CASE PollScans
  BY <1>1 DEF PollScans, ScanInv
<1>2. CASE RemoveMissing
  <2>1. OffTheGrid \in ScanRow
    BY DEF OffTheGrid, ScanRow
  <2>2. scans' \in [ScJobs -> ScanRow] /\ UNCHANGED <<grid, scCache>>
    BY <1>2, <2>1 DEF RemoveMissing, ScanInv
  <2> QED
    BY <2>2 DEF ScanInv
<1>3. CASE ScansGoOn
  <2>1. PICK j \in ScJobs : \/ scans' = [scans EXCEPT ![j].scanned = TRUE]
                             \/ \E d \in ScDays : scans' = [scans EXCEPT ![j].day = d]
    BY <1>3 DEF ScansGoOn
  <2>2. scans' \in [ScJobs -> ScanRow]
    BY <2>1 DEF ScanInv, ScanRow
  <2>3. UNCHANGED <<grid, scCache>>
    BY <1>3 DEF ScansGoOn
  <2> QED
    BY <2>2, <2>3 DEF ScanInv
<1>4. ASSUME NEW k \in ScKeys, AnswerScans(k) PROVE ScanInv'
  <2>1. PICK rows \in RowsOfKey(k) : rows = ScanRows(k[1], k[2], k[3])
    BY RowsAnswered
  <2>2. scCache' = [scCache EXCEPT ![k] = [read |-> TRUE, rows |-> rows]]
    BY <1>4, <2>1, Zenon DEF AnswerScans
  <2>3. DOMAIN scCache' = ScKeys /\ scCache'[k].rows = rows
        /\ \A i \in ScKeys \ {k} : scCache'[i] = scCache[i]
    BY <2>2 DEF ScanInv
  <2> QED
    BY <1>4, <2>1, <2>3 DEF AnswerScans, ScanInv, RowsOfKey
<1>5. CASE UNCHANGED scVars
  BY <1>5 DEF scVars, ScanInv
<1> QED
  BY <1>1, <1>2, <1>3, <1>4, <1>5, KeepControls DEF ScNext

\* For any jobs, dates, filters, searches and page size, whatever is polled, removed or answered
\* late: the grid shows rows of what is set above it, and no empty page while there are rows.
THEOREM GridKept == ScSpec => []GridIsOfItsFilters
<1>1. ASSUME ScanInv PROVE GridIsOfItsFilters
  <2>1. ScKey(grid) \in ScKeys /\ ScKey(grid)[2] = grid.day /\ ScKey(grid)[3] = grid.filter
    BY <1>1 DEF ScanInv, GridRecord, ScKey, ScKeys
  <2>2. \A j \in DOMAIN GridRows(grid) : GridRows(grid)[j].day = grid.day /\ j \in grid.filter
    <3>1. CASE scCache[ScKey(grid)].rows = << >>
      BY <3>1 DEF GridRows
    <3>2. CASE scCache[ScKey(grid)].rows # << >>
      <4>1. GridRows(grid) \in RowsOfKey(ScKey(grid))
        BY <1>1, <2>1, <3>2 DEF ScanInv, GridRows
      <4>2. PICK S \in SUBSET grid.filter :
               GridRows(grid) \in [S -> {row \in ScanRow : row.day = grid.day}]
        BY <2>1, <4>1 DEF RowsOfKey
      <4> QED
        BY <4>2
    <3> QED
      BY <3>1, <3>2
  <2>3. GridDrawn(grid) \subseteq DOMAIN GridRows(grid)
    BY DEF GridDrawn, GridPaged, GridFound
  <2> QED
    BY <1>1, <2>2, <2>3, PageHasRows DEF GridIsOfItsFilters
<1> QED
  BY <1>1, ScanStart, ScanStep, PTL DEF ScSpec

-------------------------------------------------------------------------------
(* Choosing among the places of a sequence                                 *)

\* The places of a sequence that are chosen, one after the other.
LEMMA NthPlace ==
  ASSUME NEW A \in SUBSET Nat, IsFiniteSet(A), NEW n \in 1 .. Cardinality(A),
         NEW i, i = CHOOSE j \in A : Cardinality({k \in A : k < j}) = n - 1
  PROVE  i \in A /\ Cardinality({k \in A : k < i}) = n - 1
<1>1. Cardinality(A) \in Nat
  BY FS_CardinalityType
<1>2. n - 1 \in 0 .. Cardinality(A) - 1
  BY <1>1
<1>3. PICK j \in A : Rank(A, j, FALSE) = n - 1
  BY <1>2, EveryPlaceIsTaken
<1>4. Cardinality({k \in A : k < j}) = n - 1
  BY <1>3 DEF Rank
<1> QED
  BY <1>4

\* A function written by its values.
LEMMA Into ==
  ASSUME NEW D, NEW R, NEW f, f = [d \in D |-> f[d]], \A d \in D : f[d] \in R
  PROVE  f \in [D -> R]
  OBVIOUS

\* The elements of s at the places A.
Selected(s, A) ==
  [n \in 1 .. Cardinality(A) |-> s[CHOOSE i \in A : Cardinality({k \in A : k < i}) = n - 1]]

\* The places in their order give a sequence of as many elements, each of s.
LEMMA Chosen ==
  ASSUME NEW A \in SUBSET Nat, IsFiniteSet(A), NEW s, NEW S, \A i \in A : s[i] \in S
  PROVE  /\ Selected(s, A) \in Seq(S) /\ Len(Selected(s, A)) = Cardinality(A)
         /\ \A n \in DOMAIN Selected(s, A) : \E i \in A : Selected(s, A)[n] = s[i]
<1> DEFINE t == Selected(s, A)
<1>1. Cardinality(A) \in Nat
  BY FS_CardinalityType
<1>2. ASSUME NEW n \in 1 .. Cardinality(A) PROVE \E i \in A : t[n] = s[i]
  <2> DEFINE i == CHOOSE i \in A : Cardinality({k \in A : k < i}) = n - 1
  <2>1. t[n] = s[i]
    BY DEF Selected
  <2>2. i \in A
    BY NthPlace
  <2> QED
    BY <2>1, <2>2
<1>3. DOMAIN t = 1 .. Cardinality(A) /\ t = [n \in 1 .. Cardinality(A) |-> t[n]]
  BY DEF Selected
<1> HIDE DEF t
<1>4. t \in [1 .. Cardinality(A) -> S]
  <2>1. t = [n \in 1 .. Cardinality(A) |-> t[n]]
    BY <1>3
  <2>2. \A n \in 1 .. Cardinality(A) : t[n] \in S
    BY <1>2
  <2> QED
    BY <2>1, <2>2, Into, Zenon
<1>5. t \in Seq(S)
  BY <1>1, <1>4, SeqDef
<1>6. Len(t) = Cardinality(A)
  BY <1>1, <1>3, <1>5, LenProperties
<1> QED
  BY <1>2, <1>3, <1>5, <1>6 DEF t

\* The places of a sequence are finitely many numbers.
LEMMA PlacesFinite ==
  ASSUME NEW S, NEW s \in Seq(S), NEW A \in SUBSET DOMAIN s
  PROVE  A \in SUBSET Nat /\ IsFiniteSet(A)
<1>1. DOMAIN s = 1 .. Len(s) /\ Len(s) \in Nat
  BY LenProperties
<1>2. IsFiniteSet(1 .. Len(s))
  BY <1>1, FS_Interval
<1> QED
  BY <1>1, <1>2, FS_Subset

\* A finite set of numbers that is not empty has a least and a greatest one.
LEMMA Extremes ==
  ASSUME NEW A \in SUBSET Nat, IsFiniteSet(A), A # {}
  PROVE  (\E i \in A : \A k \in A : i <= k) /\ (\E i \in A : \A k \in A : k <= i)
<1>1. 0 \in 0 .. Cardinality(A) - 1
  BY FS_CardinalityType, FS_EmptySet
<1>2. ASSUME NEW down \in BOOLEAN
      PROVE  \E i \in A : {k \in A : IF down THEN k > i ELSE k < i} = {}
  <2>1. PICK i \in A : Rank(A, i, down) = 0
    BY <1>1, EveryPlaceIsTaken
  <2> DEFINE B == {k \in A : IF down THEN k > i ELSE k < i}
  <2>2. Cardinality(B) = 0 /\ B \subseteq A
    BY <2>1 DEF Rank
  <2>3. B = {}
    <3> HIDE DEF B
    <3> QED
      BY <2>2, FS_Subset, FS_EmptySet
  <2> QED
    BY <2>3
<1>3. PICK i \in A : {k \in A : IF FALSE THEN k > i ELSE k < i} = {}
  BY <1>2
<1>4. PICK j \in A : {k \in A : IF TRUE THEN k > j ELSE k < j} = {}
  BY <1>2
<1>5. \A k \in A : i <= k
  BY <1>3
<1>6. \A k \in A : k <= j
  BY <1>4
<1> QED
  BY <1>5, <1>6

-------------------------------------------------------------------------------
(* The polygon page                                                        *)

Shape == [of : Polygons \cup {Draft} \cup Drawings, by : Seq(Edits \cup {"none"})]

\* What a shape of the polygon, or of the draft, is of.
Owners(id) == IF id = Draft THEN Drawings ELSE {id}

FitsItsId(shape, id) == shape \in Shape /\ (shape = NoShape \/ shape.of \in Owners(id))

IsDraft(shape) == FitsItsId(shape, Draft)

PbMode == [on : {"view", "stroke", "shape"}, id : Polygons \cup {Draft}]

\* A snapshot is of the polygon whose edit it undoes.
Snap == {snap \in [id : Polygons \cup {Draft}, rings : Shape] : snap.rings.of \in Owners(snap.id)}

Kept(list) == list \in [Polygons -> Shape] /\ \A p \in Polygons : FitsItsId(list[p], p)

Saw(list) ==
  /\ list \in [Polygons \cup {Draft} -> Shape]
  /\ \A i \in Polygons \cup {Draft} : FitsItsId(list[i], i)

CallFitsShape(c) ==
  /\ DOMAIN c = {"n", "kind", "id", "rings", "prior"}
  /\ c.kind \in {"commit", "op", "undo"} =>
       c.id \in Polygons /\ c.rings \in Shape /\ c.rings.of = c.id /\ FitsItsId(c.prior, c.id)
  /\ c.kind \in {"create", "convert"} => c.rings \in Shape
  /\ c.kind = "remove" => c.id \in Polygons

\* The inductive invariant: every shape there is, in whatever copy, is of its polygon.
PolyInv ==
  /\ Kept(stored) /\ Kept(listed) /\ IsDraft(draft)
  /\ mode \in PbMode /\ op \in Polygons \cup {Draft, NoOp}
  /\ Saw(seen) /\ FitsItsId(drawn, mode.id)
  /\ undo \in Seq(Snap)
  /\ \A c \in calls : CallFitsShape(c)

\* What a shape of a polygon or of the draft is of is not what no shape is of.
LEMMA OwnersApart ==
  /\ \A d \in Drawings : d # Draft /\ d \notin Polygons
  /\ \A p \in Polygons : p # Draft /\ Owners(p) = {p}
  /\ Owners(Draft) = Drawings
  /\ \A id \in Polygons \cup {Draft} : Draft \notin Owners(id) /\ NoShape.of \notin Owners(id)
<1>1. \A d \in Drawings : \E n \in 1 .. MaxDrawings : d = -n
  BY DEF Drawings
<1>2. \A d \in Drawings : d # Draft /\ d \notin Polygons
  BY <1>1, PbAssumption DEF Draft
<1>3. \A p \in Polygons : p # Draft
  BY PbAssumption DEF Draft
<1> QED
  BY <1>2, <1>3 DEF Owners, NoShape, Draft

\* No shape is of any polygon.
LEMMA NoneFits == ASSUME NEW id PROVE FitsItsId(NoShape, id) /\ IsDraft(NoShape)
<1>1. <<"none">> \in Seq(Edits \cup {"none"})
  OBVIOUS
<1> QED
  BY <1>1 DEF FitsItsId, IsDraft, Shape, NoShape, Draft

\* An edit changes a shape's vertices and not its polygon.
LEMMA EditedFits ==
  ASSUME NEW s \in Shape, NEW e \in Edits
  PROVE  Edited(s, e) \in Shape /\ Edited(s, e).of = s.of
<1>1. Append(s.by, e) \in Seq(Edits \cup {"none"})
  BY DEF Shape
<1> QED
  BY <1>1 DEF Edited, Shape

\* The undo stack with one more entry, the oldest dropped at the cap.
LEMMA PushedSnaps ==
  ASSUME NEW S, NEW u \in Seq(S), NEW x \in S
  PROVE  Pushed(u, x) \in Seq(S)
<1>1. Len(u) \in Nat /\ MaxUndo \in Nat \ {0}
  BY PbAssumption, LenProperties
<1>2. Append(u, x) \in Seq(S)
  BY AppendProperties
<1>3. ASSUME ~(Len(u) < MaxUndo) PROVE Append(Tail(u), x) \in Seq(S)
  <2>1. u # << >>
    BY <1>1, <1>3
  <2>2. Tail(u) \in Seq(S)
    BY <2>1, HeadTailProperties
  <2> QED
    BY <2>2, AppendProperties
<1> QED
  BY <1>2, <1>3 DEF Pushed

\* The snapshots of saved polygons.
SavedSnap == {snap \in Snap : snap.id # Draft}

\* discardPending leaves the entries of the stack that are of saved polygons.
LEMMA DraftsOut ==
  ASSUME NEW u \in Seq(Snap)
  PROVE  WithoutDraft(u) \in Seq(SavedSnap) /\ WithoutDraft(u) \in Seq(Snap)
<1> DEFINE A == {i \in DOMAIN u : u[i].id # Draft}
           t == WithoutDraft(u)
<1>1. A \in SUBSET Nat /\ IsFiniteSet(A)
  BY PlacesFinite
<1>2. t = Selected(u, A)
  BY DEF WithoutDraft, Selected
<1>3. \A i \in A : u[i] \in Snap
  BY ElementOfSeq
<1>4. \A i \in A : u[i] \in SavedSnap
  BY <1>3 DEF SavedSnap
<1> HIDE DEF A, t
<1>5. t \in Seq(Snap) /\ t \in Seq(SavedSnap)
  BY <1>1, <1>2, <1>3, <1>4, Chosen
<1> QED
  BY <1>5 DEF t

\* The discarding loop ends on the snapshot of the polygon that asks.
LEMMA OwnOnTop ==
  ASSUME NEW S, NEW u \in Seq(S), NEW id, \E i \in DOMAIN u : u[i].id = id
  PROVE  /\ Last(Orphanless(u, id)) \in S /\ Last(Orphanless(u, id)).id = id
         /\ Front(Orphanless(u, id)) \in Seq(S)
<1> DEFINE own == {i \in DOMAIN u : u[i].id = id}
           n == CHOOSE n \in own \cup {0} : \A i \in own : i <= n
           t == SubSeq(u, 1, n)
<1>1. own \in SUBSET Nat /\ IsFiniteSet(own) /\ own # {}
  BY PlacesFinite
<1>2. DOMAIN u = 1 .. Len(u) /\ Len(u) \in Nat
  BY LenProperties
<1>3. PICK m \in own : \A i \in own : i <= m
  <2> HIDE DEF own
  <2> QED
    BY <1>1, Extremes
<1>4. n \in own \cup {0} /\ \A i \in own : i <= n
  <2> HIDE DEF own
  <2> QED
    BY <1>3
<1>5. n \in own
  <2>1. own \subseteq Nat \ {0}
    BY <1>2
  <2> HIDE DEF n, own
  <2> QED
    BY <1>3, <1>4, <2>1
<1>6. n \in 1 .. Len(u) /\ u[n].id = id
  BY <1>2, <1>5
<1> HIDE DEF n, own
<1>7. t \in Seq(S) /\ Len(t) = n /\ t[n] = u[n]
  BY <1>2, <1>6, SubSeqProperties
<1>8. u[n] \in S
  BY <1>6, ElementOfSeq
<1>9. Orphanless(u, id) = t
  BY DEF Orphanless, t, n, own
<1> HIDE DEF t
<1>10. Last(t) = u[n] /\ Front(t) \in Seq(S)
  BY <1>6, <1>7, SubSeqProperties DEF Last, Front
<1> QED
  BY <1>6, <1>8, <1>9, <1>10

\* What a change of mode makes of the closure and the handles.
LEMMA Turned ==
  ASSUME PolyInv, NEW m \in PbMode, NEW d, IsDraft(d), NEW list, Kept(list), NEW saved,
         mode' = m, Closure(m), Handles(m, d, list, saved)
  PROVE  mode' \in PbMode /\ Saw(seen') /\ FitsItsId(drawn', mode'.id)
<1> USE DEF PolyInv
<1>1. \A i \in Polygons : i # Draft
  BY OwnersApart
<1>2. Saw(NothingSeen)
  BY NoneFits DEF Saw, NothingSeen, FitsItsId
<1>3. Saw([i \in Polygons \cup {Draft} |-> IF i = Draft THEN draft ELSE listed[i]])
  BY <1>1 DEF Saw, Kept, IsDraft, FitsItsId
<1>4. Saw(seen')
  BY <1>2, <1>3 DEF Closure
<1>5. FitsItsId(d, Draft)
  BY DEF IsDraft, FitsItsId
<1>6. CASE m.on # "shape"
  BY <1>4, <1>6, NoneFits DEF Handles
<1>7. CASE m.on = "shape" /\ m.id = Draft
  BY <1>4, <1>5, <1>7 DEF Handles
<1>8. CASE m.on = "shape" /\ m.id # Draft
  <2>1. m.id \in Polygons
    BY <1>8 DEF PbMode
  <2> QED
    BY <1>4, <1>8, <2>1 DEF Handles, Kept
<1> QED
  BY <1>6, <1>7, <1>8

\* Entering a mode shows the shape of the polygon that it is about.
LEMMA TurnedTo ==
  ASSUME PolyInv, NEW m \in PbMode, IsDraft(draft'), Kept(listed'), Turn(m)
  PROVE  mode' \in PbMode /\ Saw(seen') /\ FitsItsId(drawn', mode'.id)
  BY Turned DEF Turn

\* The modes that the page starts and ends in.
LEMMA ModesTyped ==
  /\ View \in PbMode /\ Stroke \in PbMode
  /\ \A id \in Polygons \cup {Draft} : ShapeOf(id) \in PbMode /\ ShapeOf(id).id = id
  BY DEF View, Stroke, ShapeOf, PbMode

-------------------------------------------------------------------------------
\* A call carries a shape with its own polygon.
LEMMA Asked ==
  ASSUME PolyInv, NEW kind, NEW id, NEW rings, NEW prior, Ask(kind, id, rings, prior),
         kind \in {"commit", "op", "undo"} =>
           id \in Polygons /\ rings \in Shape /\ rings.of = id /\ FitsItsId(prior, id),
         kind \in {"create", "convert"} => rings \in Shape,
         kind = "remove" => id \in Polygons
  PROVE  \A c \in calls' : CallFitsShape(c)
<1> DEFINE new == [n |-> NextCall, kind |-> kind, id |-> id, rings |-> rings, prior |-> prior]
<1>1. CallFitsShape(new)
  BY DEF CallFitsShape
<1>2. calls' = calls \cup {new}
  BY DEF Ask
<1> HIDE DEF new
<1> QED
  BY <1>1, <1>2 DEF PolyInv

\* Strokes and the draft.
LEMMA StrokeKept ==
  ASSUME PolyInv,
         \/ StartStroke \/ StartOp \/ CancelStroke \/ FinishNew
         \/ \E p \in Polygons : StartEdit(p)
         \/ StopEdit \/ DiscardDraft
  PROVE  PolyInv'
<1>1. /\ Kept(stored) /\ Kept(listed) /\ IsDraft(draft) /\ undo \in Seq(Snap)
      /\ mode \in PbMode /\ op \in Polygons \cup {Draft, NoOp}
      /\ \A c \in calls : CallFitsShape(c)
  BY DEF PolyInv
<1>2. /\ stored' = stored /\ listed' = listed /\ calls' = calls
  BY DEF StartStroke, StartOp, CancelStroke, FinishNew, StartEdit, StopEdit, DiscardDraft
<1>3. IsDraft(draft')
  <2>1. CASE FinishNew
    <3>1. PICK d \in Drawings : draft' = [of |-> d, by |-> <<>>]
      BY <2>1 DEF FinishNew, NewDrawings
    <3>2. draft' \in Shape
      BY <3>1, EmptySeq DEF Shape
    <3> QED
      BY <3>1, <3>2, OwnersApart DEF IsDraft, FitsItsId
  <2>2. CASE DiscardDraft
    BY <2>2, NoneFits DEF DiscardDraft
  <2> QED
    BY <1>1, <2>1, <2>2 DEF StartStroke, StartOp, CancelStroke, StartEdit, StopEdit
<1>4. op' \in Polygons \cup {Draft, NoOp}
  BY <1>1 DEF StartStroke, StartOp, CancelStroke, FinishNew, StartEdit, StopEdit, DiscardDraft,
              PbMode
<1>5. undo' \in Seq(Snap)
  <2>1. CASE DiscardDraft
    BY <1>1, <2>1, DraftsOut DEF DiscardDraft
  <2>2. CASE StopEdit
    BY <2>2, EmptySeq DEF StopEdit
  <2> QED
    BY <1>1, <2>1, <2>2 DEF StartStroke, StartOp, CancelStroke, FinishNew, StartEdit
<1>6. \E m \in PbMode : Turn(m)
  <2>1. CASE CancelStroke
    BY <1>1, <2>1, ModesTyped DEF CancelStroke, NoOp
  <2> QED
    BY <2>1, ModesTyped DEF StartStroke, StartOp, FinishNew, StartEdit, StopEdit, DiscardDraft
<1>7. mode' \in PbMode /\ Saw(seen') /\ FitsItsId(drawn', mode'.id)
  BY <1>1, <1>2, <1>3, <1>6, TurnedTo
<1> QED
  BY <1>1, <1>2, <1>3, <1>4, <1>5, <1>7 DEF PolyInv

\* A gesture on the draft ends.
LEMMA DraftOpKept ==
  ASSUME PolyInv, NEW changes \in BOOLEAN, FinishDraftOp(changes)
  PROVE  PolyInv'
<1>1. /\ stored' = stored /\ listed' = listed /\ calls' = calls /\ op' = NoOp
  BY DEF FinishDraftOp
<1>2. seen[Draft] # NoShape => seen[Draft] \in Shape /\ seen[Draft].of \in Owners(Draft)
  BY DEF PolyInv, Saw, FitsItsId
<1>3. "cut" \in Edits
  BY DEF Edits
<1>4. IsDraft(draft')
  BY <1>2, <1>3, EditedFits DEF FinishDraftOp, IsDraft, FitsItsId, PolyInv
<1>5. undo' \in Seq(Snap)
  <2>1. PICK x : x = [id |-> Draft, rings |-> seen[Draft]]
    OBVIOUS
  <2>2. seen[Draft] # NoShape => x \in Snap
    BY <1>2, <2>1 DEF Snap
  <2> QED
    BY <2>1, <2>2, PushedSnaps DEF FinishDraftOp, PolyInv
<1>6. mode' \in PbMode /\ Saw(seen') /\ FitsItsId(drawn', mode'.id)
  BY <1>1, <1>4, TurnedTo, ModesTyped DEF FinishDraftOp, PolyInv
<1> QED
  BY <1>1, <1>4, <1>5, <1>6 DEF PolyInv

\* A gesture on a stored polygon ends and is saved.
LEMMA SavedOpKept == ASSUME PolyInv, FinishSavedOp PROVE PolyInv'
<1>1. /\ UNCHANGED <<stored, listed, draft, mode, seen, drawn>> /\ op \in Polygons /\ op' = NoOp
  BY DEF FinishSavedOp
<1>2. seen[op] \in Shape /\ seen[op].of = op
  BY <1>1, OwnersApart DEF PolyInv, Saw, FitsItsId, FinishSavedOp, CanEdit
<1>3. Edited(seen[op], "cut") \in Shape /\ Edited(seen[op], "cut").of = op
  BY <1>2, EditedFits DEF Edits
<1>4. undo' \in Seq(Snap)
  <2>1. PICK x : x = [id |-> op, rings |-> seen[op]]
    OBVIOUS
  <2>2. x \in Snap
    BY <1>1, <1>2, <2>1, OwnersApart DEF Snap
  <2> QED
    BY <2>1, <2>2, PushedSnaps DEF FinishSavedOp, PolyInv
<1>5. \A c \in calls' : CallFitsShape(c)
  BY <1>1, <1>3, NoneFits, Asked DEF FinishSavedOp
<1> QED
  BY <1>1, <1>4, <1>5 DEF PolyInv

\* A handle of the draft.
LEMMA HandleKept == ASSUME PolyInv, MoveDraft \/ CutDraft PROVE PolyInv'
<1>1. /\ UNCHANGED <<stored, listed, mode, op, seen, calls>> /\ mode.id = Draft /\ draft' = drawn'
      /\ drawn # NoShape
  BY DEF MoveDraft, CutDraft, Shaping, ShapeOf, CanEdit
<1>2. drawn \in Shape /\ drawn.of \in Owners(Draft)
  BY <1>1 DEF PolyInv, FitsItsId
<1>3. drawn' \in Shape /\ drawn'.of \in Owners(Draft)
  BY <1>2, EditedFits DEF MoveDraft, CutDraft, Edits
<1>4. PICK x \in {drawn, drawn'} : undo' = Pushed(undo, [id |-> Draft, rings |-> x])
  BY DEF MoveDraft, CutDraft
<1>5. PICK snap : snap = [id |-> Draft, rings |-> x]
  OBVIOUS
<1>6. snap \in Snap
  BY <1>2, <1>3, <1>4, <1>5 DEF Snap
<1>7. undo' \in Seq(Snap)
  BY <1>4, <1>5, <1>6, PushedSnaps DEF PolyInv
<1> QED
  BY <1>1, <1>3, <1>7 DEF PolyInv, IsDraft, FitsItsId

\* A handle of a saved polygon.
LEMMA SavedHandleKept == ASSUME PolyInv, NEW e \in Edits, EditSaved(e) PROVE PolyInv'
<1>1. /\ UNCHANGED <<stored, listed, draft, mode, op, seen, undo>> /\ drawn # NoShape
      /\ mode.id \in Polygons
  BY DEF EditSaved, CanEdit, PolyInv, PbMode
<1>2. drawn \in Shape /\ drawn.of = mode.id
  BY <1>1, OwnersApart DEF PolyInv, FitsItsId
<1>3. drawn' \in Shape /\ drawn'.of = mode.id
  BY <1>2, EditedFits DEF EditSaved
<1>4. FitsItsId(listed[mode.id], mode.id)
  BY <1>1 DEF PolyInv, Kept
<1>5. \A c \in calls' : CallFitsShape(c)
  BY <1>1, <1>3, <1>4, Asked DEF EditSaved
<1> QED
  BY <1>1, <1>3, <1>5, OwnersApart DEF PolyInv, FitsItsId

\* The page's other calls.
LEMMA AskedKept ==
  ASSUME PolyInv, SaveDraft \/ AskConvert \/ AskName \/ \E p \in Polygons : AskRemove(p)
  PROVE  PolyInv'
<1>1. UNCHANGED <<stored, listed, draft, mode, op, seen, drawn, undo>>
  BY DEF SaveDraft, AskConvert, AskName, AskRemove
<1>2. \A c \in calls' : CallFitsShape(c)
  <2>1. CASE SaveDraft
    BY <2>1, Asked DEF SaveDraft, PolyInv, IsDraft, FitsItsId
  <2>2. CASE AskConvert
    <3>1. [of |-> Draft, by |-> <<>>] \in Shape
      BY EmptySeq DEF Shape
    <3> QED
      BY <2>2, <3>1, Asked DEF AskConvert
  <2>3. CASE AskName
    BY <2>3 DEF AskName, PolyInv
  <2>4. ASSUME NEW p \in Polygons, AskRemove(p) PROVE \A c \in calls' : CallFitsShape(c)
    BY <2>4, Asked DEF AskRemove
  <2> QED
    BY <2>1, <2>2, <2>3, <2>4
<1> QED
  BY <1>1, <1>2 DEF PolyInv

\* Undo restores the shape on top of the stack to the polygon it was taken of.
LEMMA UndoKept == ASSUME PolyInv, Undo PROVE PolyInv'
<1> DEFINE stack == Orphanless(undo, mode.id)
           snap == Last(stack)
<1>1. undo \in Seq(Snap) /\ mode \in PbMode /\ Kept(stored) /\ Kept(listed) /\ IsDraft(draft)
  BY DEF PolyInv
<1>2. UNCHANGED <<stored, listed, op>> /\ Turn(mode) /\ undo' = Front(stack)
  BY DEF Undo
<1>3. snap \in Snap /\ snap.id = mode.id /\ Front(stack) \in Seq(Snap)
  <2>1. \E i \in DOMAIN undo : undo[i].id = mode.id
    BY DEF Undo
  <2> QED
    BY <1>1, <2>1, OwnOnTop
<1>4. IF mode.id = Draft THEN draft' = snap.rings /\ calls' = calls
      ELSE Ask("undo", mode.id, snap.rings, NoShape) /\ draft' = draft
  BY DEF Undo
<1> HIDE DEF snap, stack
<1>5. snap.rings \in Shape /\ snap.rings.of \in Owners(mode.id)
  BY <1>3 DEF Snap
<1>6. IsDraft(draft')
  BY <1>1, <1>4, <1>5 DEF IsDraft, FitsItsId
<1>7. \A c \in calls' : CallFitsShape(c)
  <2>1. CASE mode.id = Draft
    BY <1>4, <2>1 DEF PolyInv
  <2>2. CASE mode.id # Draft
    <3>1. mode.id \in Polygons
      BY <1>1, <2>2 DEF PbMode
    <3> QED
      BY <1>4, <1>5, <2>2, <3>1, NoneFits, OwnersApart, Asked
  <2> QED
    BY <2>1, <2>2
<1>8. mode' \in PbMode /\ Saw(seen') /\ FitsItsId(drawn', mode'.id)
  BY <1>1, <1>2, <1>6, TurnedTo
<1> QED
  BY <1>1, <1>2, <1>3, <1>6, <1>7, <1>8 DEF PolyInv

-------------------------------------------------------------------------------
(* Answers                                                                 *)

\* A list with one entry replaced by a shape of the same polygon.
LEMMA MappedKept ==
  ASSUME NEW list, Kept(list), NEW id \in Polygons, NEW shape, FitsItsId(shape, id)
  PROVE  Kept([list EXCEPT ![id] = shape]) /\ Kept(Mapped(list, id, shape))
<1>1. Kept([list EXCEPT ![id] = shape])
  BY DEF Kept, FitsItsId
<1> QED
  BY <1>1 DEF Mapped

\* A save is answered.
LEMMA SavedKept ==
  ASSUME PolyInv, NEW c \in calls, calls' = calls \ {c}, Saved(c)
  PROVE  PolyInv'
<1>1. /\ Kept(stored) /\ Kept(listed) /\ IsDraft(draft) /\ undo \in Seq(Snap)
      /\ mode \in PbMode /\ CallFitsShape(c)
  BY DEF PolyInv
<1>2. UNCHANGED <<draft, op>> /\ c.kind \in {"commit", "op", "undo"}
  BY DEF Saved
<1>3. c.id \in Polygons /\ FitsItsId(c.rings, c.id) /\ FitsItsId(c.prior, c.id)
  BY <1>1, <1>2, OwnersApart DEF CallFitsShape, FitsItsId
<1>4. Kept(stored') /\ Kept(listed')
  BY <1>1, <1>3, MappedKept DEF Saved
<1>5. undo' \in Seq(Snap)
  <2>1. CASE c.kind = "commit" /\ c.prior # NoShape
    <3>1. PICK x : x = [id |-> c.id, rings |-> c.prior]
      OBVIOUS
    <3>2. x \in Snap
      BY <1>3, <2>1, <3>1 DEF Snap, FitsItsId
    <3> QED
      BY <1>1, <2>1, <3>1, <3>2, PushedSnaps DEF Saved
  <2> QED
    BY <1>1, <2>1 DEF Saved
<1>6. \E m \in PbMode : mode' = m /\ Closure(m) /\ Handles(m, draft, listed', c.id)
  BY <1>1, <1>3, ModesTyped DEF Saved
<1>7. mode' \in PbMode /\ Saw(seen') /\ FitsItsId(drawn', mode'.id)
  BY <1>1, <1>4, <1>6, Turned
<1> QED
  BY <1>1, <1>2, <1>4, <1>5, <1>7 DEF PolyInv

\* A save fails: the undo stack is as it was before the call.
LEMMA NotSavedKept ==
  ASSUME PolyInv, NEW c \in calls, calls' = calls \ {c}, NotSaved(c)
  PROVE  PolyInv'
<1>1. /\ Kept(stored) /\ Kept(listed) /\ IsDraft(draft) /\ undo \in Seq(Snap)
      /\ mode \in PbMode /\ CallFitsShape(c)
  BY DEF PolyInv
<1>2. UNCHANGED <<stored, listed, draft, op>> /\ c.kind \in {"commit", "op", "undo"}
  BY DEF NotSaved
<1>3. c.id \in Polygons /\ c.rings \in Shape /\ c.rings.of = c.id
  BY <1>1, <1>2 DEF CallFitsShape
<1>4. undo' \in Seq(Snap)
  <2>1. CASE c.kind = "op"
    <3>1. Popped(undo) \in Seq(Snap)
      BY <1>1, EmptySeq, SubSeqProperties, LenProperties DEF Popped, Front
    <3> QED
      BY <2>1, <3>1 DEF NotSaved
  <2>2. CASE c.kind = "undo"
    <3>1. PICK x : x = [id |-> c.id, rings |-> c.rings]
      OBVIOUS
    <3>2. x \in Snap
      BY <1>3, <3>1, OwnersApart DEF Snap
    <3> QED
      BY <1>1, <2>2, <3>1, <3>2, AppendProperties DEF NotSaved
  <2>3. CASE c.kind = "commit"
    BY <1>1, <2>3 DEF NotSaved
  <2> QED
    BY <1>2, <2>1, <2>2, <2>3
<1>5. \E m \in PbMode : Turn(m)
  BY <1>1, <1>3, ModesTyped DEF NotSaved
<1>6. mode' \in PbMode /\ Saw(seen') /\ FitsItsId(drawn', mode'.id)
  BY <1>1, <1>2, <1>5, TurnedTo
<1> QED
  BY <1>1, <1>2, <1>4, <1>6 DEF PolyInv

\* A new polygon is listed with the shape it was drawn with.
LEMMA CreatedKept ==
  ASSUME PolyInv, NEW c \in calls, calls' = calls \ {c}, NEW p \in Polygons, Created(c, p)
  PROVE  PolyInv'
<1>1. /\ Kept(stored) /\ Kept(listed) /\ IsDraft(draft) /\ undo \in Seq(Snap)
      /\ mode \in PbMode /\ CallFitsShape(c)
  BY DEF PolyInv
<1>2. op' = op /\ c.kind \in {"create", "convert"}
  BY DEF Created
<1>3. PICK shape : shape = [c.rings EXCEPT !.of = p]
  OBVIOUS
<1>4. FitsItsId(shape, p)
  BY <1>1, <1>2, <1>3, OwnersApart DEF CallFitsShape, Shape, FitsItsId
<1>5. stored' = [stored EXCEPT ![p] = shape]
  BY <1>3 DEF Created
<1>6. stored'[p] = shape
  BY <1>1, <1>5 DEF Kept
<1>7. listed' = [listed EXCEPT ![p] = shape]
  BY <1>6 DEF Created
<1>8. Kept(stored') /\ Kept(listed')
  BY <1>1, <1>4, <1>5, <1>7, MappedKept
<1>9. IsDraft(draft') /\ undo' \in Seq(Snap)
  BY <1>1, NoneFits, DraftsOut DEF Created
<1>10. \E m \in PbMode : Turn(m)
  BY ModesTyped DEF Created
<1>11. mode' \in PbMode /\ Saw(seen') /\ FitsItsId(drawn', mode'.id)
  BY <1>8, <1>9, <1>10, TurnedTo
<1> QED
  BY <1>1, <1>2, <1>8, <1>9, <1>11 DEF PolyInv

\* Every answer.
LEMMA AnsweredKept == ASSUME PolyInv, NEW c \in calls, Answer(c) PROVE PolyInv'
<1>1. calls' = calls \ {c}
  BY DEF Answer
<1>2. CASE Removed(c)
  <2>1. c.id \in Polygons
    BY <1>2 DEF Removed, PolyInv, CallFitsShape
  <2>2. Kept(stored') /\ Kept(listed')
    BY <1>2, <2>1, NoneFits, MappedKept DEF Removed, PolyInv
  <2> QED
    BY <1>1, <1>2, <2>2 DEF Removed, PolyInv
<1>3. CASE NotDone(c)
  BY <1>1, <1>3 DEF NotDone, PolyInv
<1> QED
  BY <1>1, <1>2, <1>3, SavedKept, NotSavedKept, CreatedKept DEF Answer

\* Nothing is drawn at the start.
LEMMA PolyStart == PbInit => PolyInv
<1> SUFFICES ASSUME PbInit PROVE PolyInv
  OBVIOUS
<1>1. \A q \in Polygons : FitsItsId([of |-> q, by |-> <<>>], q) /\ FitsItsId(NoShape, q)
  BY EmptySeq, NoneFits, OwnersApart DEF FitsItsId, Shape
<1>2. Kept(stored) /\ listed = stored
  BY <1>1 DEF PbInit, Kept, FitsItsId
<1>3. Saw(NothingSeen) /\ IsDraft(NoShape) /\ FitsItsId(NoShape, View.id)
  BY NoneFits DEF Saw, NothingSeen, FitsItsId
<1>4. View \in PbMode /\ <<>> \in Seq(Snap)
  BY ModesTyped, EmptySeq
<1> QED
  BY <1>2, <1>3, <1>4 DEF PbInit, PolyInv

\* Each step of the polygon page.
LEMMA PolyStep == ASSUME PolyInv, [PbNext]_pbVars PROVE PolyInv'
<1>1. CASE UNCHANGED pbVars
  BY <1>1 DEF pbVars, PolyInv
<1> QED
  BY <1>1, StrokeKept, DraftOpKept, SavedOpKept, HandleKept, SavedHandleKept, AskedKept, UndoKept,
     AnsweredKept DEF PbNext

\* No saved polygon is ever saved, shown or offered back with another one's shape, nor a draft with
\* that of a saved one, for any polygons and edits, any calls under way and any cap of the undo stack.
THEOREM ShapesApart == PbSpec => []ShapesKeptApart
<1>1. ASSUME PolyInv PROVE ShapesKeptApart
  <2>1. \A p \in Polygons : stored[p] # NoShape => stored[p].of = p
    BY <1>1, OwnersApart DEF PolyInv, Kept, FitsItsId
  <2>2. \A c \in calls : c.kind \in {"commit", "op", "undo"} => c.rings.of = c.id
    BY <1>1 DEF PolyInv, CallFitsShape
  <2>3. drawn # NoShape => drawn.of \in Owners(mode.id)
    BY <1>1 DEF PolyInv, FitsItsId
  <2>4. draft # NoShape => draft.of \in Drawings
    BY <1>1, OwnersApart DEF PolyInv, IsDraft, FitsItsId
  <2> QED
    BY <2>1, <2>2, <2>3, <2>4 DEF ShapesKeptApart, Owners
<1> QED
  BY <1>1, PolyStart, PolyStep, PTL DEF PbSpec

\* Without a draft there are snapshots of saved polygons only.
DraftGone == draft = NoShape => undo \in Seq(SavedSnap)

\* A stack with its last entry taken off.
LEMMA PoppedSnaps == ASSUME NEW S, NEW u \in Seq(S) PROVE Popped(u) \in Seq(S)
  BY EmptySeq, SubSeqProperties, LenProperties DEF Popped, Front

\* A snapshot of a saved polygon.
LEMMA OfSaved ==
  ASSUME NEW p \in Polygons, NEW rings \in Shape, rings.of = p
  PROVE  [id |-> p, rings |-> rings] \in SavedSnap
<1>1. PICK x : x = [id |-> p, rings |-> rings]
  OBVIOUS
<1>2. x \in Snap /\ x.id # Draft
  BY <1>1, OwnersApart DEF Snap
<1> QED
  BY <1>1, <1>2 DEF SavedSnap

\* The answer to a call.
LEMMA AnsweredGone ==
  ASSUME PolyInv, DraftGone, NEW c \in calls, Answer(c), draft' = NoShape
  PROVE  undo' \in Seq(SavedSnap)
<1>1. undo \in Seq(Snap) /\ CallFitsShape(c)
  BY DEF PolyInv
<1>2. CASE Saved(c)
  <2>1. undo \in Seq(SavedSnap) /\ c.id \in Polygons /\ FitsItsId(c.prior, c.id)
    BY <1>1, <1>2 DEF Saved, DraftGone, CallFitsShape
  <2>2. c.prior # NoShape => [id |-> c.id, rings |-> c.prior] \in SavedSnap
    BY <2>1, OfSaved, OwnersApart DEF FitsItsId
  <2> QED
    BY <1>2, <2>1, <2>2, PushedSnaps DEF Saved
<1>3. CASE NotSaved(c)
  <2>1. undo \in Seq(SavedSnap) /\ c.id \in Polygons /\ c.rings \in Shape /\ c.rings.of = c.id
    BY <1>1, <1>3 DEF NotSaved, DraftGone, CallFitsShape
  <2>2. PICK x \in SavedSnap : x = [id |-> c.id, rings |-> c.rings]
    BY <2>1, OfSaved
  <2>3. Append(undo, x) \in Seq(SavedSnap) /\ Popped(undo) \in Seq(SavedSnap)
    BY <2>1, PoppedSnaps, AppendProperties
  <2> QED
    BY <1>3, <2>1, <2>2, <2>3 DEF NotSaved
<1>4. CASE Removed(c) \/ NotDone(c)
  BY <1>4 DEF Removed, NotDone, DraftGone
<1>5. ASSUME NEW p \in Polygons, Created(c, p) PROVE undo' \in Seq(SavedSnap)
  BY <1>1, <1>5, DraftsOut DEF Created, DraftGone
<1> QED
  BY <1>2, <1>3, <1>4, <1>5 DEF Answer

\* Any step.
LEMMA DraftGoneStep == ASSUME PolyInv, DraftGone, [PbNext]_pbVars PROVE DraftGone'
<1> SUFFICES ASSUME draft' = NoShape PROVE undo' \in Seq(SavedSnap)
  BY DEF DraftGone
<1>1. PolyInv' /\ undo \in Seq(Snap)
  BY PolyStep DEF PolyInv
<1>2. ASSUME UNCHANGED <<draft, undo>> PROVE undo' \in Seq(SavedSnap)
  BY <1>2 DEF DraftGone
<1>3. ASSUME NEW shape, draft' = shape, shape.of \in Owners(Draft) PROVE FALSE
  BY <1>3, OwnersApart
<1>4. CASE UNCHANGED pbVars
  BY <1>2, <1>4 DEF pbVars
<1>5. CASE StartStroke \/ StartOp \/ CancelStroke \/ AskName \/ SaveDraft \/ AskConvert
           \/ (\E p \in Polygons : StartEdit(p) \/ AskRemove(p)) \/ \E e \in Edits : EditSaved(e)
  BY <1>2, <1>5 DEF StartStroke, StartOp, CancelStroke, AskName, SaveDraft, AskConvert, StartEdit,
                    AskRemove, EditSaved
<1>6. CASE FinishNew
  <2>1. PICK d \in Drawings : draft' = [of |-> d, by |-> <<>>]
    BY <1>6 DEF FinishNew, NewDrawings
  <2> QED
    BY <1>3, <2>1, OwnersApart
<1>7. ASSUME NEW changes \in BOOLEAN, FinishDraftOp(changes) PROVE undo' \in Seq(SavedSnap)
  <2>1. CASE changes /\ seen[Draft] # NoShape
    <3>1. seen[Draft] \in Shape /\ seen[Draft].of \in Owners(Draft)
      BY <2>1 DEF PolyInv, Saw, FitsItsId
    <3>2. Edited(seen[Draft], "cut").of \in Owners(Draft) /\ draft' = Edited(seen[Draft], "cut")
      BY <1>7, <2>1, <3>1, EditedFits DEF FinishDraftOp, Edits
    <3> QED
      BY <1>3, <3>2
  <2>2. CASE ~(changes /\ seen[Draft] # NoShape)
    BY <1>2, <1>7, <2>2 DEF FinishDraftOp
  <2> QED
    BY <2>1, <2>2
<1>8. CASE FinishSavedOp
  <2>1. /\ op \in Polygons /\ undo' = Pushed(undo, [id |-> op, rings |-> seen[op]])
        /\ seen[op] \in Shape /\ seen[op].of = op /\ draft' = draft
    BY <1>8, OwnersApart DEF FinishSavedOp, CanEdit, PolyInv, Saw, FitsItsId
  <2>2. [id |-> op, rings |-> seen[op]] \in SavedSnap
    BY <2>1, OfSaved
  <2> QED
    BY <2>1, <2>2, PushedSnaps DEF DraftGone
<1>9. CASE MoveDraft \/ CutDraft
  <2>1. drawn \in Shape /\ drawn.of \in Owners(Draft)
    BY <1>9 DEF MoveDraft, CutDraft, CanEdit, Shaping, ShapeOf, PolyInv, FitsItsId
  <2>2. drawn'.of \in Owners(Draft) /\ draft' = drawn'
    BY <1>9, <2>1, EditedFits DEF MoveDraft, CutDraft, Edits
  <2> QED
    BY <1>3, <2>2
<1>10. CASE DiscardDraft
  BY <1>1, <1>10, DraftsOut DEF DiscardDraft
<1>11. CASE StopEdit
  BY <1>11, EmptySeq DEF StopEdit
<1>12. CASE Undo
  <2> DEFINE stack == Orphanless(undo, mode.id)
             snap == Last(stack)
  <2>1. \E i \in DOMAIN undo : undo[i].id = mode.id
    BY <1>12 DEF Undo
  <2>2. /\ undo' = Front(stack)
        /\ mode.id = Draft => draft' = snap.rings
        /\ mode.id # Draft => draft' = draft
    BY <1>12 DEF Undo
  <2>3. CASE mode.id = Draft
    <3>1. snap \in Snap /\ snap.id = mode.id
      BY <1>1, <2>1, OwnOnTop
    <3> HIDE DEF snap
    <3>2. snap.rings.of \in Owners(Draft)
      BY <2>3, <3>1 DEF Snap
    <3> QED
      BY <1>3, <2>2, <2>3, <3>2
  <2>4. CASE mode.id # Draft
    <3>1. undo \in Seq(SavedSnap)
      BY <2>2, <2>4 DEF DraftGone
    <3>2. Front(stack) \in Seq(SavedSnap)
      BY <2>1, <3>1, OwnOnTop
    <3> QED
      BY <2>2, <3>2
  <2> QED
    BY <2>3, <2>4
<1>13. ASSUME NEW c \in calls, Answer(c) PROVE undo' \in Seq(SavedSnap)
  BY <1>13, AnsweredGone
<1> QED
  BY <1>4, <1>5, <1>6, <1>7, <1>8, <1>9, <1>10, <1>11, <1>12, <1>13 DEF PbNext

\* Whichever way a draft ends, and whatever was answered before, no snapshot of it is left for the next.
THEOREM NothingLeft == PbSpec => []DraftLeavesNothing
<1>1. PbInit => DraftGone
  BY EmptySeq DEF PbInit, DraftGone
<1>2. DraftGone => DraftLeavesNothing
  BY ElementOfSeq DEF DraftGone, DraftLeavesNothing, SavedSnap
<1> QED
  BY <1>1, <1>2, DraftGoneStep, PolyStart, PolyStep, PTL DEF PbSpec

-------------------------------------------------------------------------------
(* The types of the polygon page and the scan manager                     *)

UndoCalls == {c \in calls : c.kind = "undo"}

\* What the page types need beyond the shapes: an undo under way is a snapshot that may come back,
\* and the dialog is open over a draft.
UndoBound ==
  /\ IsFiniteSet(calls) /\ Cardinality(calls) <= MaxCalls
  /\ Len(undo) + Cardinality(UndoCalls) <= MaxUndo + MaxCalls
  /\ asking => draft # NoShape

\* A stack with one more snapshot is within the cap, or no longer than it was.
LEMMA PushedLength ==
  ASSUME NEW u \in Seq(Snap), NEW x \in Snap
  PROVE  Len(Pushed(u, x)) <= MaxUndo \/ Len(Pushed(u, x)) = Len(u)
<1>1. Len(u) \in Nat /\ MaxUndo \in Nat \ {0}
  BY PbAssumption, LenProperties
<1>2. Len(Append(u, x)) = Len(u) + 1
  BY AppendProperties
<1>3. ASSUME ~(Len(u) < MaxUndo) PROVE Len(Append(Tail(u), x)) = Len(u)
  <2>1. u # << >>
    BY <1>1, <1>3
  <2>2. Tail(u) \in Seq(Snap) /\ Len(Tail(u)) = Len(u) - 1
    BY <2>1, HeadTailProperties
  <2>3. Len(Append(Tail(u), x)) = Len(Tail(u)) + 1
    BY <2>2, AppendProperties
  <2> QED
    BY <1>1, <2>2, <2>3
<1> QED
  BY <1>1, <1>2, <1>3 DEF Pushed

\* Taking snapshots out makes the stack no longer.
LEMMA TakenLength ==
  ASSUME NEW u \in Seq(Snap)
  PROVE  Len(WithoutDraft(u)) <= Len(u) /\ Len(Popped(u)) <= Len(u)
<1> DEFINE A == {i \in DOMAIN u : u[i].id # Draft}
<1>1. DOMAIN u = 1 .. Len(u) /\ Len(u) \in Nat
  BY LenProperties
<1>2. A \in SUBSET Nat /\ IsFiniteSet(A)
  BY PlacesFinite
<1>3. Cardinality(A) <= Len(u)
  <2>1. IsFiniteSet(1 .. Len(u)) /\ Cardinality(1 .. Len(u)) = Len(u)
    BY <1>1, FS_Interval
  <2>2. A \subseteq 1 .. Len(u)
    BY <1>1
  <2> QED
    BY <2>1, <2>2, FS_Subset
<1>4. WithoutDraft(u) = Selected(u, A)
  BY DEF WithoutDraft, Selected
<1>5. \A i \in A : u[i] \in Snap
  BY ElementOfSeq
<1> HIDE DEF A
<1>6. Len(WithoutDraft(u)) = Cardinality(A)
  BY <1>2, <1>4, <1>5, Chosen
<1>7. ASSUME u # << >> PROVE Len(Front(u)) = Len(u) - 1
  <2>1. Len(u) # 0
    BY <1>7, EmptySeq
  <2>2. Front(u) = SubSeq(u, 1, Len(u) - 1)
    BY DEF Front
  <2> QED
    BY <1>1, <2>1, <2>2, SubSeqProperties
<1>8. Len(Popped(u)) <= Len(u)
  <2>1. CASE u = << >>
    BY <1>1, <2>1 DEF Popped
  <2>2. CASE u # << >>
    <3>1. Popped(u) = Front(u)
      BY <2>2 DEF Popped
    <3> QED
      BY <1>1, <1>7, <2>2, <3>1
  <2> QED
    BY <2>1, <2>2
<1> QED
  BY <1>3, <1>6, <1>8

\* Undo takes one snapshot at least.
LEMMA UndoneLength ==
  ASSUME NEW u \in Seq(Snap), NEW id, \E i \in DOMAIN u : u[i].id = id
  PROVE  Len(Front(Orphanless(u, id))) <= Len(u) - 1
<1> DEFINE own == {i \in DOMAIN u : u[i].id = id}
           n == CHOOSE n \in own \cup {0} : \A i \in own : i <= n
           t == SubSeq(u, 1, n)
<1>1. own \in SUBSET Nat /\ IsFiniteSet(own) /\ own # {}
  BY PlacesFinite
<1>2. DOMAIN u = 1 .. Len(u) /\ Len(u) \in Nat
  BY LenProperties
<1>3. PICK m \in own : \A i \in own : i <= m
  <2> HIDE DEF own
  <2> QED
    BY <1>1, Extremes
<1>4. n \in own \cup {0} /\ \A i \in own : i <= n
  <2> HIDE DEF own
  <2> QED
    BY <1>3
<1>5. n \in own
  <2>1. own \subseteq Nat \ {0}
    BY <1>2
  <2> HIDE DEF n, own
  <2> QED
    BY <1>3, <1>4, <2>1
<1>6. n \in 1 .. Len(u)
  BY <1>2, <1>5
<1> HIDE DEF n, own
<1>7. t \in Seq(Snap) /\ Len(t) = n
  BY <1>2, <1>6, SubSeqProperties
<1>8. Orphanless(u, id) = t
  BY DEF Orphanless, t, n, own
<1> HIDE DEF t
<1>9. Len(Front(t)) = n - 1
  <2>1. Front(t) = SubSeq(t, 1, n - 1)
    BY <1>7 DEF Front
  <2> QED
    BY <1>6, <1>7, <2>1, SubSeqProperties
<1> QED
  BY <1>2, <1>6, <1>8, <1>9

\* The arithmetic of a step.
LEMMA BoundKept ==
  ASSUME PolyInv, PolyInv', UndoBound, IsFiniteSet(calls'), Cardinality(calls') <= MaxCalls,
         \/ Len(undo') <= MaxUndo
         \/ Len(undo') + Cardinality(UndoCalls') <= Len(undo) + Cardinality(UndoCalls),
         asking' => draft' # NoShape
  PROVE  UndoBound'
<1>1. UndoCalls' \subseteq calls'
  BY DEF UndoCalls
<1>2. Cardinality(UndoCalls') <= Cardinality(calls') /\ Cardinality(UndoCalls') \in Nat /\ Cardinality(calls') \in Nat
  BY <1>1, FS_Subset, FS_CardinalityType
<1>3. Cardinality(UndoCalls) \in Nat
  BY FS_Subset, FS_CardinalityType DEF UndoBound, UndoCalls
<1>4. Len(undo) \in Nat /\ Len(undo') \in Nat /\ MaxUndo \in Nat /\ MaxCalls \in Nat
  BY PbAssumption, LenProperties DEF PolyInv
<1>5. Len(undo') + Cardinality(UndoCalls') <= MaxUndo + MaxCalls
  BY <1>2, <1>3, <1>4 DEF UndoBound
<1> QED
  BY <1>5 DEF UndoBound

\* The counts of a call sent or answered.
LEMMA CountSent ==
  ASSUME UndoBound, NEW kind, NEW id, NEW rings, NEW prior, Ask(kind, id, rings, prior)
  PROVE  /\ IsFiniteSet(calls') /\ Cardinality(calls') <= MaxCalls
         /\ kind # "undo" => UndoCalls' = UndoCalls
         /\ Cardinality(UndoCalls') <= Cardinality(UndoCalls) + 1 /\ Cardinality(UndoCalls) \in Nat
         /\ Cardinality(UndoCalls') \in Nat
<1> DEFINE c == [n |-> NextCall, kind |-> kind, id |-> id, rings |-> rings, prior |-> prior]
<1>1. calls' = calls \cup {c} /\ Cardinality(calls) < MaxCalls /\ c.kind = kind
  BY DEF Ask
<1>2. IsFiniteSet(calls) /\ IsFiniteSet(UndoCalls) /\ Cardinality(calls) \in Nat /\ Cardinality(UndoCalls) \in Nat
  BY FS_Subset, FS_CardinalityType DEF UndoBound, UndoCalls
<1> HIDE DEF c
<1>3. IsFiniteSet(calls \cup {c}) /\ Cardinality(calls \cup {c}) <= Cardinality(calls) + 1
  <2>1. /\ IsFiniteSet(calls \cup {c})
        /\ Cardinality(calls \cup {c}) = IF c \in calls THEN Cardinality(calls) ELSE Cardinality(calls) + 1
    BY ONLY <1>2, FS_AddElement
  <2> QED
    BY <1>2, <2>1
<1>4. IsFiniteSet(UndoCalls \cup {c}) /\ Cardinality(UndoCalls \cup {c}) <= Cardinality(UndoCalls) + 1
  <2>1. /\ IsFiniteSet(UndoCalls \cup {c})
        /\ Cardinality(UndoCalls \cup {c}) = IF c \in UndoCalls THEN Cardinality(UndoCalls)
                                             ELSE Cardinality(UndoCalls) + 1
    BY ONLY <1>2, FS_AddElement
  <2> QED
    BY <1>2, <2>1
<1>5. UndoCalls' = (IF kind = "undo" THEN UndoCalls \cup {c} ELSE UndoCalls)
  BY <1>1 DEF UndoCalls
<1>6. Cardinality(UndoCalls') <= Cardinality(UndoCalls) + 1
  BY <1>2, <1>4, <1>5
<1>7. Cardinality(UndoCalls') \in Nat
  BY <1>2, <1>4, <1>5, FS_CardinalityType
<1>8. Cardinality(calls') <= MaxCalls
  BY <1>1, <1>2, <1>3, PbAssumption, FS_CardinalityType
<1> QED
  BY <1>1, <1>2, <1>3, <1>5, <1>6, <1>7, <1>8

\* The counts of a call answered.
LEMMA CountAnswered ==
  ASSUME UndoBound, NEW c \in calls, calls' = calls \ {c}
  PROVE  /\ IsFiniteSet(calls') /\ Cardinality(calls') <= MaxCalls
         /\ Cardinality(UndoCalls') = Cardinality(UndoCalls) - (IF c.kind = "undo" THEN 1 ELSE 0)
         /\ Cardinality(UndoCalls) \in Nat
<1>1. IsFiniteSet(calls) /\ IsFiniteSet(UndoCalls) /\ Cardinality(calls) \in Nat /\ Cardinality(UndoCalls) \in Nat
  BY FS_Subset, FS_CardinalityType DEF UndoBound, UndoCalls
<1>2. IsFiniteSet(calls \ {c}) /\ Cardinality(calls \ {c}) = Cardinality(calls) - 1
  BY <1>1, FS_RemoveElement
<1>3. UndoCalls' = UndoCalls \ {c} /\ (c \in UndoCalls <=> c.kind = "undo")
  BY DEF UndoCalls
<1>4. Cardinality(UndoCalls \ {c}) = IF c \in UndoCalls THEN Cardinality(UndoCalls) - 1 ELSE Cardinality(UndoCalls)
  BY ONLY <1>1, FS_RemoveElement
<1>5. Cardinality(UndoCalls') = Cardinality(UndoCalls) - (IF c.kind = "undo" THEN 1 ELSE 0)
  BY <1>1, <1>3, <1>4
<1>6. Cardinality(calls') <= MaxCalls
  BY <1>1, <1>2, PbAssumption DEF UndoBound
<1> QED
  BY <1>1, <1>2, <1>5, <1>6

\* A step that sends or answers nothing.
LEMMA QuietBound ==
  ASSUME PolyInv, PolyInv', UndoBound, UNCHANGED calls,
         Len(undo') <= MaxUndo \/ Len(undo') <= Len(undo), asking' => draft' # NoShape
  PROVE  UndoBound'
<1>1. Cardinality(UndoCalls) \in Nat /\ UndoCalls' = UndoCalls
  BY FS_Subset, FS_CardinalityType DEF UndoBound, UndoCalls
<1>2. Len(undo) \in Nat /\ Len(undo') \in Nat
  BY LenProperties DEF PolyInv
<1>3. IsFiniteSet(calls') /\ Cardinality(calls') <= MaxCalls
  BY DEF UndoBound
<1>4. Len(undo') <= MaxUndo \/ Len(undo') + Cardinality(UndoCalls') <= Len(undo) + Cardinality(UndoCalls)
  BY <1>1, <1>2
<1> QED
  BY <1>3, <1>4, BoundKept

\* A step that sends a call, an undo for a shorter stack.
LEMMA SentBound ==
  ASSUME PolyInv, PolyInv', UndoBound, NEW kind, NEW id, NEW rings, NEW prior, Ask(kind, id, rings, prior),
         IF kind = "undo" THEN Len(undo') <= Len(undo) - 1 ELSE Len(undo') <= MaxUndo \/ Len(undo') = Len(undo),
         asking' => draft' # NoShape
  PROVE  UndoBound'
<1>1. /\ IsFiniteSet(calls') /\ Cardinality(calls') <= MaxCalls
      /\ kind # "undo" => UndoCalls' = UndoCalls
      /\ Cardinality(UndoCalls') <= Cardinality(UndoCalls) + 1 /\ Cardinality(UndoCalls) \in Nat
      /\ Cardinality(UndoCalls') \in Nat
  BY CountSent
<1>2. Len(undo) \in Nat /\ Len(undo') \in Nat
  BY LenProperties DEF PolyInv
<1>3. Len(undo') <= MaxUndo \/ Len(undo') + Cardinality(UndoCalls') <= Len(undo) + Cardinality(UndoCalls)
  <2>1. CASE kind = "undo"
    BY <1>1, <1>2, <2>1
  <2>2. CASE kind # "undo"
    <3>1. Cardinality(UndoCalls') = Cardinality(UndoCalls)
      BY <1>1, <2>2
    <3> QED
      BY <1>1, <1>2, <2>2, <3>1
  <2> QED
    BY <2>1, <2>2
<1> QED
  BY <1>1, <1>3, BoundKept

\* Any step.
LEMMA UndoBoundStep == ASSUME PolyInv, UndoBound, [PbNext]_pbVars PROVE UndoBound'
<1>1. PolyInv' /\ undo \in Seq(Snap)
  BY PolyStep DEF PolyInv
<1>2. Len(undo) \in Nat /\ Len(<< >>) = 0 /\ MaxUndo \in Nat
  BY <1>1, LenProperties, PbAssumption
<1>3. ASSUME UNCHANGED <<undo, calls>>, asking' => draft' # NoShape PROVE UndoBound'
  BY <1>1, <1>2, <1>3, QuietBound
<1>5. CASE UNCHANGED pbVars
  BY <1>3, <1>5 DEF pbVars, UndoBound
<1>6. CASE StartStroke \/ StartOp \/ CancelStroke \/ FinishNew \/ AskName \/ \E p \in Polygons : StartEdit(p)
  BY <1>3, <1>6 DEF StartStroke, StartOp, CancelStroke, FinishNew, AskName, StartEdit, naming, UndoBound
<1>7. ASSUME NEW changes \in BOOLEAN, FinishDraftOp(changes) PROVE UndoBound'
  <2>1. UNCHANGED calls /\ ~asking'
    BY <1>7 DEF FinishDraftOp, naming
  <2>2. undo' = undo \/ (seen[Draft] # NoShape /\ undo' = Pushed(undo, [id |-> Draft, rings |-> seen[Draft]]))
    BY <1>7 DEF FinishDraftOp
  <2>3. seen[Draft] # NoShape => [id |-> Draft, rings |-> seen[Draft]] \in Snap
    BY DEF PolyInv, Saw, FitsItsId, Snap
  <2> QED
    BY <1>1, <1>2, <2>1, <2>2, <2>3, PushedLength, QuietBound
<1>8. CASE FinishSavedOp
  <2> DEFINE snap == [id |-> op, rings |-> seen[op]]
  <2>1. /\ undo' = Pushed(undo, snap) /\ Ask("op", op, Edited(seen[op], "cut"), NoShape) /\ op \in Polygons
        /\ UNCHANGED asking /\ ~asking /\ CanEdit(seen[op])
    BY <1>8 DEF FinishSavedOp, naming
  <2>2. snap \in Snap
    BY <2>1 DEF PolyInv, Saw, FitsItsId, Snap, CanEdit
  <2> HIDE DEF snap
  <2>3. Len(undo') <= MaxUndo \/ Len(undo') = Len(undo)
    BY <1>1, <2>1, <2>2, PushedLength
  <2> QED
    BY <1>1, <2>1, <2>3, SentBound
<1>9. CASE MoveDraft \/ CutDraft
  <2>1. UNCHANGED calls /\ ~asking' /\ Shaping(Draft)
    BY <1>9 DEF MoveDraft, CutDraft, naming
  <2>2. \E rings : undo' = Pushed(undo, [id |-> Draft, rings |-> rings]) /\ rings \in {drawn, drawn'} /\ CanEdit(drawn)
    BY <1>9 DEF MoveDraft, CutDraft
  <2>3. mode.id = Draft /\ mode'.id = Draft
    BY <1>9, <2>1 DEF MoveDraft, CutDraft, Shaping, ShapeOf
  <2>4. drawn \in Shape /\ drawn.of \in Owners(Draft)
    BY <2>2, <2>3 DEF PolyInv, FitsItsId, CanEdit
  <2>5. drawn' \in Shape /\ drawn'.of \in Owners(Draft)
    BY <1>9, <2>4, EditedFits DEF MoveDraft, CutDraft, Edits
  <2>6. \A rings \in {drawn, drawn'} : [id |-> Draft, rings |-> rings] \in Snap
    BY <2>4, <2>5 DEF Snap
  <2> QED
    BY <1>1, <2>1, <2>2, <2>6, PushedLength, QuietBound
<1>10. CASE DiscardDraft
  BY <1>1, <1>10, TakenLength, QuietBound DEF DiscardDraft
<1>11. CASE StopEdit
  <2>1. undo' = << >> /\ UNCHANGED calls /\ ~asking'
    BY <1>11 DEF StopEdit, naming
  <2> QED
    BY <1>1, <1>2, <2>1, QuietBound
<1>12. ASSUME NEW kind \in {"create", "commit", "remove", "convert"}, NEW id, NEW rings, NEW prior,
              Ask(kind, id, rings, prior), UNCHANGED <<undo, asking, draft>>
       PROVE  UndoBound'
  BY <1>1, <1>12, SentBound DEF UndoBound
<1>13. CASE SaveDraft \/ AskConvert \/ (\E p \in Polygons : AskRemove(p)) \/ \E e \in Edits : EditSaved(e)
  BY <1>12, <1>13 DEF SaveDraft, AskConvert, AskRemove, EditSaved, naming
<1>14. CASE Undo
  <2>1. /\ undo' = Front(Orphanless(undo, mode.id)) /\ ~asking' /\ \E i \in DOMAIN undo : undo[i].id = mode.id
        /\ \/ UNCHANGED calls
           \/ \E rings : Ask("undo", mode.id, rings, NoShape)
    BY <1>14 DEF Undo, naming
  <2>2. Len(undo') <= Len(undo) - 1 /\ Len(undo') \in Nat
    BY <1>1, <2>1, UndoneLength, LenProperties DEF PolyInv
  <2>3. CASE UNCHANGED calls
    BY <1>1, <1>2, <2>1, <2>2, <2>3, QuietBound
  <2>4. ASSUME NEW rings, Ask("undo", mode.id, rings, NoShape) PROVE UndoBound'
    BY <1>1, <2>1, <2>2, <2>4, SentBound
  <2> QED
    BY <2>1, <2>3, <2>4
<1>15. ASSUME NEW c \in calls, Answer(c) PROVE UndoBound'
  <2>1. calls' = calls \ {c}
    BY <1>15 DEF Answer
  <2>2. /\ IsFiniteSet(calls') /\ Cardinality(calls') <= MaxCalls
        /\ Cardinality(UndoCalls') = Cardinality(UndoCalls) - (IF c.kind = "undo" THEN 1 ELSE 0)
        /\ Cardinality(UndoCalls) \in Nat
    BY <2>1, CountAnswered
  <2>3. asking' => draft' # NoShape
    BY <1>15 DEF Answer, Saved, NotSaved, Removed, NotDone, Created, UndoBound, naming
  <2>4. \/ Len(undo') <= MaxUndo
        \/ Len(undo') <= Len(undo)
        \/ c.kind = "undo" /\ Len(undo') = Len(undo) + 1
    <3>1. CASE Saved(c)
      <4>1. undo' = undo \/ (undo' = Pushed(undo, [id |-> c.id, rings |-> c.prior]) /\ c.kind = "commit" /\ c.prior # NoShape)
        BY <3>1 DEF Saved
      <4>2. ASSUME c.kind = "commit", c.prior # NoShape PROVE [id |-> c.id, rings |-> c.prior] \in Snap
        BY <4>2 DEF PolyInv, CallFitsShape, FitsItsId, Snap
      <4> QED
        BY <1>1, <1>2, <4>1, <4>2, PushedLength
    <3>2. CASE NotSaved(c)
      <4>1. \/ undo' = Popped(undo) \/ undo' = undo
            \/ undo' = Append(undo, [id |-> c.id, rings |-> c.rings]) /\ c.kind = "undo"
        BY <3>2 DEF NotSaved
      <4>2. ASSUME c.kind = "undo" PROVE [id |-> c.id, rings |-> c.rings] \in Snap
        BY <4>2, OwnersApart DEF PolyInv, CallFitsShape, Snap
      <4> QED
        BY <1>1, <1>2, <4>1, <4>2, TakenLength, AppendProperties
    <3>3. CASE Removed(c) \/ NotDone(c)
      BY <1>2, <3>3 DEF Removed, NotDone
    <3>4. ASSUME NEW p \in Polygons, Created(c, p)
          PROVE  \/ Len(undo') <= MaxUndo
                 \/ Len(undo') <= Len(undo)
                 \/ c.kind = "undo" /\ Len(undo') = Len(undo) + 1
      <4>1. undo' = undo \/ undo' = WithoutDraft(undo)
        BY <3>4 DEF Created
      <4> QED
        BY <1>1, <1>2, <4>1, TakenLength
    <3> QED
      BY <1>15, <3>1, <3>2, <3>3, <3>4 DEF Answer
  <2>5. Len(undo') \in Nat
    BY <1>1, LenProperties DEF PolyInv
  <2>6. Len(undo') <= MaxUndo \/ Len(undo') + Cardinality(UndoCalls') <= Len(undo) + Cardinality(UndoCalls)
    BY <1>2, <2>2, <2>4, <2>5
  <2> QED
    BY <1>1, <2>2, <2>3, <2>6, BoundKept
<1> QED
  BY <1>5, <1>6, <1>7, <1>8, <1>9, <1>10, <1>11, <1>13, <1>14, <1>15 DEF PbNext

\* Whatever calls are refused, the undo stack passes its cap by no more than the snapshots of the
\* undos put back, and the name is only ever asked for a draft there is.
THEOREM PolygonTypesHold == PbSpec => []PbTypeOK
<1>1. PbInit => UndoBound
  <2> SUFFICES ASSUME PbInit PROVE UndoBound
    OBVIOUS
  <2>1. calls = {} /\ UndoCalls = {} /\ undo = << >> /\ ~asking
    BY DEF PbInit, UndoCalls
  <2>2. IsFiniteSet({}) /\ Cardinality({}) = 0 /\ Len(<< >>) = 0
    BY FS_EmptySet
  <2> QED
    BY <2>1, <2>2, PbAssumption DEF UndoBound
<1>2. PolyInv /\ UndoBound /\ [PbNext]_pbVars => PolyInv' /\ UndoBound'
  BY PolyStep, UndoBoundStep
<1>3. PolyInv /\ UndoBound => PbTypeOK
  BY DEF PolyInv, PbMode, UndoBound, UndoCalls, PbTypeOK
<1> QED
  BY <1>1, <1>2, <1>3, PolyStart, PTL DEF PbSpec

-------------------------------------------------------------------------------
(* Types: the scan manager                                                 *)

\* A job is on a date of the page or off the grid, and what is shown and was not read is on its way.
ScanDue ==
  /\ \A j \in ScJobs : scans[j] = OffTheGrid \/ scans[j].day \in ScDays
  /\ scDue \subseteq ScKeys /\ (~scCache[ScKey(grid)].read => ScKey(grid) \in scDue)

\* A step of the controls.
LEMMA LookedDue ==
  ASSUME ScanInv, ScanInv', ScanDue, NEW g, LookAt(g)
  PROVE  ScanDue'
<1>1. ScKey(grid') \in ScKeys /\ grid' = g
  BY DEF LookAt, ScanInv, GridRecord, ScKey, ScKeys
<1> QED
  BY <1>1 DEF LookAt, ScanDue

\* Any step.
LEMMA ScanDueStep == ASSUME ScanInv, ScanDue, [ScNext]_scVars PROVE ScanDue'
<1>1. ScanInv'
  BY ScanStep
<1>2. ScKey(grid) \in ScKeys
  BY DEF ScanInv, GridRecord, ScKey, ScKeys
<1>3. CASE UNCHANGED scVars
  BY <1>3 DEF scVars, ScanDue
<1>4. CASE (\E d \in ScDays : SetRunDate(d)) \/ (\E m \in Modes : SetMode(m)) \/ \E f \in ScFilters : SetScanFilter(f)
  BY <1>1, <1>4, LookedDue DEF SetRunDate, SetMode, SetScanFilter
<1>5. ASSUME UNCHANGED <<scans, scCache, scDue>>, ScKey(grid') = ScKey(grid) PROVE ScanDue'
  BY <1>5 DEF ScanDue
<1>6. CASE \/ \E s \in Searches : TypeSearch(s)
           \/ SearchSettles \/ TurnOrder
           \/ \E p \in 1 .. Cardinality(ScJobs) : TurnPage(p)
           \/ \E j \in ScJobs : SelectRow(j) \/ ToggleExpanded(j)
  <2>1. UNCHANGED <<scans, scCache, scDue>>
    BY <1>6 DEF TypeSearch, SearchSettles, TurnOrder, TurnPage, SelectRow, ToggleExpanded
  <2>2. PICK g \in GridRecord : g = grid
    BY DEF ScanInv
  <2>3. grid'.mode = grid.mode /\ grid'.day = grid.day /\ grid'.filter = grid.filter
    BY <1>6, <2>2 DEF TypeSearch, SearchSettles, TurnOrder, TurnPage, SelectRow, ToggleExpanded, GridRecord
  <2> QED
    BY <1>5, <2>1, <2>3 DEF ScKey
<1>7. CASE PollScans
  BY <1>2, <1>7 DEF PollScans, ScanDue
<1>8. CASE RemoveMissing
  BY <1>2, <1>8 DEF RemoveMissing, ScanDue
<1>9. CASE ScansGoOn
  <2>1. UNCHANGED <<grid, scCache, scDue>>
    BY <1>9 DEF ScansGoOn
  <2>2. \A j \in ScJobs : scans'[j] = OffTheGrid \/ scans'[j].day \in ScDays
    <3>1. PICK j \in ScJobs : /\ scans[j] # OffTheGrid
                              /\ \/ scans' = [scans EXCEPT ![j].scanned = TRUE]
                                 \/ \E d \in ScDays : scans' = [scans EXCEPT ![j].day = d]
      BY <1>9 DEF ScansGoOn
    <3>2. PICK row \in ScanRow : row = scans[j] /\ row.day \in ScDays
      BY <3>1 DEF ScanInv, ScanDue
    <3>3. scans'[j].day \in ScDays
      BY <3>1, <3>2 DEF ScanInv, ScanRow
    <3>4. \A i \in ScJobs \ {j} : scans'[i] = scans[i]
      BY <3>1 DEF ScanInv
    <3> QED
      BY <3>3, <3>4 DEF ScanDue
  <2> QED
    BY <2>1, <2>2 DEF ScanDue
<1>10. ASSUME NEW k \in ScKeys, AnswerScans(k) PROVE ScanDue'
  <2>1. scCache'[k].read /\ \A i \in ScKeys \ {k} : scCache'[i] = scCache[i]
    BY <1>10 DEF AnswerScans, ScanInv
  <2> QED
    BY <1>2, <1>10, <2>1 DEF AnswerScans, ScanDue
<1> QED
  BY <1>3, <1>4, <1>6, <1>7, <1>8, <1>9, <1>10 DEF ScNext

\* Whatever is polled, removed or answered late: the rows shown were read or are on their way.
THEOREM ScanTypesHold == ScSpec => []ScTypeOK
<1>1. ScInit => ScanDue
  <2> SUFFICES ASSUME ScInit PROVE ScanDue
    OBVIOUS
  <2>1. ScKey(grid) \in ScKeys
    BY ScanStart DEF ScanInv, GridRecord, ScKey, ScKeys
  <2> QED
    BY <2>1 DEF ScInit, ScanDue
<1>2. ScanInv /\ ScanDue /\ [ScNext]_scVars => ScanInv' /\ ScanDue'
  BY ScanStep, ScanDueStep
<1>3. ScanInv /\ ScanDue => ScTypeOK
  BY DEF ScanInv, GridRecord, ScanDue, ScTypeOK
<1> QED
  BY <1>1, <1>2, <1>3, ScanStart, PTL DEF ScSpec

-------------------------------------------------------------------------------
(* The types of the Run Viewer page                                       *)

NoRows == [j \in RvJobs |-> Gone]

\* Runs and jobs of the page are runs and jobs, and rows are there for one run only.
PageTyped(p) ==
  /\ DOMAIN p = PageFields /\ p.runs \subseteq RunIds /\ p.selRuns \subseteq RunIds /\ p.selJobs \subseteq RvJobs
  /\ p.rows \in [RvJobs -> Statuses \cup {Gone}]
  /\ p.rows = NoRows \/ SingleRun(p) # Nowhere

ViewTyped ==
  /\ onRun \in [RvJobs -> RunIds] /\ status \in [RvJobs -> Statuses] /\ PageTyped(page)
  /\ loops \in [1 .. MaxLoops -> LoopRecord]

\* Nothing is fetched for a new page.
LEMMA NewTyped == ASSUME NEW link PROVE PageTyped(NewPage(link))
  BY DEF NewPage, PageTyped, PageFields, NoRows

\* What typed selections make of a page whose run stays or whose rows go.
LEMMA SelectedTyped ==
  ASSUME NEW p, PageTyped(p), NEW q, DOMAIN q = PageFields, q.runs \subseteq RunIds, q.selRuns \subseteq RunIds,
         q.selJobs \subseteq RvJobs, (q.rows = p.rows /\ SingleRun(q) = SingleRun(p)) \/ q.rows = NoRows
  PROVE  PageTyped(q)
  BY DEF PageTyped, NoRows

\* Whether a page shows one run is a matter of the runs selected.
LEMMA SameRun == ASSUME NEW p, NEW q, p.selRuns = q.selRuns PROVE SingleRun(p) = SingleRun(q)
  BY DEF SingleRun

\* A page of another key, from a page with typed selections.
LEMMA KeyedTyped ==
  ASSUME NEW p, DOMAIN p = PageFields, p.runs \subseteq RunIds, p.selRuns \subseteq RunIds, p.selJobs \subseteq RvJobs
  PROVE  PageTyped(Keyed(p))
<1> DEFINE q == Keyed(p)
<1>1. DOMAIN q = PageFields /\ q.runs = p.runs /\ q.selRuns = p.selRuns /\ q.selJobs = p.selJobs /\ q.rows = NoRows
  BY DEF Keyed, PageFields, NoRows
<1> HIDE DEF q
<1>2. PageTyped(q)
  BY <1>1 DEF PageTyped, NoRows
<1> QED
  BY <1>2 DEF q

\* A page that changes in none of these.
LEMMA RestTyped ==
  ASSUME NEW p, PageTyped(p), NEW q, DOMAIN q = PageFields, q.runs = p.runs, q.selRuns = p.selRuns,
         q.selJobs \subseteq RvJobs, q.rows = p.rows
  PROVE  PageTyped(q)
<1>1. SingleRun(q) = SingleRun(p)
  BY SameRun
<1> QED
  BY <1>1 DEF PageTyped

\* A closed menu.
LEMMA ClosedTyped == ASSUME NEW p, PageTyped(p) PROVE PageTyped(Closed(p))
<1> DEFINE q == Closed(p)
<1>1. /\ DOMAIN q = PageFields /\ q.runs = p.runs /\ q.selRuns = p.selRuns /\ q.selJobs = p.selJobs
      /\ q.rows = p.rows
  BY DEF Closed, PageTyped, PageFields
<1> HIDE DEF q
<1>2. PageTyped(q)
  BY <1>1, RestTyped DEF PageTyped
<1> QED
  BY <1>2 DEF q

\* A click on a run.
LEMMA RunClickTyped ==
  ASSUME PageTyped(page), NEW r \in RunIds, NEW key, SelectRun(r, key)
  PROVE  PageTyped(page')
<1> DEFINE shift == key = "shift" /\ page.anchor # Nowhere
           runs == IF shift THEN RangeTo(r)
                   ELSE IF key = "ctrl"
                   THEN IF r \in page.selRuns THEN page.selRuns \ {r} ELSE page.selRuns \cup {r}
                   ELSE {r}
           anchor == IF shift THEN page.anchor ELSE r
           p == [page EXCEPT !.selRuns = runs, !.selJobs = {}, !.anchor = anchor]
<1>1. RangeTo(r) \subseteq RunIds
  <2>1. CASE page.anchor \in page.runs
    BY <2>1 DEF RangeTo, PageTyped
  <2>2. CASE page.anchor \notin page.runs
    BY <2>2 DEF RangeTo, PageTyped
  <2> QED
    BY <2>1, <2>2
<1>2. runs \subseteq RunIds
  BY <1>1 DEF PageTyped
<1>3. (page' = p /\ SingleRun(p) = SingleRun(page)) \/ page' = Keyed(p)
  BY Zenon DEF SelectRun, Shows
<1> HIDE DEF runs, anchor
<1>4. DOMAIN p = PageFields /\ p.runs = page.runs /\ p.selRuns = runs /\ p.selJobs = {} /\ p.rows = page.rows
  BY DEF PageTyped, PageFields
<1> HIDE DEF p
<1>5. ASSUME SingleRun(p) = SingleRun(page) PROVE PageTyped(p)
  BY <1>2, <1>4, <1>5, SelectedTyped DEF PageTyped
<1>6. PageTyped(Keyed(p))
  BY <1>2, <1>4, KeyedTyped DEF PageTyped
<1> QED
  BY <1>3, <1>5, <1>6

\* The menu of a run.
LEMMA RunMenuTyped == ASSUME PageTyped(page), NEW r \in RunIds, OpenRunMenu(r) PROVE PageTyped(page')
<1> DEFINE runs == IF r \in page.selRuns THEN page.selRuns ELSE {r}
           p == [page EXCEPT !.menu = "run", !.menuRun = r, !.selRuns = runs]
<1>1. runs \subseteq RunIds
  BY DEF PageTyped
<1>2. (page' = p /\ SingleRun(p) = SingleRun(page)) \/ page' = Keyed(p)
  BY Zenon DEF OpenRunMenu, Shows
<1> HIDE DEF runs
<1>3. DOMAIN p = PageFields /\ p.runs = page.runs /\ p.selRuns = runs /\ p.selJobs = page.selJobs /\ p.rows = page.rows
  BY DEF PageTyped, PageFields
<1> HIDE DEF p
<1>4. ASSUME SingleRun(p) = SingleRun(page) PROVE PageTyped(p)
  BY <1>1, <1>3, <1>4, SelectedTyped DEF PageTyped
<1>5. PageTyped(Keyed(p))
  BY <1>1, <1>3, KeyedTyped DEF PageTyped
<1> QED
  BY <1>2, <1>4, <1>5

\* Date, view and links.
LEMMA FiltersTyped ==
  ASSUME PageTyped(page), onRun \in [RvJobs -> RunIds],
         (\E d \in RvDays : ChangeDay(d)) \/ (\E v \in Views : ChangeView(v)) \/ \E j \in RvJobs : LinkAnswers(j)
  PROVE  PageTyped(page')
<1>1. ASSUME NEW d \in RvDays, ChangeDay(d) PROVE PageTyped(page')
  <2> DEFINE p == [page EXCEPT !.day = d, !.runs = {}]
             q == [p EXCEPT !.selRuns = {}, !.selJobs = {}, !.anchor = Nowhere]
  <2>1. page' = Keyed(q)
    BY <1>1, Zenon DEF ChangeDay, Shows, Unselected
  <2>2. DOMAIN q = PageFields /\ q.runs = {} /\ q.selRuns = {} /\ q.selJobs = {}
    BY DEF PageTyped, PageFields
  <2> HIDE DEF q
  <2> QED
    BY <2>1, <2>2, KeyedTyped
<1>2. ASSUME NEW v \in Views, ChangeView(v) PROVE PageTyped(page')
  <2> DEFINE p == [page EXCEPT !.view = v, !.runs = {}]
  <2>1. page' = Keyed(p)
    BY <1>2, Zenon DEF ChangeView, Shows
  <2>2. DOMAIN p = PageFields /\ p.runs = {} /\ p.selRuns = page.selRuns /\ p.selJobs = page.selJobs
    BY DEF PageTyped, PageFields
  <2> HIDE DEF p
  <2> QED
    BY <2>1, <2>2, KeyedTyped DEF PageTyped
<1>3. ASSUME NEW j \in RvJobs, LinkAnswers(j) PROVE PageTyped(page')
  <2> DEFINE p == [page EXCEPT !.link = {}, !.linked = TRUE]
             q == [p EXCEPT !.selRuns = {onRun[j]}]
  <2>1. page' \in {p, Keyed(q)}
    BY <1>3, Zenon DEF LinkAnswers, Shows
  <2>2. /\ DOMAIN p = PageFields /\ p.runs = page.runs /\ p.selRuns = page.selRuns /\ p.selJobs = page.selJobs
        /\ p.rows = page.rows
        /\ DOMAIN q = PageFields /\ q.runs = page.runs /\ q.selRuns = {onRun[j]} /\ q.selJobs = page.selJobs
    BY DEF PageTyped, PageFields
  <2> HIDE DEF p, q
  <2>3. PageTyped(p)
    BY <2>2, RestTyped DEF PageTyped
  <2>4. PageTyped(Keyed(q))
    <3>1. q.selRuns \subseteq RunIds
      BY <2>2
    <3> QED
      BY <2>2, <3>1, KeyedTyped DEF PageTyped
  <2> QED
    BY <2>1, <2>3, <2>4
<1> QED
  BY <1>1, <1>2, <1>3

\* Queries answered and clicks on jobs.
LEMMA TouchedTyped ==
  ASSUME PageTyped(page), status \in [RvJobs -> Statuses],
         \/ FetchRuns \/ FetchRunJobs \/ ToggleCancelled \/ FetchAssignIds
         \/ \E j \in RvJobs, key \in {"none", "ctrl"} : SelectJob(j, key)
         \/ \E j \in RvJobs : OpenJobMenu(j)
         \/ \E d \in {"assignJobs", "transferJobs", "moveBack"} : OpenDialog(d)
  PROVE  PageTyped(page')
<1>1. CASE FetchRuns
  <2> DEFINE q == [page EXCEPT !.runs = {r \in RunIds : RunDay[r] = page.day}]
  <2>1. page' = q
    BY <1>1 DEF FetchRuns, Shows
  <2>2. /\ DOMAIN q = PageFields /\ q.runs \subseteq RunIds /\ q.selRuns = page.selRuns /\ q.selJobs = page.selJobs
        /\ q.rows = page.rows
    BY DEF PageTyped, PageFields
  <2> HIDE DEF q
  <2> QED
    BY <2>1, <2>2, SameRun, SelectedTyped DEF PageTyped
<1>2. CASE FetchRunJobs
  <2> DEFINE rows == [j \in RvJobs |-> IF onRun[j] = SingleRun(page) THEN status[j] ELSE Gone]
             q == [page EXCEPT !.rows = rows]
  <2>1. page' = q /\ SingleRun(page) # Nowhere
    BY <1>2 DEF FetchRunJobs, Shows
  <2>2. rows \in [RvJobs -> Statuses \cup {Gone}]
    OBVIOUS
  <2> HIDE DEF rows
  <2>3. /\ DOMAIN q = PageFields /\ q.runs = page.runs /\ q.selRuns = page.selRuns /\ q.selJobs = page.selJobs
        /\ q.rows = rows
    BY DEF PageTyped, PageFields
  <2> HIDE DEF q
  <2>4. SingleRun(q) = SingleRun(page)
    BY <2>3, SameRun
  <2>5. PageTyped(q)
    BY <2>1, <2>2, <2>3, <2>4 DEF PageTyped
  <2> QED
    BY <2>1, <2>5
<1>3. ASSUME DOMAIN page' = PageFields, page'.runs = page.runs, page'.selRuns = page.selRuns,
             page'.selJobs \subseteq RvJobs, page'.rows = page.rows
      PROVE  PageTyped(page')
  BY <1>3, RestTyped
<1> USE DEF PageTyped, PageFields, Shows
<1>4. CASE ToggleCancelled
  <2>1. /\ DOMAIN page' = PageFields /\ page'.runs = page.runs /\ page'.selRuns = page.selRuns
        /\ page'.selJobs = page.selJobs /\ page'.rows = page.rows
    BY <1>4 DEF ToggleCancelled
  <2> QED
    BY <1>3, <2>1
<1>5. CASE FetchAssignIds
  <2>1. /\ DOMAIN page' = PageFields /\ page'.runs = page.runs /\ page'.selRuns = page.selRuns
        /\ page'.selJobs = page.selJobs /\ page'.rows = page.rows
    BY <1>5 DEF FetchAssignIds
  <2> QED
    BY <1>3, <2>1
<1>6. ASSUME NEW d \in {"assignJobs", "transferJobs", "moveBack"}, OpenDialog(d) PROVE PageTyped(page')
  <2>1. /\ DOMAIN page' = PageFields /\ page'.runs = page.runs /\ page'.selRuns = page.selRuns
        /\ page'.selJobs = page.selJobs /\ page'.rows = page.rows
    BY <1>6 DEF OpenDialog
  <2> QED
    BY <1>3, <2>1
<1>7. ASSUME NEW j \in RvJobs, NEW key \in {"none", "ctrl"}, SelectJob(j, key) PROVE PageTyped(page')
  <2>1. /\ DOMAIN page' = PageFields /\ page'.runs = page.runs /\ page'.selRuns = page.selRuns
        /\ page'.selJobs \subseteq page.selJobs \cup {j} /\ page'.rows = page.rows
    BY <1>7 DEF SelectJob
  <2> QED
    BY <1>3, <2>1
<1>8. ASSUME NEW j \in RvJobs, OpenJobMenu(j) PROVE PageTyped(page')
  <2>1. /\ DOMAIN page' = PageFields /\ page'.runs = page.runs /\ page'.selRuns = page.selRuns
        /\ page'.selJobs \subseteq page.selJobs \cup {j} /\ page'.rows = page.rows
    BY <1>8 DEF OpenJobMenu
  <2> QED
    BY <1>3, <2>1
<1> QED
  BY <1>1, <1>2, <1>4, <1>5, <1>6, <1>7, <1>8

\* The rows on the server keep their types.
LEMMA TablesOfViewer ==
  ASSUME ViewTyped, [RvNext]_rvVars
  PROVE  onRun' \in [RvJobs -> RunIds] /\ status' \in [RvJobs -> Statuses]
<1>1. onRun \in [RvJobs -> RunIds] /\ status \in [RvJobs -> Statuses] /\ {"V", "D"} \subseteq Statuses
  BY DEF ViewTyped, Statuses
<1>2. ASSUME UNCHANGED <<onRun, status>> PROVE onRun' \in [RvJobs -> RunIds] /\ status' \in [RvJobs -> Statuses]
  BY <1>1, <1>2
<1>3. CASE Select
  BY <1>2, <1>3 DEF Select, ChangeDay, ChangeView, ToggleCancelled, SelectRun, SelectJob, OpenRunMenu, OpenJobMenu,
     DragStart, CloseMenu, Reload, Shows
<1>4. CASE Act
  <2>1. ASSUME NEW r \in RunIds, TransferJobs(r) \/ Drop(r)
        PROVE  onRun' \in [RvJobs -> RunIds] /\ status' \in [RvJobs -> Statuses]
    BY <1>1, <2>1 DEF TransferJobs, Drop, PutOn
  <2>2. ASSUME NEW keep \in BOOLEAN, MoveBack(keep)
        PROVE  onRun' \in [RvJobs -> RunIds] /\ status' \in [RvJobs -> Statuses]
    BY <1>1, <2>2 DEF MoveBack
  <2>3. ASSUME NEW failed \in SUBSET RvJobs, AssignJobs(failed)
        PROVE  onRun' \in [RvJobs -> RunIds] /\ status' \in [RvJobs -> Statuses]
    <3>1. \E jobs : status' = [j \in RvJobs |-> IF j \in jobs \ failed THEN "D" ELSE status[j]]
      BY <2>3 DEF AssignJobs
    <3>2. onRun' = onRun
      BY <2>3 DEF AssignJobs
    <3> QED
      BY <1>1, <3>1, <3>2
  <2>4. CASE VoidMenuJobs
    BY <1>1, <2>4 DEF VoidMenuJobs
  <2>5. ASSUME FetchAssignIds \/ (\E l \in 1 .. MaxLoops : StartBulk(l))
               \/ \E d \in {"assignJobs", "transferJobs", "moveBack"} : OpenDialog(d)
        PROVE  onRun' \in [RvJobs -> RunIds] /\ status' \in [RvJobs -> Statuses]
    BY <1>2, <2>5 DEF FetchAssignIds, StartBulk, OpenDialog, Shows
  <2> QED
    BY <1>4, <2>1, <2>2, <2>3, <2>4, <2>5 DEF Act
<1>5. ASSUME NEW l \in 1 .. MaxLoops, NEW j \in RvJobs, NEW ok \in BOOLEAN, CallNext(l, j, ok)
      PROVE  onRun' \in [RvJobs -> RunIds] /\ status' \in [RvJobs -> Statuses]
  BY <1>1, <1>5 DEF CallNext
<1>6. ASSUME NEW j \in RvJobs, Elsewhere(j) PROVE onRun' \in [RvJobs -> RunIds] /\ status' \in [RvJobs -> Statuses]
  BY <1>1, <1>6 DEF Elsewhere
<1>7. CASE UNCHANGED rvVars
  BY <1>2, <1>7 DEF rvVars
<1>8. CASE FetchRuns \/ FetchRunJobs \/ \E j \in RvJobs : LinkAnswers(j)
  BY <1>2, <1>8 DEF FetchRuns, FetchRunJobs, LinkAnswers, Shows
<1> QED
  BY <1>3, <1>4, <1>5, <1>6, <1>7, <1>8 DEF RvNext

\* The page keeps its types.
LEMMA PageTypedStep == ASSUME ViewTyped, [RvNext]_rvVars PROVE PageTyped(page')
<1>0. PageTyped(page) /\ onRun \in [RvJobs -> RunIds] /\ status \in [RvJobs -> Statuses]
  BY DEF ViewTyped
<1>1. ASSUME UNCHANGED page PROVE PageTyped(page')
  BY <1>0, <1>1
<1>2. ASSUME page' = Closed(page) PROVE PageTyped(page')
  BY <1>0, <1>2, ClosedTyped
<1>3. CASE Select
  <2>1. CASE CloseMenu
    BY <1>2, <2>1 DEF CloseMenu, Shows
  <2>2. CASE Reload
    BY <2>2, NewTyped DEF Reload, Shows
  <2>3. ASSUME NEW j \in RvJobs, DragStart(j) PROVE PageTyped(page')
    BY <1>1, <2>3 DEF DragStart
  <2> QED
    BY <1>0, <1>3, <2>1, <2>2, <2>3, FiltersTyped, RunClickTyped, RunMenuTyped, TouchedTyped DEF Select
<1>4. CASE Act
  <2>1. ASSUME NEW r \in RunIds, TransferJobs(r) \/ Drop(r) PROVE PageTyped(page')
    BY <1>1, <1>2, <2>1 DEF TransferJobs, Drop
  <2>2. ASSUME NEW keep \in BOOLEAN, MoveBack(keep) PROVE PageTyped(page')
    BY <1>2, <2>2 DEF MoveBack
  <2>3. ASSUME NEW failed \in SUBSET RvJobs, AssignJobs(failed) PROVE PageTyped(page')
    BY <1>2, <2>3 DEF AssignJobs
  <2>4. CASE VoidMenuJobs
    BY <1>2, <2>4 DEF VoidMenuJobs
  <2>5. ASSUME NEW l \in 1 .. MaxLoops, StartBulk(l) PROVE PageTyped(page')
    BY <1>2, <2>5 DEF StartBulk
  <2> QED
    BY <1>0, <1>4, <2>1, <2>2, <2>3, <2>4, <2>5, TouchedTyped DEF Act
<1>5. ASSUME NEW l \in 1 .. MaxLoops, NEW j \in RvJobs, NEW ok \in BOOLEAN, CallNext(l, j, ok) PROVE PageTyped(page')
  BY <1>1, <1>5 DEF CallNext
<1>6. ASSUME NEW j \in RvJobs, Elsewhere(j) PROVE PageTyped(page')
  BY <1>1, <1>6 DEF Elsewhere
<1>7. CASE UNCHANGED rvVars
  BY <1>1, <1>7 DEF rvVars
<1> QED
  BY <1>0, <1>3, <1>4, <1>5, <1>6, <1>7, FiltersTyped, TouchedTyped DEF RvNext

\* Whatever others do to the jobs and whenever the queries answer: rows are on the screen for a single
\* run only, and what is selected are runs and jobs there are.
THEOREM ViewTypesHold == RvSpec => []RvTypeOK
<1>1. RvInit => ViewTyped
  <2> SUFFICES ASSUME RvInit PROVE ViewTyped
    OBVIOUS
  <2>1. PageTyped(page)
    BY NewTyped DEF RvInit
  <2>2. onRun \in [RvJobs -> RunIds]
    <3>1. Head(RvRuns) \in RunIds
      BY RvAssumption DEF RunIds, ToSet
    <3> QED
      BY <3>1 DEF RvInit
  <2>3. status \in [RvJobs -> Statuses] /\ loops \in [1 .. MaxLoops -> LoopRecord]
    BY DEF RvInit, Statuses, NoLoop, LoopRecord
  <2> QED
    BY <2>1, <2>2, <2>3 DEF ViewTyped
<1>2. ViewTyped /\ [RvNext]_rvVars => ViewTyped'
  <2> SUFFICES ASSUME ViewTyped, [RvNext]_rvVars PROVE ViewTyped'
    OBVIOUS
  <2>1. PageTyped(page')
    BY PageTypedStep
  <2>2. PageTyped(page)'
    BY <2>1 DEF PageTyped, SingleRun, NoRows
  <2> QED
    BY <2>2, TablesOfViewer, LoopStep DEF ViewTyped
<1>3. ViewTyped => RvTypeOK
  <2> SUFFICES ASSUME ViewTyped PROVE RvTypeOK
    OBVIOUS
  <2>1. page.rows = NoRows => RowsShown(page) = {}
    BY DEF RowsShown, NoRows
  <2> QED
    BY <2>1 DEF ViewTyped, PageTyped, LoopRecord, RvTypeOK
<1> QED
  BY <1>1, <1>2, <1>3, PTL DEF RvSpec
===============================================================================
