------------------------------- MODULE ScanManager -------------------------------
(****************************************************************************)
(* The scan manager of the route viewer: the scan rows of a date in two     *)
(* modes, filtered by the server, searched, sorted and paged here, and      *)
(* fetched again every 25 s and after a removal, while couriers scan and    *)
(* jobs move to other dates.  In Bulk the rows are parents with children    *)
(* under them; only parents are searched, counted and paged.                *)
(*                                                                          *)
(* A filter is the client, region and speed selections together.  Fetches   *)
(* that fail, which keep what was there, are left out.                      *)
(****************************************************************************)
EXTENDS Naturals, FiniteSets

CONSTANTS
  ScJobs,    \* jobs with scans: the rows, in the order of their job numbers
  ScChildren, \* the LHP and DEL rows among them
  ScDays,    \* run dates
  ScFilters, \* the sets of jobs that the filters let through
  Searches,  \* the sets of jobs that search texts match
  BulkPage   \* BULK_PAGE_SIZE

ASSUME ScAssumption ==
  /\ ScJobs \subseteq Nat /\ IsFiniteSet(ScJobs) /\ ScChildren \subseteq ScJobs
  /\ ScFilters \subseteq SUBSET ScJobs /\ ScJobs \in ScFilters
  /\ Searches \subseteq SUBSET ScJobs /\ ScJobs \in Searches
  /\ BulkPage \in Nat \ {0}

VARIABLES
  scans,  \* server: the run date of each job, and whether it is scanned; OffTheGrid
  grid,   \* the page's state
  scCache, \* sm-bulk, sm-routed: of a mode, date and filter, whether read, and the rows last read
  scDue   \* the entries being fetched

scVars == <<scans, grid, scCache, scDue>>

Modes == {"Bulk", "Routed"}

OffTheGrid == [day |-> 0, scanned |-> FALSE]

\* Mutant: the filters are not in the key.
KeyOfDay(g) == <<g.mode, g.day, ScJobs>>

\* queryKey.
ScKey(g) == <<g.mode, g.day, g.filter>>

ScKeys == Modes \X ScDays \X ScFilters

Unfetched == [read |-> FALSE, rows |-> << >>]

\* GetBulkScanJobs, GetRoutedScanJobs: the routed rows are shipments, no children.
ScanRows(mode, day, filter) ==
  [j \in {j \in filter : scans[j].day = day /\ (mode = "Routed" => j \notin ScChildren)} |-> scans[j]]

NewGrid(day, mode) ==
  [day |-> day, mode |-> mode, filter |-> ScJobs, typed |-> ScJobs, search |-> ScJobs, page |-> 1,
   descending |-> FALSE, sel |-> 0, expanded |-> {}]

ScInit ==
  /\ scans \in [ScJobs -> [day : ScDays, scanned : BOOLEAN]]
  /\ \E day \in ScDays, mode \in Modes : grid = NewGrid(day, mode)
  /\ scCache = [k \in ScKeys |-> Unfetched] /\ scDue = {ScKey(grid)}

-----------------------------------------------------------------------------
\* bulkQ.data, routedQ.data of the current key.
GridRows(g) == scCache[ScKey(g)].rows

\* filteredBulk, filteredRouted.
GridFound(g) == (DOMAIN GridRows(g) \ (IF g.mode = "Bulk" THEN ScChildren ELSE {})) \cap g.search

GridPages(g) ==
  LET n == Cardinality(GridFound(g)) IN IF n = 0 THEN 1 ELSE (n + BulkPage - 1) \div BulkPage

\* Mutant: the page asked for, although there are fewer now.
PageAsked(g) == g.page

\* currentPage.
CurrentPage(g) == IF g.page < GridPages(g) THEN g.page ELSE GridPages(g)

\* sortedBulk: by job number, up or down.
EarlierRows(g, j) == Cardinality({i \in GridFound(g) : IF g.descending THEN i > j ELSE i < j})

\* pagedBulk; in Routed there are no pages.
GridPaged(g) ==
  IF g.mode = "Routed" THEN GridFound(g)
  ELSE {j \in GridFound(g) : EarlierRows(g, j) \div BulkPage = CurrentPage(g) - 1}

\* A new key is fetched unless its rows are fresh; the rows of the old one stay cached.
LookAt(g) ==
  /\ grid' = g
  /\ \/ scDue' = scDue \cup {ScKey(g)}
     \/ scDue' = scDue /\ scCache[ScKey(g)].read
  /\ UNCHANGED <<scans, scCache>>

\* Date, mode, filter: the effect puts the pager back.  What is selected and expanded stays.
SetRunDate(d) == d # grid.day /\ LookAt([grid EXCEPT !.day = d, !.page = 1])

SetMode(m) == m # grid.mode /\ LookAt([grid EXCEPT !.mode = m, !.page = 1])

SetScanFilter(f) == f # grid.filter /\ LookAt([grid EXCEPT !.filter = f, !.page = 1])

\* searchInput, and search 200 ms after the last key.
TypeSearch(s) ==
  /\ s # grid.typed /\ grid' = [grid EXCEPT !.typed = s]
  /\ UNCHANGED <<scans, scCache, scDue>>

SearchSettles ==
  /\ grid.search # grid.typed
  /\ grid' = [grid EXCEPT !.search = grid.typed, !.page = 1]
  /\ UNCHANGED <<scans, scCache, scDue>>

TurnOrder ==
  /\ grid' = [grid EXCEPT !.descending = ~@]
  /\ UNCHANGED <<scans, scCache, scDue>>

TurnPage(p) ==
  /\ grid.mode = "Bulk" /\ p \in 1 .. GridPages(grid) /\ p # CurrentPage(grid)
  /\ grid' = [grid EXCEPT !.page = p]
  /\ UNCHANGED <<scans, scCache, scDue>>

\* Children are drawn under an expanded parent on the page.
GridDrawn(g) == GridPaged(g) \cup
  IF g.mode = "Bulk" /\ g.expanded \cap GridPaged(g) # {} THEN DOMAIN GridRows(g) \cap ScChildren ELSE {}

SelectRow(j) ==
  /\ j \in GridDrawn(grid) /\ grid' = [grid EXCEPT !.sel = j]
  /\ UNCHANGED <<scans, scCache, scDue>>

ToggleExpanded(j) ==
  /\ j \in GridPaged(grid)
  /\ grid' = [grid EXCEPT !.expanded = IF j \in @ THEN @ \ {j} ELSE @ \cup {j}]
  /\ UNCHANGED <<scans, scCache, scDue>>

\* useAutoPoll; the rows of the other mode are not fetched.
PollScans ==
  /\ scDue' = scDue \cup {ScKey(grid)} /\ scDue' # scDue
  /\ UNCHANGED <<scans, grid, scCache>>

AnswerScans(k) ==
  /\ k \in scDue
  /\ scCache' = [scCache EXCEPT ![k] = [read |-> TRUE, rows |-> ScanRows(k[1], k[2], k[3])]]
  /\ scDue' = scDue \ {k}
  /\ UNCHANGED <<scans, grid>>

\* Remove missing boxes, after its dialog: the children of the date without a scan, whatever the
\* filter; a failure is swallowed, and the rows are fetched either way.
RemoveMissing ==
  /\ grid.mode = "Bulk"
  /\ \/ scans' = [j \in ScJobs |->
           IF j \in ScChildren /\ scans[j].day = grid.day /\ ~scans[j].scanned THEN OffTheGrid ELSE scans[j]]
     \/ scans' = scans
  /\ scDue' = scDue \cup {ScKey(grid)}
  /\ UNCHANGED <<grid, scCache>>

\* A courier scans a job; a job moves to another date.
ScansGoOn ==
  /\ \E j \in ScJobs :
       /\ scans[j] # OffTheGrid
       /\ \/ scans' = [scans EXCEPT ![j].scanned = TRUE]
          \/ \E d \in ScDays : scans' = [scans EXCEPT ![j].day = d]
  /\ UNCHANGED <<grid, scCache, scDue>>

ScNext ==
  \/ \E d \in ScDays : SetRunDate(d)
  \/ \E m \in Modes : SetMode(m)
  \/ \E f \in ScFilters : SetScanFilter(f)
  \/ \E s \in Searches : TypeSearch(s)
  \/ SearchSettles \/ TurnOrder \/ PollScans \/ RemoveMissing \/ ScansGoOn
  \/ \E p \in 1 .. Cardinality(ScJobs) : TurnPage(p)
  \/ \E j \in ScJobs : SelectRow(j) \/ ToggleExpanded(j)
  \/ \E k \in ScKeys : AnswerScans(k)

ScSpec == ScInit /\ [][ScNext]_scVars

-----------------------------------------------------------------------------
ScTypeOK ==
  /\ \A j \in ScJobs : scans[j] = OffTheGrid \/ scans[j].day \in ScDays
  /\ grid.day \in ScDays /\ grid.mode \in Modes /\ grid.filter \in ScFilters
  /\ scDue \subseteq ScKeys /\ (~scCache[ScKey(grid)].read => ScKey(grid) \in scDue)

\* The grid shows rows of the date and filters above it, never those of the ones before, and if
\* it found any, the page it is on has some, however the rows shrink under it.
GridIsOfItsFilters ==
  /\ \A j \in GridDrawn(grid) : GridRows(grid)[j].day = grid.day /\ j \in grid.filter
  /\ GridFound(grid) # {} => GridPaged(grid) # {}
===============================================================================
