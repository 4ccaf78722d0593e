-------------------------------- MODULE ImportList --------------------------------
(****************************************************************************)
(* The /bulk-import page: the list of routed, on-demand and pre-booked      *)
(* imports, its filter, ticks and deletions.  Each kind has its own table   *)
(* and its own ids, but the list calls on-demand jobs and pre-bookings both *)
(* "ondemand", and has one delete call for the two.  Sorting and paging are *)
(* left out, and so is Bulk Complete, whose button is commented out.        *)
(****************************************************************************)
EXTENDS Naturals, Sequences, FiniteSets, SequencesExt

CONSTANTS
  IlJobs, \* rows there may be: <<table, id>>
  MaxIl   \* bound: loads and changes by others

IlTables == {"bulk", "live", "prebook"}

ASSUME IlAssumption ==
  IlJobs \subseteq IlTables \X (Nat \ {0}) /\ IsFiniteSet(IlJobs) /\ MaxIl \in Nat

VARIABLES
  ilServer, \* the rows in the tables, and the ones on a run or dispatched
  ilList,   \* rows and canDelete as loaded, filter, selectedKeys, pendingDeleteId
  ilAsk,    \* the confirmation on the screen: the rows it is about
  ilLoads,  \* loads under way, with what the server read if it has
  ilBulk,   \* bulkDeleteSelected: rows to go, keys that went
  ilOnes,   \* single deletions under way, numbered
  ilCount   \* loads and changes of others so far

ilVars == <<ilServer, ilList, ilAsk, ilLoads, ilBulk, ilOnes, ilCount>>

TypeTag(row) == IF row[1] = "bulk" THEN "routed" ELSE "ondemand"

\* rowKey.
RowKey(row) == <<TypeTag(row), row[2]>>

IlKeys == {RowKey(row) : row \in IlJobs}

IlFilters == {"all", "routed", "ondemand"}

NothingAsked == [one |-> FALSE, rows |-> {}]

NoBulk == [left |-> << >>, gone |-> {}]

NoServerRead == [rows |-> {}, free |-> {}]

IlInit ==
  /\ \E rows \in SUBSET IlJobs : \E taken \in SUBSET rows :
       ilServer = [rows |-> rows, taken |-> taken]
  /\ ilList = [rows |-> {}, free |-> {}, filter |-> "all", ticked |-> {}, pending |-> 0]
  /\ ilAsk = NothingAsked /\ ilBulk = NoBulk /\ ilOnes = {} /\ ilCount = 0
  /\ ilLoads = {[n |-> 0, read |-> FALSE, got |-> NoServerRead]}

-----------------------------------------------------------------------------
ListsType(filter) == {row \in IlJobs : filter \in {"all", TypeTag(row)}}

IlFiltered(list) == list.rows \cap ListsType(list.filter)

\* The effect on filtered.
PruneTicks(list) == [list EXCEPT !.ticked = @ \cap {RowKey(row) : row \in IlFiltered(list)}]

\* A new load: on mount, by Refresh unless one is under way, and after an import.
IlStartLoad ==
  /\ ilCount < MaxIl /\ ilCount' = ilCount + 1
  /\ ilLoads' = ilLoads \cup {[n |-> ilCount + 1, read |-> FALSE, got |-> NoServerRead]}

IlRefresh ==
  /\ ilLoads = {} /\ ilAsk = NothingAsked /\ IlStartLoad
  /\ UNCHANGED <<ilServer, ilList, ilAsk, ilBulk, ilOnes>>

\* A wizard of the page imports a row; the list loads while the wizard is still open.
WizardImports(row) ==
  /\ ilAsk = NothingAsked /\ row \notin ilServer.rows /\ IlStartLoad
  /\ ilServer' = [ilServer EXCEPT !.rows = @ \cup {row}]
  /\ UNCHANGED <<ilList, ilAsk, ilBulk, ilOnes>>

ServeImports(c) ==
  /\ c \in ilLoads /\ ~c.read
  /\ ilLoads' = (ilLoads \ {c}) \cup
       {[c EXCEPT !.read = TRUE,
                  !.got = [rows |-> ilServer.rows, free |-> ilServer.rows \ ilServer.taken]]}
  /\ UNCHANGED <<ilServer, ilList, ilAsk, ilBulk, ilOnes, ilCount>>

\* setRows, whichever load is answered last; a failed one empties the list.
ImportsLoaded(c) ==
  /\ c \in ilLoads /\ c.read /\ ilLoads' = ilLoads \ {c}
  /\ \E got \in {c.got, NoServerRead} :
       ilList' = PruneTicks([ilList EXCEPT !.rows = got.rows, !.free = got.free])
  /\ UNCHANGED <<ilServer, ilAsk, ilBulk, ilOnes, ilCount>>

\* A job is put on a run, dispatched or taken off again, or done.
OthersImport(row) ==
  /\ ilCount < MaxIl /\ ilCount' = ilCount + 1 /\ row \in ilServer.rows
  /\ ilServer' \in {[ilServer EXCEPT !.taken = IF row \in @ THEN @ \ {row} ELSE @ \cup {row}],
                    [rows |-> ilServer.rows \ {row}, taken |-> ilServer.taken \ {row}]}
  /\ UNCHANGED <<ilList, ilAsk, ilLoads, ilBulk, ilOnes>>

-----------------------------------------------------------------------------
IlLooks == ilAsk = NothingAsked /\ UNCHANGED <<ilServer, ilAsk, ilLoads, ilBulk, ilOnes, ilCount>>

SetTypeFilter(filter) == IlLooks /\ ilList' = PruneTicks([ilList EXCEPT !.filter = filter])

\* toggleRowSelected; the boxes are disabled while a batch is deleted.
ToggleRowSelected(row) ==
  /\ IlLooks /\ row \in IlFiltered(ilList) \cap ilList.free /\ ilBulk = NoBulk
  /\ LET k == RowKey(row)
     IN  ilList' = [ilList EXCEPT !.ticked = IF k \in @ THEN @ \ {k} ELSE @ \cup {k}]

ToggleAllImports ==
  LET keys == {RowKey(row) : row \in IlFiltered(ilList) \cap ilList.free}
  IN  /\ IlLooks /\ keys # {}
      /\ ilList' = [ilList EXCEPT !.ticked = IF keys \subseteq @ THEN {} ELSE keys]

IlConfirm(one, rows) ==
  /\ ilAsk = NothingAsked /\ rows # {} /\ ilAsk' = [one |-> one, rows |-> rows]
  /\ UNCHANGED <<ilServer, ilList, ilLoads, ilBulk, ilOnes, ilCount>>

\* Off for the id whose deletion was asked last, until one is answered.
AskDeleteRow(row) ==
  /\ row \in IlFiltered(ilList) \cap ilList.free /\ row[2] # ilList.pending
  /\ Cardinality(ilOnes) < MaxIl
  /\ IlConfirm(TRUE, {row})

\* bulkDeleteSelected before the question: every row that has a ticked key.
AskDeleteSelected ==
  /\ ilBulk = NoBulk
  /\ IlConfirm(FALSE, {row \in IlFiltered(ilList) \cap ilList.free : RowKey(row) \in ilList.ticked})

IlDecline ==
  /\ ilAsk # NothingAsked /\ ilAsk' = NothingAsked
  /\ UNCHANGED <<ilServer, ilList, ilLoads, ilBulk, ilOnes, ilCount>>

AgreeOne ==
  /\ ilAsk.one /\ ilAsk' = NothingAsked
  /\ LET row == CHOOSE row \in ilAsk.rows : TRUE
         n == CHOOSE n \in 1 .. MaxIl : \A d \in ilOnes : d.n # n
     IN  /\ ilOnes' = ilOnes \cup {[n |-> n, row |-> row]}
         /\ ilList' = [ilList EXCEPT !.pending = row[2]]
  /\ UNCHANGED <<ilServer, ilLoads, ilBulk, ilCount>>

AgreeSelected ==
  /\ ilAsk.rows # {} /\ ~ilAsk.one /\ ilAsk' = NothingAsked
  /\ ilBulk' = [NoBulk EXCEPT !.left = SetToSeq(ilAsk.rows)]
  /\ UNCHANGED <<ilServer, ilList, ilLoads, ilOnes, ilCount>>

-----------------------------------------------------------------------------
\* DeleteBulkJob, or DeleteTucJob of the id, whichever table the row is of.
DeleteTarget(row) == IF row[1] = "bulk" THEN row ELSE <<"live", row[2]>>

IlDeletable(row) == DeleteTarget(row) \in ilServer.rows \ ilServer.taken

\* The tables after a deletion; it is refused, or its reply lost after it was done.
IlDeleted(row, ok) ==
  /\ ok => IlDeletable(row)
  /\ ilServer' \in (IF IlDeletable(row)
                    THEN {[ilServer EXCEPT !.rows = @ \ {DeleteTarget(row)}]}
                           \cup (IF ok THEN {} ELSE {ilServer})
                    ELSE {ilServer})

\* confirmDelete: the row goes from the list, and those of other tables with its id.
DeleteOne(d) ==
  /\ d \in ilOnes /\ ilOnes' = ilOnes \ {d}
  /\ \E ok \in BOOLEAN :
       LET done == [ilList EXCEPT !.pending = 0] IN
       /\ IlDeleted(d.row, ok)
       /\ ilList' = IF ok THEN PruneTicks([done EXCEPT !.rows = {r \in @ : r[2] # d.row[2]}]) ELSE done
  /\ UNCHANGED <<ilAsk, ilLoads, ilBulk, ilCount>>

\* One turn of the loop.
DeleteNext ==
  /\ ilBulk.left # << >>
  /\ \E ok \in BOOLEAN :
       LET row == Head(ilBulk.left)
           gone == ilBulk.gone \cup (IF ok THEN {RowKey(row)} ELSE {})
           left == {r \in ilList.rows : RowKey(r) \notin gone}
       IN  /\ IlDeleted(row, ok)
           /\ IF Len(ilBulk.left) > 1
              THEN ilBulk' = [left |-> Tail(ilBulk.left), gone |-> gone] /\ UNCHANGED ilList
              ELSE /\ ilBulk' = NoBulk
                   /\ ilList' = PruneTicks([ilList EXCEPT !.rows = left, !.ticked = @ \ gone])
  /\ UNCHANGED <<ilAsk, ilLoads, ilOnes, ilCount>>

IlNext ==
  \/ IlRefresh \/ ToggleAllImports \/ AskDeleteSelected \/ IlDecline \/ AgreeOne \/ AgreeSelected \/ DeleteNext
  \/ \E c \in ilLoads : ServeImports(c) \/ ImportsLoaded(c)
  \/ \E d \in ilOnes : DeleteOne(d)
  \/ \E filter \in IlFilters : SetTypeFilter(filter)
  \/ \E row \in IlJobs : WizardImports(row) \/ OthersImport(row)
  \/ \E row \in IlJobs : ToggleRowSelected(row) \/ AskDeleteRow(row)

IlSpec == IlInit /\ [][IlNext]_ilVars

-----------------------------------------------------------------------------
IlTypeOK ==
  /\ ilServer.rows \subseteq IlJobs /\ ilServer.taken \subseteq ilServer.rows
  /\ ilList.rows \subseteq IlJobs /\ ilList.ticked \subseteq IlKeys /\ ilList.filter \in IlFilters
  /\ ilBulk.gone \subseteq IlKeys /\ ilAsk.rows \subseteq IlJobs
=================================================================================
