------------------------------ MODULE ImportSteps ------------------------------
(***************************************************************************)
(* Steps 2 to 4 of the bulk import wizard, from two sides: the mapping of  *)
(* the columns, and the corrections of names and addresses.  Each module   *)
(* has the wizard around its own step, and reads nothing that the other    *)
(* writes: a file read through any mapping is a sheet of ImportFixes.  So  *)
(* one side moves and the other one waits as it was opened.                *)
(***************************************************************************)
EXTENDS ColumnMapping, ImportFixes

VARIABLE moving

stepsVars == <<moving, cmVars, fxVars>>

StepsInit == moving \in {"columns", "fixes"} /\ CmInit /\ FxInit

ColumnsMove == moving = "columns" /\ CmNext /\ UNCHANGED <<moving, fxVars>>

FixesMove == moving = "fixes" /\ FxNext /\ UNCHANGED <<moving, cmVars>>

StepsNext == ColumnsMove \/ FixesMove

StepsSpec == StepsInit /\ [][StepsNext]_stepsVars

\* The wizard keeps its shape on both sides: what is on a column, what is pinned and what the calls
\* under way will write.
StepsTypeOK == moving \in {"columns", "fixes"} /\ CmTypeOK /\ FxTypeOK
================================================================================
