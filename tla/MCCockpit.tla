------------------------------ MODULE MCCockpit ------------------------------
(* Cockpit on small instances.                                              *)
EXTENDS Cockpit, TLC

Symmetry == Permutations(Jobs)

\* As a table of runs and as a page's copy of one: drafts, and one void run under its name.
Plain(runs, row) ==
  \A r \in runs : IF row[r].isVoid THEN r = 1 /\ row[r].status = 1 /\ row[r].name = VoidJobsName
                  ELSE row[r].status = 0

\* Bounds of the moves: one run with all that can happen to it; two that nothing is sent from; then a
\* third, so that the run a job was seen on, the one it is on and the one it goes to may all differ.
Bounded ==
  /\ nextRun > 2 => sending = {} /\ \A j \in Jobs : ~job[j].done
  /\ nextRun > 3 => Plain(LiveRuns, run) /\ Plain(ListedRuns, runList)
==============================================================================
