--------------------------- MODULE RunBuilderBoard ---------------------------
(***************************************************************************)
(* RunBuilder implements JobBoard: a job's place is the run of its job     *)
(* row, until it is done.  POST /assign, which does not ask whether its    *)
(* run is there, is the one request that strands a job.                    *)
(***************************************************************************)
EXTENDS RunBuilder

Sent == MaxRuns + 1

place == [j \in Jobs |-> IF job[j].done THEN Sent ELSE job[j].run]

Board == INSTANCE JobBoard WITH Runs <- RunIds, Unbuilt <- None, open <- LiveRuns, Strands <- LegacyAssign

\* Every request of the Route Builder moves, releases, sends or closes as the board
\* promises, and nothing else.
ImplementsJobBoard == Board!Spec

===============================================================================
