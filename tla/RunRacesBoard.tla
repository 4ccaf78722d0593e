---------------------------- MODULE RunRacesBoard ----------------------------
(***************************************************************************)
(* The job board again, from between the statements: with whole moves,     *)
(* removals and sends, what concurrent requests do to the tables is one    *)
(* board step each, at the moment of their commit.                         *)
(***************************************************************************)
EXTENDS RunRaces, Integers

Sent == -1

place == [j \in Jobs |-> IF j \in sent THEN Sent ELSE jobRun[j]]

Board == INSTANCE JobBoard WITH Unbuilt <- None, open <- runs, Strands <- FALSE

WholeMoves == kinds \cap {"upsert", "delete"} = {}

\* Batches, merges, removals and sends of any number of clients, interleaved at their awaits, are
\* together a behaviour of the board: each moves, releases, closes or sends once, or fails and
\* does nothing, and a merge leaves no job behind that another request put on its source.
ImplementsBoard == Board!Init /\ [][WholeMoves => Board!Next]_<<place, runs>>

===============================================================================
