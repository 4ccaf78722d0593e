------------------------------- MODULE JobBoard -------------------------------
(***************************************************************************)
(* What the Route Builder promises about where a job is.  A job is in one  *)
(* place: unbuilt, on one open run, or sent to live.  Jobs move in         *)
(* batches, only an open run receives jobs, closing a run leaves no job on *)
(* it, and a job that was sent never comes back to the board.  Where       *)
(* Strands, a job may by itself be put on a run that was closed, and stays *)
(* there until it is moved.                                                *)
(***************************************************************************)
CONSTANTS
  Jobs,     \* jobs on the board
  Runs,     \* every run id there ever is
  Unbuilt,  \* the place of a job on no run
  Sent,     \* the place of a job that went live
  Strands   \* whether jobs are put on closed runs

VARIABLES
  place,    \* where each job is
  open      \* the runs that exist

\* Every job is unbuilt; some runs may be there already.
Init ==
  /\ place = [j \in Jobs |-> Unbuilt]
  /\ open \in SUBSET Runs

\* The batch S, less what was already sent, is put at p.
Put(S, p) == [j \in Jobs |-> IF j \in S /\ place[j] # Sent THEN p ELSE place[j]]

\* S goes to run r, which is open or is opened for it.
Place(S, r) ==
  /\ place' = Put(S, r)
  /\ open' = open \cup {r}

\* j goes to a run that is not there.
Strand(j, r) ==
  /\ Strands
  /\ r \notin open
  /\ place' = Put({j}, r)
  /\ UNCHANGED open

Release(S) ==
  /\ place' = Put(S, Unbuilt)
  /\ UNCHANGED open

\* Run r is closed: S goes to p, and whatever else was on r becomes unbuilt.
Close(r, S, p) ==
  /\ r \in open
  /\ p \in (open \ {r}) \cup {Unbuilt}
  /\ open' = open \ {r}
  /\ place' = [j \in Jobs |-> IF place[j] # r \/ j \in S THEN Put(S, p)[j] ELSE Unbuilt]

Send(j) ==
  /\ place' = [place EXCEPT ![j] = Sent]
  /\ UNCHANGED open

Next ==
  \/ \E S \in SUBSET Jobs, r \in Runs : Place(S, r)
  \/ \E j \in Jobs, r \in Runs : Strand(j, r)
  \/ \E S \in SUBSET Jobs : Release(S)
  \/ \E r \in Runs, S \in SUBSET Jobs, p \in Runs \cup {Unbuilt} : Close(r, S, p)
  \/ \E j \in Jobs : Send(j)

Spec == Init /\ [][Next]_<<place, open>>

===============================================================================
