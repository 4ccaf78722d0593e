----------------------------- MODULE MCRunRaces -----------------------------
(* RunRaces on small instances.                                             *)
EXTENDS RunRacesBoard, FiniteSets, TLC

\* Jobs are interchangeable, and so are clients.
Symmetry == Permutations(Jobs) \cup Permutations(Clients)

AllKinds == {"upsert", "assign", "remove", "delete", "send"}

RequestedJobs(q) ==
  CASE "job" \in DOMAIN q -> {q.job}
    [] "jobs" \in DOMAIN q -> q.jobs
    [] OTHER -> {}

\* Bound: with every kind of request, one job only.
OneJobOfAllKinds ==
  kinds = AllKinds =>
    Cardinality({x.job : x \in rows} \cup {j \in Jobs : jobRun[j] # None} \cup sent
                  \cup UNION {RequestedJobs(req[c]) : c \in Clients}) <= 1
=============================================================================
