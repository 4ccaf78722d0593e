------------------------------- MODULE RunBuild -------------------------------
(****************************************************************************)
(* Build Runs of the cockpit: its configuration, the preview, and the build *)
(* that buckets the ticked jobs, has each bucket put in order, splits it by *)
(* the limits and creates the runs one request after another, while the     *)
(* page stays open to everything else, a second build included.             *)
(*                                                                          *)
(* The closure that builds is made when the configuration opens: seen is    *)
(* the page of that render.  Names, minutes and texts are left out.         *)
(****************************************************************************)
EXTENDS Integers, SequencesExt

CONSTANTS
  BdJobs,     \* bulk jobs, numbered as the feed lists them
  BdOf,       \* what a job has, 0 or FALSE for nothing: [post, from, to, cubic, origin, most,
              \* cutoff, coords]
  BdConfigs,  \* settings the operator may choose: [mode, stop, cubic, cutoff, routing, finish]
  BdLegs,     \* minutes of a leg
  BdDay,      \* minutes of a day
  HereLimit,  \* the most stops HERE takes
  MaxBuilds   \* bound: builds

ASSUME BdAssumption ==
  /\ BdJobs \subseteq Nat \ {0} /\ IsFiniteSet(BdJobs) /\ \A j \in BdJobs : BdOf[j].cubic \in Nat
  /\ BdLegs \subseteq Nat /\ BdDay \in Nat /\ HereLimit \in Nat
  /\ MaxBuilds \in Nat

VARIABLES
  bdPage,   \* jobs listed and placed, ticked, config, auto (Auto route), modal, seen, alert
  bdBuilds, \* builds by number: [config, auto, todo, plans, queue, done]
  bdRuns    \* runs created, in order: [jobs, routing, finish]

bdVars == <<bdPage, bdBuilds, bdRuns>>

NoAlert == {}

BdInit ==
  \E config \in BdConfigs, auto \in BOOLEAN :
    /\ bdPage = [jobs |-> BdJobs, placed |-> {}, ticked |-> {}, config |-> config, auto |-> auto,
                 modal |-> "none", seen |-> {}, alert |-> NoAlert]
    /\ bdBuilds = << >> /\ bdRuns = << >>

-----------------------------------------------------------------------------
(* Screening and buckets                                                   *)

HasWindow(j) == BdOf[j].to > 0

\* valid: what the mode and the capacity check can handle.
Buildable(jobs, config) ==
  {j \in jobs : /\ config.mode = "deliveryWindow" => HasWindow(j)
                /\ config.mode = "maxBoxes" => BdOf[j].post > 0
                /\ config.cubic > 0 => BdOf[j].cubic > 0}

\* Jobs that leave a client's site go by site, client and day, in any mode.
BucketKey(j, config) ==
  IF BdOf[j].origin > 0 THEN <<"CO", BdOf[j].origin>>
  ELSE IF config.mode = "deliveryWindow" THEN <<"DW", BdOf[j].from>> ELSE <<"PC", BdOf[j].post>>

Before(i, j) == BdOf[i].post < BdOf[j].post \/ (BdOf[i].post = BdOf[j].post /\ i < j)

\* The jobs in order of postcode, and then of the list: a set of one sequence.
Sorted(jobs) == {s \in SetToSeqs(jobs) : \A i, k \in DOMAIN s : i < k => Before(s[i], s[k])}

\* bucketJobs.
BucketsOf(jobs, config) ==
  UNION {Sorted({j \in jobs : BucketKey(j, config) = key}) : key \in {BucketKey(j, config) : j \in jobs}}

-----------------------------------------------------------------------------
(* Order                                                                   *)

Orders(jobs) == UNION {SetToSeqs(S) : S \in (SUBSET jobs) \ {{}}}

NoLegs(order) == [i \in DOMAIN order |-> 0]

OnMap(bucket) == {j \in ToSet(bucket) : BdOf[j].coords}

AsIs(order) == [order |-> order, legs |-> NoLegs(order)]

\* HERE: without the stops it was not asked for or did not name.
FromHere(bucket) ==
  {[order |-> o, legs |-> [i \in DOMAIN o |-> leg]] : o \in Orders(OnMap(bucket)), leg \in BdLegs}

\* RouteSavvy: the ones it did not name last, and no minutes.
FromSavvy(bucket) ==
  UNION {{AsIs(o \o rest) : rest \in Sorted(ToSet(bucket) \ ToSet(o))} : o \in Orders(OnMap(bucket))}

\* The order and legs of a bucket: as it came, which is also what a failure leaves, or as routed.
Sequenced(bucket, build) ==
  IF build.config.mode # "deliveryWindow" \/ ~build.auto \/ Cardinality(OnMap(bucket)) < 2
  THEN {AsIs(bucket)}
  ELSE {AsIs(bucket)} \cup (IF Cardinality(OnMap(bucket)) > HereLimit THEN FromSavvy(bucket) ELSE FromHere(bucket))

-----------------------------------------------------------------------------
(* Limits and the split                                                    *)

\* windowMinutes: a window that ends before it starts goes over midnight.
WindowMinutes(from, to) == IF to > from THEN to - from ELSE to - from + BdDay

LeastOf(S) == CHOOSE n \in S : \A m \in S : n <= m

\* The window is from the first job's start to the earliest end; a bucket has the first job's cap
\* and the first cutoff there is.  0 is no limit.
WindowOf(bucket, config) ==
  IF config.mode = "deliveryWindow"
  THEN WindowMinutes(BdOf[bucket[1]].from, LeastOf({BdOf[j].to : j \in ToSet(bucket)}))
  ELSE 0

CutoffOf(order, config) ==
  LET with == SelectSeq(order, LAMBDA j : BdOf[j].cutoff > 0)
  IN  IF config.cutoff /\ with # << >> THEN BdOf[with[1]].cutoff ELSE 0

LimitsOf(bucket, order, config) ==
  LET mins == {WindowOf(bucket, config), CutoffOf(order, config)} \ {0}
  IN  [boxes |-> IF config.mode = "maxBoxes" THEN BdOf[order[1]].most ELSE 0,
       mins |-> IF mins = {} THEN 0 ELSE LeastOf(mins),
       cubic |-> config.cubic, stop |-> config.stop]

TooMuch(n, travel, cubic, limits) ==
  \/ limits.boxes > 0 /\ n > limits.boxes
  \/ limits.mins > 0 /\ travel + n * limits.stop > limits.mins
  \/ limits.cubic > 0 /\ cubic > limits.cubic

\* Mutant of NextRun: the run that is opened does not count the job that opens it.
NextRunEmpty(j, acc) ==
  [runs |-> Append(acc.runs, acc.cur), cur |-> <<j>>, travel |-> 0, cubic |-> 0]

NextRun(j, acc) ==
  [runs |-> Append(acc.runs, acc.cur), cur |-> <<j>>, travel |-> 0, cubic |-> BdOf[j].cubic]

AddJob(j, leg, acc, limits) ==
  LET travel == acc.travel + leg
      cubic == acc.cubic + BdOf[j].cubic
  IN  IF acc.cur # << >> /\ TooMuch(Len(acc.cur) + 1, travel, cubic, limits)
      THEN NextRun(j, acc)
      ELSE [runs |-> acc.runs, cur |-> Append(acc.cur, j), travel |-> travel, cubic |-> cubic]

NothingRead == [runs |-> << >>, cur |-> << >>, travel |-> 0, cubic |-> 0]

\* The turns of the loop of splitOrderedJobsByConstraints, and what it leaves.
Turns(order, legs, limits) ==
  LET acc[i \in 0 .. Len(order)] ==
        IF i = 0 THEN NothingRead ELSE AddJob(order[i], legs[i], acc[i - 1], limits)
  IN  acc

Split(order, legs, limits) ==
  LET all == Turns(order, legs, limits)[Len(order)] IN Append(all.runs, all.cur)

-----------------------------------------------------------------------------
(* The page                                                                *)

BdPage(page) == bdPage' = page /\ UNCHANGED <<bdBuilds, bdRuns>>

\* The list shows jobs that are on no run; a tick outlives its row.
TickJob(j) ==
  /\ bdPage.modal = "none" /\ bdPage.alert = NoAlert
  /\ j \in bdPage.jobs \ bdPage.placed
  /\ BdPage([bdPage EXCEPT !.ticked = SymDiff(@, {j})])

SetAutoRoute ==
  bdPage.modal = "none" /\ bdPage.alert = NoAlert /\ BdPage([bdPage EXCEPT !.auto = ~@])

\* openBuildConfig, with the page that doBuildRuns will see.
OpenBuildConfig(build) ==
  /\ bdPage.modal = "none" /\ bdPage.alert = NoAlert
  /\ build => bdPage.ticked # {}
  /\ BdPage([bdPage EXCEPT !.modal = IF build THEN "build" ELSE "config",
                           !.seen = {[jobs |-> bdPage.jobs, ticked |-> bdPage.ticked, config |-> bdPage.config,
                                      auto |-> bdPage.auto]}])

CancelConfig == bdPage.modal # "none" /\ BdPage([bdPage EXCEPT !.modal = "none", !.seen = {}])

PreviewOf(seen) ==
  LET valid == Buildable(seen.ticked \cap seen.jobs, seen.config)
  IN  IF valid = {} THEN NoAlert
      ELSE {[buckets |-> BucketsOf(valid, seen.config), config |-> seen.config, auto |-> seen.auto]}

\* commit: the draft is saved, and the build is previewed by what was seen.
CommitConfig(draft) ==
  /\ bdPage.modal # "none" /\ bdPage.modal = "build" => bdPage.ticked # {}
  /\ BdPage([bdPage EXCEPT !.config = draft, !.modal = "none", !.seen = {},
               !.alert = IF bdPage.modal = "build" THEN UNION {PreviewOf(s) : s \in bdPage.seen} ELSE @])

CancelBuild == bdPage.alert # NoAlert /\ BdPage([bdPage EXCEPT !.alert = NoAlert])

\* A load, of what others have done since: Deleted and moved jobs are gone from the list.
OthersTake(j) == j \in bdPage.jobs /\ BdPage([bdPage EXCEPT !.jobs = @ \ {j}])

-----------------------------------------------------------------------------
(* runBuildExecution                                                       *)

ConfirmBuild ==
  /\ bdPage.alert # NoAlert /\ Len(bdBuilds) < MaxBuilds
  /\ bdPage' = [bdPage EXCEPT !.alert = NoAlert]
  /\ \E a \in bdPage.alert :
       bdBuilds' = Append(bdBuilds, [config |-> a.config, auto |-> a.auto, todo |-> a.buckets,
                                     plans |-> {}, queue |-> << >>, done |-> FALSE])
  /\ UNCHANGED bdRuns

\* One turn of the first loop, over the answer of HERE or RouteSavvy.
PlanBucket(n) ==
  /\ bdBuilds[n].todo # {}
  /\ LET build == bdBuilds[n]
         bucket == CHOOSE b \in build.todo : TRUE
     IN  \E s \in Sequenced(bucket, build) :
           LET limits == LimitsOf(bucket, s.order, build.config)
               runs == Split(s.order, s.legs, limits)
           IN  bdBuilds' = [bdBuilds EXCEPT
                 ![n].todo = @ \ {bucket}, ![n].queue = @ \o runs,
                 ![n].plans = @ \cup {[order |-> s.order, legs |-> s.legs, limits |-> limits, runs |-> runs]}]
  /\ UNCHANGED <<bdPage, bdRuns>>

\* A run ends at the chosen stop only when the stop is one of its jobs.
RunOf(jobs, config) ==
  LET ends == config.routing = "finishAtStop" /\ config.finish \in ToSet(jobs)
  IN  [jobs |-> jobs, finish |-> IF ends THEN config.finish ELSE 0,
       routing |-> IF config.routing = "aToA" THEN 1 ELSE IF ends THEN 2 ELSE 0]

\* One turn of the second loop: created, or refused, and the build goes on.
CreateNext(n) ==
  LET build == bdBuilds[n]
  IN  /\ build.todo = {} /\ build.queue # << >>
      /\ bdRuns' \in {bdRuns, Append(bdRuns, RunOf(Head(build.queue), build.config))}
      /\ bdBuilds' = [bdBuilds EXCEPT ![n].queue = Tail(@)]
      /\ UNCHANGED bdPage

OnRuns == UNION {ToSet(bdRuns[i].jobs) : i \in DOMAIN bdRuns}

\* The selection goes, whatever was ticked since; the page is loaded again.
EndBuild(n) ==
  /\ bdBuilds[n].todo = {} /\ bdBuilds[n].queue = << >> /\ ~bdBuilds[n].done
  /\ bdBuilds' = [bdBuilds EXCEPT ![n].done = TRUE]
  /\ bdPage' = [bdPage EXCEPT !.ticked = {}, !.modal = "none", !.seen = {}, !.placed = OnRuns]
  /\ UNCHANGED bdRuns

BdNext ==
  \/ SetAutoRoute \/ CancelConfig \/ CancelBuild \/ ConfirmBuild
  \/ \E j \in BdJobs : TickJob(j) \/ OthersTake(j)
  \/ \E build \in BOOLEAN : OpenBuildConfig(build)
  \/ \E draft \in BdConfigs : CommitConfig(draft)
  \/ \E n \in DOMAIN bdBuilds : PlanBucket(n) \/ CreateNext(n) \/ EndBuild(n)

BdSpec == BdInit /\ [][BdNext]_bdVars

-----------------------------------------------------------------------------
BdTypeOK ==
  /\ bdPage.config \in BdConfigs /\ bdPage.ticked \subseteq BdJobs
  /\ bdPage.modal \in {"none", "config", "build"} /\ (bdPage.modal = "none") = (bdPage.seen = {})
  /\ \A n \in DOMAIN bdBuilds : \A b \in bdBuilds[n].todo : b # << >> /\ ToSet(b) \subseteq BdJobs
  /\ \A i \in DOMAIN bdRuns : bdRuns[i].finish \in ToSet(bdRuns[i].jobs) \cup {0}

\* x[a] + ... + x[b], for a sequence x.
Total(x, a, b) ==
  LET sum[i \in 0 .. Len(x)] == IF i < a THEN 0 ELSE sum[i - 1] + x[i] IN sum[b]

\* The jobs a .. b of a plan fit in one run: the leg to the first counts for the first run only.
Fits(p, a, b) ==
  ~TooMuch(b - a + 1, Total(p.legs, IF a = 1 THEN 1 ELSE a + 1, b),
           Total([i \in DOMAIN p.order |-> BdOf[p.order[i]].cubic], a, b), p.limits)

\* Where each run of a plan starts in its order, and the end of the last.
Starts(runs) ==
  LET at[k \in 0 .. Len(runs)] == IF k = 0 THEN 1 ELSE at[k - 1] + Len(runs[k]) IN at

\* A run is the jobs a .. b of its plan, within every limit unless it is one job, and not cut short
\* of what still fitted.
RunFits(p, r, a, b) ==
  /\ a <= b /\ r = SubSeq(p.order, a, b)
  /\ a = b \/ Fits(p, a, b)
  /\ b < Len(p.order) => ~Fits(p, a, b + 1)

\* The runs of a bucket are its order, cut: no job is lost or doubled, no run is over its driver's
\* window, cutoff or vehicle, and none leaves a job to the next that it had room for.
RunsFitTheirLimits ==
  \A n \in DOMAIN bdBuilds : \A p \in bdBuilds[n].plans :
    LET at == Starts(p.runs)
    IN  /\ at[Len(p.runs)] = Len(p.order) + 1
        /\ \A k \in DOMAIN p.runs : RunFits(p, p.runs[k], at[k - 1], at[k] - 1)
=============================================================================
