------------------------------- MODULE TenantCache -------------------------------
(***************************************************************************)
(* TenantScopedCache over one key of one tenant: the all-live schedule     *)
(* list of ScheduleService.  Requests read the list or save a schedule;    *)
(* a save commits and then patches its row into the cached list, or drops  *)
(* the list.  A list is the version of each schedule it was built from.    *)
(***************************************************************************)
EXTENDS Integers, Sequences

CONSTANTS
  Requests,   \* request threads; each serves one call after the other
  Listed,     \* schedules of the tenant
  MaxVersion  \* bound: saves of one schedule

ASSUME MaxVersionAssumption == MaxVersion \in Nat

\* What a request holds and the entry when nothing is cached; no list is below it.
Empty == [s \in Listed |-> -1]

VARIABLES
  stored,    \* the database: version of each schedule
  entry,     \* the IMemoryCache entry
  gate,      \* the key's SemaphoreSlim: holder first, then those waiting, in order
  stage,     \* where each request is
  held,      \* the list a request has in hand
  about,     \* the save a request makes: its schedule and the version written
  patched,   \* history: versions a patch reported as written into the list
  confirmed  \* history: versions whose save was answered

cacheVars == <<stored, entry, gate, stage, held, about, patched, confirmed>>

Stages == {"idle", "fillWait", "load", "store", "refresh", "patchWait", "patch", "patchStore", "drop"}

\* Inside the gate, and with the ones that wait for it.
Inside == {"load", "store", "patch", "patchStore"}

Gated == Inside \cup {"fillWait", "patchWait"}

Lists == [Listed -> -1..MaxVersion]

CacheInit ==
  /\ stored = [s \in Listed |-> 0]
  /\ entry = Empty
  /\ gate = <<>>
  /\ stage = [p \in Requests |-> "idle"]
  /\ held = [p \in Requests |-> Empty]
  /\ about \in [Requests -> Listed \X {0}]
  /\ patched = [s \in Listed |-> 0]
  /\ confirmed = [s \in Listed |-> 0]

Goes(p, to) == stage' = [stage EXCEPT ![p] = to]

\* gate.WaitAsync.
Wait(p, to) == Goes(p, to) /\ gate' = Append(gate, p)

\* Mutant of Holds: the semaphore lets everyone in.
HoldsAny(p) == \E i \in DOMAIN gate : gate[i] = p

Holds(p) == gate # <<>> /\ Head(gate) = p

\* Mutant of Leave: an exception leaves without the finally.
LeaveLocked(p, to) == Goes(p, to) /\ UNCHANGED gate

\* finally: gate.Release, which hands the gate to the next in the queue.
Leave(p, to) == Goes(p, to) /\ gate' = Tail(gate)

Holding(p, list) == held' = [held EXCEPT ![p] = list]

Row(p) == about[p][1]

Answered(p) ==
  confirmed' = [confirmed EXCEPT ![Row(p)] = IF about[p][2] > @ THEN about[p][2] ELSE @]

-------------------------------------------------------------------------------
(* GetOrSetAsync                                                           *)

\* The first look: a hit answers, a miss queues at the gate.
Read(p) ==
  /\ stage[p] = "idle"
  /\ IF entry # Empty THEN UNCHANGED <<stage, gate>> ELSE Wait(p, "fillWait")
  /\ UNCHANGED <<stored, entry, held, about, patched, confirmed>>

\* The look inside the gate.
Recheck(p) ==
  /\ stage[p] = "fillWait" /\ Holds(p)
  /\ IF entry # Empty THEN Leave(p, "idle") ELSE Goes(p, "load") /\ UNCHANGED gate
  /\ UNCHANGED <<stored, entry, held, about, patched, confirmed>>

\* ListSummaryUncachedAsync over every live header.
Load(p) ==
  /\ stage[p] = "load"
  /\ Holding(p, stored)
  /\ Goes(p, "store")
  /\ UNCHANGED <<stored, entry, gate, about, patched, confirmed>>

\* The factory throws: the reader gets the error.
LoadFails(p) ==
  /\ stage[p] = "load"
  /\ Leave(p, "idle")
  /\ UNCHANGED <<stored, entry, held, about, patched, confirmed>>

Store(p) ==
  /\ stage[p] = "store"
  /\ entry' = held[p]
  /\ Leave(p, "idle")
  /\ Holding(p, Empty)
  /\ UNCHANGED <<stored, about, patched, confirmed>>

-------------------------------------------------------------------------------
(* Saves                                                                   *)

\* A save commits.  Then RefreshListSummaryEntryAsync, or InvalidateListSummaryCache, by
\* the kind of save.
Save(p, s, next) ==
  /\ stage[p] = "idle"
  /\ stored[s] < MaxVersion
  /\ stored' = [stored EXCEPT ![s] = @ + 1]
  /\ about' = [about EXCEPT ![p] = <<s, stored[s] + 1>>]
  /\ Goes(p, next)
  /\ UNCHANGED <<entry, gate, held, patched, confirmed>>

\* TryPatchAsync, before the gate.
Refresh(p) ==
  /\ stage[p] = "refresh"
  /\ IF entry = Empty THEN Goes(p, "drop") /\ UNCHANGED gate ELSE Wait(p, "patchWait")
  /\ UNCHANGED <<stored, entry, held, about, patched, confirmed>>

\* TryPatchAsync, inside the gate: latest.
PatchRead(p) ==
  /\ stage[p] = "patchWait" /\ Holds(p)
  /\ IF entry = Empty
     THEN Leave(p, "drop") /\ UNCHANGED held
     ELSE Goes(p, "patch") /\ Holding(p, entry) /\ UNCHANGED gate
  /\ UNCHANGED <<stored, entry, about, patched, confirmed>>

\* patch(latest): the schedule's row is computed afresh.
Patch(p) ==
  /\ stage[p] = "patch"
  /\ Holding(p, [held[p] EXCEPT ![Row(p)] = stored[Row(p)]])
  /\ Goes(p, "patchStore")
  /\ UNCHANGED <<stored, entry, gate, about, patched, confirmed>>

\* The recomputation throws: the list is dropped instead.
PatchFails(p) ==
  /\ stage[p] = "patch"
  /\ Leave(p, "drop")
  /\ Holding(p, Empty)
  /\ UNCHANGED <<stored, entry, about, patched, confirmed>>

PatchStore(p) ==
  /\ stage[p] = "patchStore"
  /\ entry' = held[p]
  /\ patched' = [patched EXCEPT ![Row(p)] = held[p][Row(p)]]
  /\ Answered(p)
  /\ Leave(p, "idle")
  /\ Holding(p, Empty)
  /\ UNCHANGED <<stored, about>>

\* InvalidateListSummaryCache; the save is answered.
Drop(p) ==
  /\ stage[p] = "drop"
  /\ entry' = Empty
  /\ Answered(p)
  /\ Goes(p, "idle")
  /\ UNCHANGED <<stored, gate, held, about, patched>>

\* Mutant of Expire: a sliding expiry, with readers that always come back in time.
ExpireUnread == FALSE /\ UNCHANGED cacheVars

\* The 30 s of the entry, counted from when it was stored (sliding: false), are over.
Expire ==
  /\ entry # Empty
  /\ entry' = Empty
  /\ UNCHANGED <<stored, gate, stage, held, about, patched, confirmed>>

-------------------------------------------------------------------------------
\* A request under way runs on by itself.
RunsOn(p) ==
  \/ Recheck(p) \/ Load(p) \/ LoadFails(p) \/ Store(p)
  \/ Refresh(p) \/ PatchRead(p) \/ Patch(p) \/ PatchFails(p) \/ PatchStore(p) \/ Drop(p)

CacheNext ==
  \/ \E p \in Requests : Read(p) \/ RunsOn(p)
  \/ \E p \in Requests, s \in Listed, next \in {"refresh", "drop"} : Save(p, s, next)
  \/ Expire

CacheFairness ==
  /\ \A p \in Requests : WF_cacheVars(RunsOn(p))
  /\ WF_cacheVars(Expire)

CacheSpec == CacheInit /\ [][CacheNext]_cacheVars /\ CacheFairness

-------------------------------------------------------------------------------
(* Properties                                                              *)

\* The gate's queue holds exactly the requests that wait for it or are inside, once each.
CacheTypeOK ==
  /\ stored \in [Listed -> 0..MaxVersion]
  /\ entry \in Lists
  /\ gate \in Seq(Requests)
  /\ \A i, j \in DOMAIN gate : gate[i] = gate[j] => i = j
  /\ \A p \in Requests : stage[p] \in Gated <=> \E i \in DOMAIN gate : gate[i] = p
  /\ stage \in [Requests -> Stages]
  /\ held \in [Requests -> Lists]
  /\ about \in [Requests -> Listed \X (0..MaxVersion)]
  /\ patched \in [Listed -> 0..MaxVersion]
  /\ confirmed \in [Listed -> 0..MaxVersion]

\* A row that a patch wrote into the cached list is never lost from it: neither to a
\* patch of another row, nor to a rebuild that was under way ("taking the lock is what
\* stops a patch racing a concurrent fill and being lost").
PatchIsKept == entry # Empty => \A s \in Listed : entry[s] >= patched[s]

\* One rebuild or patch at a time: a burst of misses computes the list once.
OneAtATime ==
  \A p, q \in Requests :
    stage[p] \in Inside /\ stage[q] \in Inside => p = q

\* The operator sees the own save on the next read: the list handed out is at least as
\* new as every save that was answered.
OwnSaveShows == entry # Empty => \A s \in Listed : entry[s] >= confirmed[s]

\* Every call is answered, whoever else fills, patches or fails.
CallsAreAnswered == \A p \in Requests : stage[p] # "idle" ~> stage[p] = "idle"

\* Once saves stop, the list settles on what is stored.
ListSettles == <>[](entry # Empty => entry = stored)

===============================================================================
