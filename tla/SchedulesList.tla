------------------------------ MODULE SchedulesList ------------------------------
(****************************************************************************)
(* The schedules tab of /schedules-new: a page of the list, cached by       *)
(* filter and page number.  Its two switches flip every cached row at once, *)
(* are taken back from a snapshot when the server refuses, and each call,   *)
(* settled, has the lists fetched again; the calls overlap with each other, *)
(* with fetches, retirements, copies, and other operators.  Beside it, the  *)
(* recurring-routes tab pages over rows it holds.                           *)
(*                                                                          *)
(* A filter is type, search text and "view as" together, the sub-filter     *)
(* (depots, overrides) narrows the page on the client.  Fetches that fail   *)
(* are left out.                                                            *)
(****************************************************************************)
EXTENDS Naturals, FiniteSets

CONSTANTS
  SlIds,     \* schedule ids, in the order of the list
  SlFilters, \* the server's filters: the sets of ids they let through
  SlDepot,   \* the ids the depot filter lets through
  PerPage,   \* PAGE_SIZE
  RouteRows, \* recurring routes and linehauls
  MaxSlCalls \* bound: calls of the page, and writes of others

ASSUME SlAssumption ==
  /\ SlIds \subseteq Nat \ {0} /\ IsFiniteSet(SlIds) /\ SlIds \in SlFilters
  /\ SlFilters \subseteq SUBSET SlIds /\ SlDepot \subseteq SlIds
  /\ PerPage \in Nat \ {0} /\ IsFiniteSet(RouteRows) /\ MaxSlCalls \in Nat

VARIABLES
  slRows,   \* server: the schedules not retired, with autoBook and isActive
  slCache,  \* schedulesV2Keys.list entries
  slStale,  \* the entries marked invalidated
  slAsked,  \* the entries whose fetch the server has not read
  slRead,   \* the answers on their way
  slCalls,  \* mutations not settled
  slLatest, \* autoBookPendingId, isActivePendingId: the id of the last call while it is pending
  slLook,   \* tab, type, q, page, depotFilter
  slMissed, \* history: what was read before a write that nothing follows up
  slUsed    \* calls and writes of others so far

slServer == slRows
slQueries == <<slCache, slStale, slAsked, slRead, slMissed>>
slMutations == <<slCalls, slLatest, slUsed>>
slVars == <<slServer, slQueries, slMutations, slLook>>

SlRow == [autoBook : BOOLEAN, isActive : BOOLEAN]

PageCount(total) == IF total = 0 THEN 1 ELSE (total + PerPage - 1) \div PerPage

SlPages == 0 .. PageCount(Cardinality(SlIds)) - 1

ListKeys == SlFilters \X SlPages

NoList == [rows |-> << >>, total |-> Cardinality(SlIds) + 1]

\* What GET /schedules answers for a key now.
ListedNow(key) ==
  LET found == key[1] \cap DOMAIN slRows
      Before(id) == Cardinality({i \in found : i < id})
      onPage == {id \in found : Before(id) \div PerPage = key[2]}
  IN  [rows |-> [id \in onPage |-> slRows[id]], total |-> Cardinality(found)]

NonePending == [auto |-> 0, active |-> 0]

SlInit ==
  /\ \E ids \in SUBSET SlIds :
       slRows = [id \in ids |-> [autoBook |-> FALSE, isActive |-> TRUE]]
  /\ slCache = [k \in ListKeys |-> NoList] /\ slStale = {}
  /\ slAsked = {<<SlIds, 0>>} /\ slRead = [k \in ListKeys |-> NoList]
  /\ slCalls = {} /\ slLatest = NonePending /\ slMissed = {} /\ slUsed = 0
  /\ slLook = [tab |-> "schedules", filter |-> SlIds, page |-> 0, depot |-> FALSE,
               routes |-> {}, routePage |-> 0]

-----------------------------------------------------------------------------
ShownKey == <<slLook.filter, slLook.page>>

ListFetched(k) == k \in slAsked \/ slRead[k] # NoList

\* pageRows: the sub-filter is over the page that was fetched.
SlShown ==
  IF slCache[ShownKey] = NoList THEN {}
  ELSE DOMAIN slCache[ShownKey].rows \cap (IF slLook.depot THEN SlDepot ELSE SlIds)

\* The tab asks for a key: an entry that is missing or invalidated is fetched, one that has
\* aged past staleTime as well; a fetch under way is shared.
ObserveKey(look) ==
  LET key == <<look.filter, look.page>> IN
  /\ slLook' = look
  /\ \/ slAsked' = slAsked \cup (IF ListFetched(key) THEN {} ELSE {key})
     \/ /\ ListFetched(key) \/ (slCache[key] # NoList /\ key \notin slStale)
        /\ slAsked' = slAsked
  /\ UNCHANGED <<slServer, slCache, slStale, slRead, slMissed, slMutations>>

\* The segment pills, the search box after its delay, View as: back to the first page, and the
\* depot filter goes.
SetFilter(f) ==
  /\ slLook.tab = "schedules" /\ f # slLook.filter
  /\ ObserveKey([slLook EXCEPT !.filter = f, !.page = 0, !.depot = FALSE])

SetDepotFilter(on) ==
  /\ slLook.tab = "schedules" /\ on # slLook.depot
  /\ ObserveKey([slLook EXCEPT !.depot = on, !.page = 0])

\* The pager is drawn under rows only, and counts from the page bounded by what was fetched.
ShowPage(p) ==
  /\ slLook.tab = "schedules" /\ SlShown # {}
  /\ p < PageCount(slCache[ShownKey].total) /\ p # slLook.page
  /\ ObserveKey([slLook EXCEPT !.page = p])

\* Another tab unmounts this one: its state goes, the cache and the calls stay.
LeaveTab ==
  /\ slLook.tab = "schedules"
  /\ slLook' = [tab |-> "routes", filter |-> SlIds, page |-> 0, depot |-> FALSE,
                routes |-> {}, routePage |-> 0]
  /\ slLatest' = NonePending
  /\ UNCHANGED <<slServer, slQueries, slCalls, slUsed>>

BackToTab ==
  /\ slLook.tab = "routes"
  /\ ObserveKey([slLook EXCEPT !.tab = "schedules", !.routes = {}, !.routePage = 0])

RefocusList ==
  /\ slLook.tab = "schedules" /\ ~ListFetched(ShownKey)
  /\ slAsked' = slAsked \cup {ShownKey}
  /\ UNCHANGED <<slServer, slCache, slStale, slRead, slMissed, slMutations, slLook>>

ReadList(k) ==
  /\ k \in slAsked
  /\ slAsked' = slAsked \ {k} /\ slRead' = [slRead EXCEPT ![k] = ListedNow(k)]
  /\ UNCHANGED <<slServer, slCache, slStale, slMissed, slMutations, slLook>>

AnswerList(k) ==
  /\ slRead[k] # NoList
  /\ slCache' = [slCache EXCEPT ![k] = slRead[k]] /\ slRead' = [slRead EXCEPT ![k] = NoList]
  /\ slStale' = slStale \ {k}
  /\ slMissed' = {m \in slMissed : m # <<"read", k>> /\ m # <<"cached", k>>}
                   \cup {<<"cached", k>> : m \in slMissed \cap {<<"read", k>>}}
  /\ UNCHANGED <<slServer, slAsked, slMutations, slLook>>

-----------------------------------------------------------------------------
\* What every write of others, and every write whose reply is lost, leaves out of date.
MissedByAll == {"read", "cached"} \X ListKeys

\* Mutant: the lists stay as they are.
NothingInvalidated == UNCHANGED <<slStale, slAsked, slRead, slMissed>>

\* invalidateQueries starts a fetch again only of a shown list that has data; a first fetch, or
\* one of a list that is not shown, runs on with what it has read.
RunsOn(k) ==
  slRead[k] # NoList /\ (slLook.tab = "schedules" /\ k = ShownKey => slCache[k] = NoList)

\* The shown list is fetched, afresh or still, and all are marked; the answer of a fetch that
\* runs on takes the mark off.
ListsInvalidated ==
  LET runOn == {k \in ListKeys : RunsOn(k)}
      active == IF slLook.tab = "schedules" THEN {ShownKey} \ runOn ELSE {}
  IN  /\ slStale' = ListKeys
      /\ slAsked' = slAsked \cup active
      /\ slRead' = [k \in ListKeys |-> IF k \in runOn THEN slRead[k] ELSE NoList]
      /\ slMissed' = slMissed \cup {<<"read", k>> : k \in runOn}

OneMore == slUsed < MaxSlCalls /\ slUsed' = slUsed + 1

Flipped(row, call) ==
  IF call.what = "auto" THEN [row EXCEPT !.autoBook = ~@] ELSE [row EXCEPT !.isActive = call.on]

\* onMutate of both switches: fetches are cancelled, the entries kept, the row flipped in all.
FlipEverywhere(call) ==
  /\ slAsked' = {} /\ slRead' = [k \in ListKeys |-> NoList]
  /\ slCache' = [k \in ListKeys |->
       IF slCache[k] = NoList THEN NoList
       ELSE [slCache[k] EXCEPT !.rows =
               [id \in DOMAIN @ |-> IF id = call.id THEN Flipped(@[id], call) ELSE @[id]]]]
  /\ slStale' = {k \in slStale : slCache[k] = NoList}
  /\ slCalls' = slCalls \cup {call}
  /\ UNCHANGED <<slServer, slMissed, slLook>>

\* A switch of the row of its latest call is off while that call is pending.
ToggleAutoBook(id) ==
  /\ slLook.tab = "schedules" /\ id \in SlShown /\ id # slLatest.auto
  /\ OneMore
  /\ slLatest' = [slLatest EXCEPT !.auto = id]
  /\ FlipEverywhere([n |-> slUsed, what |-> "auto", id |-> id, on |-> TRUE,
                     before |-> slCache, reply |-> "none"])

ToggleIsActive(id) ==
  /\ slLook.tab = "schedules" /\ id \in SlShown /\ id # slLatest.active
  /\ OneMore
  /\ slLatest' = [slLatest EXCEPT !.active = id]
  /\ LET on == ~slCache[ShownKey].rows[id].isActive IN
     FlipEverywhere([n |-> slUsed, what |-> "active", id |-> id, on |-> on,
                     before |-> slCache, reply |-> "none"])

\* RetireSchedule after its dialog, and Copy after its form; neither touches the cache before it is answered.
CallFor(what, id) ==
  /\ slLook.tab = "schedules" /\ id \in SlShown
  /\ OneMore
  /\ slCalls' = slCalls \cup
       {[n |-> slUsed, what |-> what, id |-> id, on |-> TRUE, before |-> NoList, reply |-> "none"]}
  /\ UNCHANGED <<slServer, slQueries, slLatest, slLook>>

RetireSchedule(id) == CallFor("retire", id)

CopySchedule(id) == CallFor("copy", id)

\* The rows after a call: ToggleAutoBookAsync turns over, ToggleIsActiveAsync sets.
RowsAfter(call) ==
  CASE call.what = "auto" -> {[slRows EXCEPT ![call.id].autoBook = ~@]}
    [] call.what = "active" -> {[slRows EXCEPT ![call.id].isActive = call.on]}
    [] call.what = "retire" -> {[id \in DOMAIN slRows \ {call.id} |-> slRows[id]]}
    [] call.what = "copy" ->
         {[id \in DOMAIN slRows \cup {new} |-> IF id = new THEN slRows[call.id] ELSE slRows[id]] :
            new \in SlIds \ DOMAIN slRows}

\* The server takes the call, or refuses it: the schedule is retired.
ServeCall(call) ==
  /\ call.reply = "none"
  /\ IF call.id \in DOMAIN slRows
       THEN slRows' \in RowsAfter(call) /\ slCalls' = (slCalls \ {call}) \cup {[call EXCEPT !.reply = "done"]}
       ELSE slRows' = slRows /\ slCalls' = (slCalls \ {call}) \cup {[call EXCEPT !.reply = "refused"]}
  /\ UNCHANGED <<slQueries, slLatest, slUsed, slLook>>

CallSettled(call) ==
  /\ slCalls' = slCalls \ {call}
  /\ slLatest' = [w \in DOMAIN slLatest |->
       IF call.what = w /\ \A c \in slCalls : c.what = w => c.n <= call.n THEN 0 ELSE slLatest[w]]
  /\ UNCHANGED <<slServer, slLook, slUsed>>

\* onSuccess, onSettled.
CallSucceeds(call) ==
  /\ call.reply = "done"
  /\ CallSettled(call) /\ ListsInvalidated /\ UNCHANGED slCache

\* onError: refused, or the reply is lost.  A switch puts its snapshot back and invalidates.
SwitchFails(call) ==
  /\ call.reply # "none" /\ call.what \in {"auto", "active"}
  /\ CallSettled(call) /\ ListsInvalidated
  /\ slCache' = [k \in ListKeys |-> IF call.before[k] = NoList THEN slCache[k] ELSE call.before[k]]

\* A retirement or a copy only says so.
CallFails(call) ==
  /\ call.reply # "none" /\ call.what \in {"retire", "copy"}
  /\ CallSettled(call)
  /\ slMissed' = IF call.reply = "done" THEN MissedByAll ELSE slMissed
  /\ UNCHANGED <<slCache, slStale, slAsked, slRead>>

OthersWrite ==
  /\ OneMore
  /\ \E id \in DOMAIN slRows, r \in SlRow :
       slRows' \in {[slRows EXCEPT ![id] = r], [i \in DOMAIN slRows \ {id} |-> slRows[i]]}
  /\ slMissed' = MissedByAll
  /\ UNCHANGED <<slCache, slStale, slAsked, slRead, slCalls, slLatest, slLook>>

-----------------------------------------------------------------------------
\* Recurring routes: rows of two queries, filtered and cut into pages here.
LoadRoutes(rows) ==
  /\ slLook.tab = "routes"
  /\ slLook' = [slLook EXCEPT !.routes = rows]
  /\ UNCHANGED <<slServer, slQueries, slMutations>>

BoundedPage == 
  LET last == PageCount(Cardinality(slLook.routes)) - 1
  IN  IF slLook.routePage < last THEN slLook.routePage ELSE last

ShowRoutePage(p) ==
  /\ slLook.tab = "routes" /\ slLook.routes # {} /\ p < PageCount(Cardinality(slLook.routes))
  /\ slLook' = [slLook EXCEPT !.routePage = p]
  /\ UNCHANGED <<slServer, slQueries, slMutations>>

SlNext ==
  \/ \E f \in SlFilters : SetFilter(f)
  \/ \E on \in BOOLEAN : SetDepotFilter(on)
  \/ \E p \in SlPages : ShowPage(p)
  \/ LeaveTab \/ BackToTab \/ RefocusList \/ OthersWrite
  \/ \E k \in ListKeys : ReadList(k) \/ AnswerList(k)
  \/ \E id \in SlIds : ToggleAutoBook(id) \/ ToggleIsActive(id) \/ RetireSchedule(id) \/ CopySchedule(id)
  \/ \E c \in slCalls : ServeCall(c) \/ CallSucceeds(c) \/ SwitchFails(c) \/ CallFails(c)
  \/ \E rows \in SUBSET RouteRows : LoadRoutes(rows)
  \/ \E p \in 0 .. Cardinality(RouteRows) : ShowRoutePage(p)

SlSpec == SlInit /\ [][SlNext]_slVars

-----------------------------------------------------------------------------
\* A pending id is that of a call under way; the routes tab never shows an empty page of a list that
\* has rows.
SlTypeOK ==
  /\ DOMAIN slRows \subseteq SlIds /\ \A id \in DOMAIN slRows : slRows[id] \in SlRow
  /\ slStale \subseteq ListKeys /\ slAsked \subseteq ListKeys /\ slMissed \subseteq MissedByAll
  /\ \A w \in DOMAIN slLatest : slLatest[w] # 0 => \E c \in slCalls : c.what = w /\ c.id = slLatest[w]
  /\ slLook.filter \in SlFilters /\ slLook.page \in SlPages
  /\ slLook.routes # {} => BoundedPage * PerPage < Cardinality(slLook.routes)

\* Once no call is pending, the page of the list is being fetched, or shows the rows the server
\* has: whatever was flipped ahead, taken back by a snapshot of another call's flips, or fetched
\* in between.  Out of this are what others wrote since, a lost reply, and the answer of a fetch that
\* had read when a call was settled and was not made again: of a list not shown then, or the first
\* of the list shown.
RestsOnServer ==
  slLook.tab = "schedules" /\ slCalls = {} =>
    \/ ListFetched(ShownKey)
    \/ <<"cached", ShownKey>> \in slMissed
    \/ ShownKey \notin slStale /\ slCache[ShownKey] = ListedNow(ShownKey)
===============================================================================
