----------------------------- MODULE ScheduledRoutes -----------------------------
(****************************************************************************)
(* The routes tab of /recurring-routes: the list of recurring routes, the   *)
(* editor of one, and its roster, over the Routes table.  The list is       *)
(* fetched again after every write, the editor keeps a form seeded when it  *)
(* mounts, and a write names only some of a route's fields: what the rest   *)
(* become is up to the server.                                              *)
(*                                                                          *)
(* zips stands for every field an update replaces as a whole (name, area,   *)
(* target, schedules, active of the form), polys for one it keeps when      *)
(* absent.  Requests are served one at a time; failing fetches are left out.*)
(****************************************************************************)
EXTENDS Naturals, FiniteSets

CONSTANTS
  SrIds,      \* route ids
  SrBookings, \* bookings that may be a route's final-mile master
  SrSlots,    \* days a roster entry is for
  MaxSrCalls  \* bound: requests of the page, and writes of others

ASSUME SrAssumption ==
  /\ SrIds \subseteq Nat \ {0} /\ IsFiniteSet(SrIds)
  /\ SrBookings \subseteq Nat \ {0} /\ IsFiniteSet(SrSlots) /\ MaxSrCalls \in Nat

VARIABLES
  srRoutes, \* server: Routes, with the roster, the master booking and whether jobs carry the route
  srPage,   \* routes, the ?edit= of the URL, rosterOpen
  srForm,   \* the editor, NoForm while it is closed
  srCalls,  \* requests not answered
  srLoads,  \* fetches of the list or of a roster not answered
  srUsed    \* requests and writes of others so far

srVars == <<srRoutes, srPage, srForm, srCalls, srLoads, srUsed>>

Booked == SrBookings \cup {0}

RouteRow == [active : BOOLEAN, final : BOOLEAN, depot : BOOLEAN, point : BOOLEAN,
             zips : BOOLEAN, polys : BOOLEAN, master : Booked, jobs : BOOLEAN,
             roster : SUBSET [n : 0 .. MaxSrCalls, slot : SrSlots]]

BlankRoute == [active |-> TRUE, final |-> FALSE, depot |-> FALSE, point |-> FALSE,
               zips |-> FALSE, polys |-> FALSE, master |-> 0, jobs |-> FALSE, roster |-> {}]

\* UpsertRouteRequest: what may be absent is a set, empty when it is.
RouteBody == [active : BOOLEAN, final : BOOLEAN, depot : BOOLEAN, point : BOOLEAN,
              zips : BOOLEAN, polys : {{}, {TRUE}, {FALSE}}, master : {{}} \cup {{b} : b \in Booked}]

NoForm == [target |-> 0, snap |-> BlankRoute, final |-> FALSE, kind |-> "none", depot |-> FALSE,
           point |-> FALSE, zips |-> FALSE, polys |-> FALSE, master |-> 0, saver |-> MaxSrCalls,
           geocoding |-> FALSE, asks |-> FALSE]

\* The initial values of RouteEditor's state, for a route or, id 0, a new one.
FormOf(id, row) ==
  [target |-> id, snap |-> row, final |-> row.final,
   kind |-> IF row.depot \/ ~row.point THEN "depot" ELSE "address",
   depot |-> row.depot, point |-> row.point, zips |-> row.zips, polys |-> row.polys,
   master |-> row.master, saver |-> MaxSrCalls, geocoding |-> FALSE, asks |-> FALSE]

Fetch(what, id, then) ==
  [what |-> what, id |-> id, by |-> srUsed, read |-> FALSE, rows |-> << >>, then |-> then]

OpenNothing == [id |-> 0, row |-> BlankRoute, more |-> FALSE]

SrStored == {BlankRoute, [BlankRoute EXCEPT !.zips = TRUE],
             [BlankRoute EXCEPT !.final = TRUE, !.point = TRUE, !.polys = TRUE]}
              \cup {[BlankRoute EXCEPT !.final = TRUE, !.depot = TRUE, !.master = b] : b \in SrBookings}

SrInit ==
  /\ \E id \in SrIds, row \in SrStored : srRoutes = [i \in {id} |-> row]
  /\ \E edit \in SrIds \cup {0} : srPage = [rows |-> << >>, edit |-> edit, roster |-> 0, entries |-> {}]
  /\ srForm = NoForm /\ srCalls = {} /\ srUsed = 0
  /\ srLoads = {[what |-> "list", id |-> 0, by |-> 0, read |-> FALSE, rows |-> << >>, then |-> OpenNothing]}

-----------------------------------------------------------------------------
\* setEditing: an editor that is open stays mounted, form and snapshot as they were, and only
\* the route it saves to changes.
SetEditing(id, row) ==
  srForm' = IF srForm = NoForm THEN FormOf(id, row) ELSE [srForm EXCEPT !.target = id]

ReadRoutes(f) ==
  /\ f \in srLoads /\ ~f.read
  /\ srLoads' = (srLoads \ {f}) \cup
       {[f EXCEPT !.read = TRUE,
           !.rows = IF f.what = "list" THEN srRoutes
                    ELSE [i \in DOMAIN srRoutes \cap {f.id} |-> srRoutes[i]]]}
  /\ UNCHANGED <<srRoutes, srPage, srForm, srCalls, srUsed>>

\* load: the rows, then the clone that waited for them, or the ?edit= route if it is among them.
AnswerRoutes(f) ==
  /\ f \in srLoads /\ f.read /\ f.what = "list"
  /\ srLoads' = srLoads \ {f}
  /\ LET linked == srPage.edit # 0 /\ srPage.edit \in DOMAIN f.rows IN
     /\ srPage' = [srPage EXCEPT !.rows = f.rows, !.edit = IF linked THEN 0 ELSE @]
     /\ \/ f.then.id # 0 /\ SetEditing(f.then.id, f.then.row)
        \/ f.then.id = 0 /\ linked /\ SetEditing(srPage.edit, f.rows[srPage.edit])
        \/ f.then.id = 0 /\ ~linked /\ UNCHANGED srForm
  /\ UNCHANGED <<srRoutes, srCalls, srUsed>>

\* The roster modal's load, for the modal that asked; after a write of it the list is next.
AnswerRoster(f) ==
  /\ f \in srLoads /\ f.read /\ f.what = "roster"
  /\ srPage' = [srPage EXCEPT !.entries =
       IF srPage.roster = f.id /\ f.id \in DOMAIN f.rows THEN f.rows[f.id].roster ELSE @]
  /\ srLoads' = (srLoads \ {f}) \cup (IF f.then.more THEN {Fetch("list", 0, OpenNothing)} ELSE {})
  /\ UNCHANGED <<srRoutes, srForm, srCalls, srUsed>>

-----------------------------------------------------------------------------
Uncovered == srForm = NoForm /\ srPage.roster = 0

\* A click on a row, Edit, or + Add Route.
OpenEditor(id) ==
  /\ Uncovered
  /\ id = 0 \/ id \in DOMAIN srPage.rows
  /\ SetEditing(id, IF id = 0 THEN BlankRoute ELSE srPage.rows[id])
  /\ UNCHANGED <<srRoutes, srPage, srCalls, srLoads, srUsed>>

OpenRoster(id) ==
  /\ Uncovered /\ id \in DOMAIN srPage.rows
  /\ srPage' = [srPage EXCEPT !.roster = id, !.entries = {}]
  /\ srLoads' = srLoads \cup {Fetch("roster", id, OpenNothing)}
  /\ UNCHANGED <<srRoutes, srForm, srCalls, srUsed>>

CloseRoster ==
  /\ srPage.roster # 0 /\ srPage' = [srPage EXCEPT !.roster = 0, !.entries = {}]
  /\ UNCHANGED <<srRoutes, srForm, srCalls, srLoads, srUsed>>

RouteRequest(what, id, body, entry) ==
  /\ srUsed < MaxSrCalls /\ srUsed' = srUsed + 1
  /\ srCalls' = srCalls \cup {[n |-> srUsed, what |-> what, id |-> id, body |-> body,
                              entry |-> entry, phase |-> "sent", got |-> OpenNothing]}

NoEntry == [n |-> 0, slot |-> CHOOSE s \in SrSlots : TRUE]

AbsentBody == [active |-> TRUE, final |-> FALSE, depot |-> FALSE, point |-> FALSE,
               zips |-> FALSE, polys |-> {}, master |-> {}]

RequestOnRow(what, id, body) ==
  /\ Uncovered /\ id \in DOMAIN srPage.rows
  /\ RouteRequest(what, id, body, NoEntry)
  /\ UNCHANGED <<srRoutes, srPage, srForm, srLoads>>

\* doToggleActive sends neither direction nor origin, polygons or master.
TogglePause(id) ==
  RequestOnRow("save", id, [AbsentBody EXCEPT !.active = ~srPage.rows[id].active,
                                              !.zips = srPage.rows[id].zips])

CopyRoute(id) == RequestOnRow("copy", id, AbsentBody)

Deactivate(id) == RequestOnRow("deactivate", id, AbsentBody)

\* mayOfferHardDelete, by the listed row, and its dialog.
MayOfferHardDelete(row) ==
  ~row.zips /\ ~row.polys /\ ~row.jobs /\ row.master = 0 /\ row.roster = {}

HardDelete(id) ==
  RequestOnRow("hard", id, AbsentBody) /\ MayOfferHardDelete(srPage.rows[id])

AddRoster(slot) ==
  /\ srPage.roster # 0
  /\ \A c \in srCalls : c.what # "roster"
  /\ RouteRequest("roster", srPage.roster, AbsentBody, [n |-> srUsed, slot |-> slot])
  /\ UNCHANGED <<srRoutes, srPage, srForm, srLoads>>

RemoveRoster(entry) ==
  /\ srPage.roster # 0 /\ entry \in srPage.entries
  /\ RouteRequest("unroster", srPage.roster, AbsentBody, entry)
  /\ UNCHANGED <<srRoutes, srPage, srForm, srLoads>>

-----------------------------------------------------------------------------
Editing == srForm # NoForm /\ ~srForm.asks

EditForm(changed) ==
  /\ Editing /\ srForm' = changed
  /\ UNCHANGED <<srRoutes, srPage, srCalls, srLoads, srUsed>>

\* The fields, schedules and postcodes, by search, by the map or by their chips.
EditZips == EditForm([srForm EXCEPT !.zips = ~@])

EditPolygons == EditForm([srForm EXCEPT !.polys = ~@])

SetDirection(final) == EditForm([srForm EXCEPT !.final = final])

SetOriginKind(k) == srForm.final /\ EditForm([srForm EXCEPT !.kind = k])

PickOriginDepot(some) == srForm.final /\ srForm.kind = "depot" /\ EditForm([srForm EXCEPT !.depot = some])

\* Locate, or a suggestion that has coordinates already; a suggestion without takes them away.
Suggest(located) ==
  srForm.final /\ srForm.kind = "address" /\ EditForm([srForm EXCEPT !.point = located])

Locate ==
  /\ srForm.final /\ srForm.kind = "address" /\ ~srForm.geocoding
  /\ EditForm([srForm EXCEPT !.geocoding = TRUE])

Located(found) ==
  /\ srForm.geocoding
  /\ srForm' = [srForm EXCEPT !.geocoding = FALSE, !.point = @ \/ found]
  /\ UNCHANGED <<srRoutes, srPage, srCalls, srLoads, srUsed>>

\* The master is picked from a search, which needs it to be cleared first.
PickMaster(b) ==
  /\ srForm.final /\ (b = 0) # (srForm.master = 0)
  /\ EditForm([srForm EXCEPT !.master = b])

\* isDirty leaves the master booking out.
IsDirty(form) ==
  \/ form.zips # form.snap.zips \/ form.polys # form.snap.polys \/ form.final # form.snap.final
  \/ /\ form.final
     /\ \/ (form.kind = "depot" /\ form.depot) # form.snap.depot
        \/ form.kind = "address" /\ form.point # form.snap.point

CloseAttempt ==
  /\ Editing
  /\ srForm' = IF IsDirty(srForm) THEN [srForm EXCEPT !.asks = TRUE] ELSE NoForm
  /\ UNCHANGED <<srRoutes, srPage, srCalls, srLoads, srUsed>>

\* Keep editing, or Discard changes.
CloseAnswered(discard) ==
  /\ srForm.asks
  /\ srForm' = IF discard THEN NoForm ELSE [srForm EXCEPT !.asks = FALSE]
  /\ UNCHANGED <<srRoutes, srPage, srCalls, srLoads, srUsed>>

HasOrigin(form) == IF form.kind = "depot" THEN form.depot ELSE form.point

BodyOf(form) ==
  [active |-> form.snap.active, final |-> form.final,
   depot |-> form.final /\ form.kind = "depot" /\ form.depot,
   point |-> form.final /\ form.kind = "address" /\ form.point,
   zips |-> form.zips, polys |-> {form.polys},
   master |-> IF form.final THEN {form.master} ELSE {}]

\* commit, from the footer or from the dialog, which closes once it is through.
Commit ==
  /\ srForm # NoForm /\ srForm.saver = MaxSrCalls
  /\ srForm.final => HasOrigin(srForm)
  /\ RouteRequest("save", srForm.target, BodyOf(srForm), NoEntry)
  /\ srForm' = [srForm EXCEPT !.saver = srUsed]
  /\ UNCHANGED <<srRoutes, srPage, srLoads>>

-----------------------------------------------------------------------------
\* Mutant: a route turned to first mile keeps its origin.
OriginLeft(row, body) ==
  [row EXCEPT !.final = body.final, !.depot = IF body.final THEN body.depot ELSE @,
              !.point = IF body.final THEN body.point ELSE @]

\* ApplyDirection: a first-mile route has no origin.
ApplyDirection(row, body) ==
  [row EXCEPT !.final = body.final, !.depot = body.final /\ body.depot,
              !.point = body.final /\ body.point]

RouteUpserted(row, body) ==
  [ApplyDirection(row, body) EXCEPT
     !.active = body.active, !.zips = body.zips,
     !.polys = IF body.polys = {} THEN @ ELSE CHOOSE p \in body.polys : TRUE]

\* ApplyMasterBookingAsync: an absent master is left alone, another route loses a booking that
\* this one takes.
MasterApplied(routes, id, body) ==
  IF body.master = {} THEN routes
  ELSE [i \in DOMAIN routes |->
          [routes[i] EXCEPT !.master = IF i = id THEN CHOOSE b \in body.master : TRUE
                                       ELSE IF @ \in body.master THEN 0 ELSE @]]

RouteAnswered(c, reply, got) == srCalls' = (srCalls \ {c}) \cup {[c EXCEPT !.phase = reply, !.got = got]}

Became(c, routes) ==
  /\ srRoutes' = routes
  /\ RouteAnswered(c, "done", OpenNothing)

\* Every request that names a route answers NotFound when it is gone.
ServeMissing(c) ==
  /\ c.id # 0 /\ c.id \notin DOMAIN srRoutes /\ RouteAnswered(c, "refused", OpenNothing)
  /\ UNCHANGED srRoutes

ServeUpsert(c) ==
  /\ c.what = "save"
  /\ \E id \in IF c.id = 0 THEN SrIds \ DOMAIN srRoutes ELSE {c.id} :
       LET row == IF c.id = 0 THEN BlankRoute ELSE srRoutes[id]
           with == [i \in DOMAIN srRoutes \cup {id} |->
                      IF i = id THEN RouteUpserted(row, c.body) ELSE srRoutes[i]]
       IN  Became(c, MasterApplied(with, id, c.body))

\* CreateAsync saves the route, then looks the master up: a booking that has become a linehaul's
\* master meanwhile refuses the request and leaves the route.
ServeCreateHalfway(c) ==
  /\ c.what = "save" /\ c.id = 0 /\ c.body.master \cap SrBookings # {}
  /\ \E id \in SrIds \ DOMAIN srRoutes :
       srRoutes' = [i \in DOMAIN srRoutes \cup {id} |->
                      IF i = id THEN RouteUpserted(BlankRoute, c.body) ELSE srRoutes[i]]
  /\ RouteAnswered(c, "refused", OpenNothing)

\* CopyAsync takes direction and origin from the source, its postcodes, not its polygons.
ServeCopy(c) ==
  /\ c.what = "copy"
  /\ \E id \in SrIds \ DOMAIN srRoutes :
       LET source == srRoutes[c.id]
           clone == [BlankRoute EXCEPT !.final = source.final, !.depot = source.depot,
                                       !.point = source.point, !.zips = source.zips]
       IN  /\ srRoutes' = [i \in DOMAIN srRoutes \cup {id} |->
                             IF i = id THEN clone ELSE srRoutes[i]]
           /\ RouteAnswered(c, "done", [OpenNothing EXCEPT !.id = id, !.row = clone])

ServeDeactivate(c) ==
  c.what = "deactivate" /\ Became(c, [srRoutes EXCEPT ![c.id].active = FALSE])

\* HardDeleteAsync counts the references, then deletes; a foreign key may refuse what came between.
ServeCount(c) ==
  /\ c.what = "hard" /\ c.phase = "sent"
  /\ RouteAnswered(c, IF MayOfferHardDelete(srRoutes[c.id]) THEN "counted" ELSE "refused", OpenNothing)
  /\ UNCHANGED srRoutes

ServeHardDelete(c) ==
  /\ c.what = "hard" /\ c.phase = "counted"
  /\ \/ Became(c, [i \in DOMAIN srRoutes \ {c.id} |-> srRoutes[i]])
     \/ /\ ~MayOfferHardDelete(srRoutes[c.id])
        /\ RouteAnswered(c, "refused", OpenNothing) /\ UNCHANGED srRoutes

\* AddRosterAsync takes the active entry of the same day out.
ServeRoster(c) ==
  /\ c.what = "roster"
  /\ Became(c, [srRoutes EXCEPT ![c.id].roster = {e \in @ : e.slot # c.entry.slot} \cup {c.entry}])

ServeUnroster(c) ==
  c.what = "unroster" /\ Became(c, [srRoutes EXCEPT ![c.id].roster = @ \ {c.entry}])

Serve(c) ==
  /\ c \in srCalls /\ c.phase \in {"sent", "counted"}
  /\ \/ ServeMissing(c)
     \/ ServeCreateHalfway(c)
     \/ /\ c.id = 0 \/ c.id \in DOMAIN srRoutes
        /\ \/ ServeUpsert(c) \/ ServeCopy(c) \/ ServeDeactivate(c) \/ ServeCount(c)
           \/ ServeHardDelete(c) \/ ServeRoster(c) \/ ServeUnroster(c)
  /\ UNCHANGED <<srPage, srForm, srLoads, srUsed>>

ListAgain(then) == srLoads' = srLoads \cup {Fetch("list", 0, then)}

\* onSaved closes whichever editor is open, and a refused save leaves the one it came from; the
\* list is fetched again, after a refusal only by doHardDelete.
SaveAnswered(c) ==
  IF c.phase = "done" THEN srForm' = NoForm /\ ListAgain(OpenNothing)
  ELSE /\ srForm' = IF srForm.saver = c.n THEN [srForm EXCEPT !.saver = MaxSrCalls, !.asks = FALSE]
                                          ELSE srForm
       /\ UNCHANGED srLoads

\* doAdd and doRemove fetch the roster and, after it, the list; the handlers of a row the list, and
\* doCopy opens the clone after it.
RowAnswered(c) ==
  /\ UNCHANGED srForm
  /\ CASE c.what \in {"roster", "unroster"} /\ c.phase = "done" ->
            srLoads' = srLoads \cup {Fetch("roster", c.id, [OpenNothing EXCEPT !.more = TRUE])}
       [] c.what = "hard" \/ (c.what \in {"save", "copy", "deactivate"} /\ c.phase = "done") ->
            ListAgain(c.got)
       [] OTHER -> UNCHANGED srLoads

\* A pause is an update too, but of no editor.
OfEditor(c) == c.what = "save" /\ (c.id = 0 \/ c.body.polys # {})

AnswerRequest(c) ==
  /\ c \in srCalls /\ c.phase \in {"done", "refused"}
  /\ srCalls' = srCalls \ {c}
  /\ IF OfEditor(c) THEN SaveAnswered(c)
     ELSE RowAnswered(c)
  /\ UNCHANGED <<srRoutes, srPage, srUsed>>

\* Prebook stamps a route on a job, or another client edits it.
OthersStamp(id) ==
  /\ srUsed < MaxSrCalls /\ srUsed' = srUsed + 1
  /\ id \in DOMAIN srRoutes
  /\ \/ ~srRoutes[id].jobs /\ srRoutes' = [srRoutes EXCEPT ![id].jobs = TRUE]
     \/ srRoutes' = [srRoutes EXCEPT ![id].zips = ~@]
  /\ UNCHANGED <<srPage, srForm, srCalls, srLoads>>

EditorNext ==
  \/ EditZips \/ EditPolygons \/ Locate \/ CloseAttempt \/ Commit
  \/ \E b \in BOOLEAN : SetDirection(b) \/ PickOriginDepot(b) \/ Suggest(b) \/ Located(b) \/ CloseAnswered(b)
  \/ \E k \in {"depot", "address"} : SetOriginKind(k)
  \/ \E b \in Booked : PickMaster(b)

SrNext ==
  \/ EditorNext
  \/ \E f \in srLoads : ReadRoutes(f) \/ AnswerRoutes(f) \/ AnswerRoster(f)
  \/ \E c \in srCalls : Serve(c) \/ AnswerRequest(c)
  \/ \E id \in SrIds \cup {0} : OpenEditor(id)
  \/ \E id \in SrIds : \/ OpenRoster(id) \/ TogglePause(id) \/ CopyRoute(id) \/ Deactivate(id)
                       \/ HardDelete(id) \/ OthersStamp(id)
  \/ CloseRoster \/ (\E s \in SrSlots : AddRoster(s)) \/ (\E e \in srPage.entries : RemoveRoster(e))

SrSpec == SrInit /\ [][SrNext]_srVars

-----------------------------------------------------------------------------
\* Type invariant; no day of a roster has two active entries, as its unique index says.
SrTypeOK ==
  /\ DOMAIN srRoutes \subseteq SrIds /\ \A id \in DOMAIN srRoutes : srRoutes[id] \in RouteRow
  /\ srPage.edit \in SrIds \cup {0} /\ srPage.roster \in SrIds \cup {0}
  /\ srForm.target \in SrIds \cup {0} /\ srForm.kind \in {"none", "depot", "address"}
  /\ \A c \in srCalls : c.body \in RouteBody /\ c.phase \in {"sent", "counted", "done", "refused"}
  /\ \A id \in DOMAIN srRoutes : \A e, f \in srRoutes[id].roster : e.slot = f.slot => e = f

\* What CK_Routes_Direction and ApplyDirection are for: whatever is created, copied, paused,
\* edited from a stale list or saved to a route the editor was not opened on, a stored
\* final-mile route has an origin and a first-mile one has none left to inherit later.
OriginFitsDirection ==
  \A id \in DOMAIN srRoutes : srRoutes[id].final = (srRoutes[id].depot \/ srRoutes[id].point)
=============================================================================
