-------------------------------- MODULE MCPages --------------------------------
(* Pages on small instances.                                                *)
EXTENDS Pages, TLC

RowSymmetry == Permutations(Rows)

MCRuns == <<1, 2, 3>>

\* The third run is of the other date.
MCRunDay == [r \in {1, 2, 3} |-> IF r = 3 THEN 2 ELSE 1]

\* Job a is of a recurring route and has no bulk row.
MCBulkIdOf == [j \in RvJobs |-> IF j = "a" THEN 0 ELSE 7]

MCLegOf == [j \in RvJobs |-> IF j = "a" THEN "delivery" ELSE "LHP"]

Used(b) == IF b THEN 1 ELSE 0

\* Bounds of the viewer: one detour at a time (another date, view or filter, a link, a drag, a
\* bulk action), on two runs of the date; one job that others moved or changed.
ViewerBounded ==
  /\ Used(page.day = 2) + Used(page.view # "Combined") + Used(page.cancelled)
       + Used(page.link # {} \/ page.linked) + Used(drag # NoDrag) + Used(loops[1] # NoLoop) <= 1
  /\ page.view # "Outbound"
  /\ Cardinality({j \in RvJobs : status[j] # "N" \/ onRun[j] # 1}) <= 1
  /\ (\E j \in RvJobs : status[j] = "D") => loops[1] # NoLoop
  /\ Cardinality(page.selRuns) <= 1
  /\ \A j \in RvJobs : onRun[j] \in {1, 2}
  /\ (\E j \in RvJobs : status[j] # "N" \/ onRun[j] # 1) =>
       page.day = 1 /\ page.view = "Combined" /\ ~page.cancelled
  /\ drag # NoDrag \/ loops[1] # NoLoop => page.menu = "none" /\ page.selJobs # {}
  /\ page.menu # "none" => page.anchor \in page.selRuns \cup {Nowhere}

\* Bounds of the polygon page: the draft is drawn beside one polygon that is not edited, and while
\* it waits to be saved nothing else is under way; two calls at once are two creates.
PolygonsBounded ==
  /\ draft # NoShape =>
       /\ Cardinality({p \in Polygons : listed[p] # NoShape}) <= 1
       /\ \A p \in Polygons : listed[p] = NoShape \/ listed[p].by = <<>>
  /\ asking \/ Cardinality(calls) > 1 => \A c \in calls : c.kind = "create"
  /\ Cardinality({p \in Polygons : listed[p] # NoShape /\ listed[p].by # <<>>}) <= 1

MCIlJobs == {<<"bulk", 1>>, <<"live", 1>>, <<"prebook", 1>>}

\* Bounds of the import list: one load at a time, and nobody else's write while rows are deleted.
ImportsBounded ==
  /\ Cardinality(ilLoads) <= 1
  /\ ilBulk # NoBulk \/ ilOnes # {} => ilCount = 0

MCSiRows == <<{1, 2}, {3}>>

MCSiSuburb == <<1, 2, 2>>

MCSiAddress == <<1, 1, 2>>

\* Bounds of the staff import: one address is flagged or placed; replies to a wizard that was closed find it
\* as it was opened.
StaffBounded ==
  /\ Len(siWiz.form.geo) <= 2 /\ Cardinality(siCalls) <= 1
  /\ siWiz.form.file = 2 => siWiz.form.geo = << >> \/ siCount = 2
  /\ ~siOpen => siWiz.eff = SiIdle
  /\ siCount > 0 /\ siWiz.form.step = "upload" => siWiz.form.geo = << >> /\ siWiz.form.flags = << >>

MCScFilters == {ScJobs, {1, 3}}

MCSearches == {ScJobs, {2}}

ListedScan == [day |-> 1, scanned |-> FALSE]

\* Bounds of the scan manager: one detour at a time, two keys looked at, one job scanned,
\* removed or moved to the other date; only children are scanned; that is seen in the bulk grid.
ScansBounded ==
  /\ Used(grid.day = 2) + Used(grid.filter # ScJobs) + Used(grid.typed # ScJobs \/ grid.search # ScJobs)
       + Used(grid.expanded # {}) + Used(grid.sel # 0) + Used(grid.descending)
       + Used(grid.page > 1) <= 1
  /\ Cardinality(grid.expanded) <= 1 /\ Cardinality({j \in ScJobs : scans[j] # ListedScan}) <= 1
  /\ grid.sel # 0 \/ grid.descending => scDue = {}
  /\ Cardinality({k \in ScKeys : k \in scDue \/ scCache[k].read}) <= 2
  /\ \A j \in ScJobs \ ScChildren : ~scans[j].scanned
  /\ (\E j \in ScJobs : scans[j] # ListedScan) =>
       grid.mode = "Bulk" /\ grid.sel = 0 /\ ~grid.descending

MCSlFilters == {{1, 2}, {2}}

\* Bounds of the schedules list, which starts full: one detour at a time (another filter, page or tab,
\* the depot filter, two fetches, a missed write), two entries cached; a retirement or a copy is
\* under way by itself.
ListBounded ==
  /\ Used(slLook.filter # SlIds) + Used(slLook.tab # "schedules") + Used(slLook.depot)
       + Used(slLook.page > 0) + Used(Cardinality({k \in ListKeys : ListFetched(k)}) > 1)
       + Used(slMissed # {} /\ slLook.page = 0) <= 1
  /\ Cardinality({k \in ListKeys : slCache[k] # NoList}) <= 2
  /\ slLook.depot \/ slLook.filter # SlIds => slUsed = 0
  /\ slLook.page > 0 \/ slLook.tab # "schedules" => slUsed <= 1
  /\ slMissed # {} => Cardinality(slCalls) <= 1
  /\ slLook.routes # {} => slUsed = 0
  /\ \A c \in slCalls : c.what \in {"copy", "retire"} => Cardinality(slCalls) = 1 /\ slMissed = {}

\* Bounds of the bundle modal: one schedule is for specific clients when it starts.
BundlesBounded ==
  sent = 0 /\ members = {} => links = {} \/ (Cardinality(links) = 1 /\ \E s \in BuSchedules : kind[s] = "default")

AnyText == CHOOSE t \in Texts : TRUE

ChangedFields == IF fields = NoValue THEN {} ELSE {f \in DOMAIN fields : fields[f] # seed[f]}

\* Bounds of the schedule modal: it starts with equal values; one field is changed at a time, an
\* override edited with the schedule's fields as they were, an address looked up before any write.
ModalBounded ==
  /\ writes = 0 =>
       /\ base.text = AnyText /\ base.zones = AnyText
       /\ \A c \in SmClients : delta[c] = NoDelta \/ delta[c].extra
  /\ \A f, g \in ChangedFields : f = g
  /\ ov # NoValue => ChangedFields = {}
  /\ geo # NoGeo => ChangedFields = {} /\ ov = NoValue /\ due = {} /\ writes = 0
  /\ writes = MaxWrites => ChangedFields = {} /\ ov = NoValue /\ modal \in {"shut", "base"}
  /\ fields # NoValue /\ modal \in SmClients => writes = 0

\* The parts of the route form that differ from its snapshot, the origin and direction as one.
TouchedParts(f) ==
  Used(f.zips # f.snap.zips) + Used(f.polys # f.snap.polys)
  + Used(f.master # f.snap.master) + Used(f.asks)
  + Used(\/ f.final # f.snap.final \/ f.kind # FormOf(0, f.snap).kind \/ f.geocoding
         \/ f.depot # f.snap.depot \/ f.point # f.snap.point)

\* Bounds of the routes tab: one part of the form is changed, before its save; one fetch at a time,
\* two requests at once if one is a copy; jobs are stamped while a delete is under way; the roster
\* is looked at again only after a change of it; a ?edit= link to a route without an origin.
RoutesBounded ==
  /\ Cardinality(srLoads) <= 1 /\ (srUsed = 0 => DOMAIN srRoutes = {1})
  /\ Cardinality(srCalls) > 1 => \E c \in srCalls : c.what = "copy"
  /\ srForm # NoForm => TouchedParts(srForm) <= 1
  /\ srUsed > 0 /\ srForm # NoForm => TouchedParts(srForm) <= Used(srForm.saver # MaxSrCalls)
  /\ srUsed = 2 => srForm = NoForm \/ srForm.saver # MaxSrCalls
  /\ srForm.geocoding => srUsed = 0 /\ srLoads = {}
  /\ srPage.edit # 0 => srUsed = 0 /\ srPage.edit = 1 /\ srRoutes[1] = BlankRoute
  /\ srPage.roster # 0 /\ srUsed > 0 =>
       (\E c \in srCalls : c.what = "roster") \/ \E id \in DOMAIN srRoutes : srRoutes[id].roster # {}
  /\ (\E id \in DOMAIN srRoutes : srRoutes[id].jobs) =>
       \E c \in srCalls : c.what = "hard" /\ c.phase # "sent"

\* Bounds of the route map: one request and one batch at a time, polygons on a map without pills.
RouteMapBounded ==
  /\ Cardinality(mpAsked) <= 1 /\ Cardinality(mpAround.flying) <= 1
  /\ mpForm.polygons # {} => mpMap.pills = << >> /\ mpAround.flying = {}

MCShDay == [i \in {1, 2, 3, 11} |-> IF i = 3 THEN 2 ELSE 1]

MCShPlace == [i \in {1, 2, 3, 11} |-> IF i \in {1, 11} THEN 2 ELSE 1]

FeedsRead == {k \in FeedKeys : shFeeds[k] # NoOne}

\* Bounds of the driver scheduling page, which starts with a notified schedule and its slot on the
\* first date and one on the other: two feeds read, one of them stale after a change; one request
\* under way; a location or a tab is chosen by itself.
ShiftsBounded ==
  /\ shCount = 0 => shTable.notified = {1} /\ shTable.answer[1] # 3 /\ shTable.rows = {1, 3, 11}
  /\ shLook.day = 2 => shOpen.what \in {"none", "delete"} /\ 2 \notin shTable.rows
  /\ Cardinality(FeedsRead) <= 2 /\ FeedsRead \cap {<<"couriers", 2>>, <<"couriers", 3>>} = {}
  /\ Cardinality({k \in FeedsRead : shFeeds[k] # shTable}) <= Used(shCount > 0)
  /\ <<"pending", 0>> \in FeedsRead =>
       shLook.sel = 0 /\ ~shLook.adding /\ shOpen.what \in {"none", "picker"}
  /\ <<"couriers", 1>> \in FeedsRead => shLook.sel = 1
  /\ shLook.adding => shOpen = ShClosed
  /\ Cardinality(shCalls) <= 1
  /\ shCount = 2 => Cardinality(FeedsRead) <= 1 /\ shCalls # {}
  /\ shCount = 2 => (shOpen = ShClosed \/ \E c \in shCalls : c.what = shOpen.what)
  /\ shOpen # ShClosed => shLook.place = 0
  /\ shLook.place # 0 => shCount <= 1
  /\ shLook.tab # 0 => /\ shLook.sel # 0 /\ shLook.place = 0 /\ ~shLook.adding
                       /\ shOpen.what \in {"none", "assign"} /\ shTable.answer[1] = shLook.tab

MCHaFiles == {[good |-> 2, bad |-> 0], [good |-> 0, bad |-> 1], [good |-> 0, bad |-> 0]}

\* Bounds of the archive page: a batch is looked at, and lists are loaded, while nothing is
\* imported; one load, two requests of the drill-down.
ArchiveBounded ==
  /\ Cardinality(haForm.loads) <= 1 /\ Cardinality(haCalls) <= 2
  /\ haLook.batch # 0 \/ haCalls # {} => haForm.loads = {} /\ Cardinality(haForm.list) = MaxHa
  /\ haForm.step = "list" /\ haForm.list # {} => Cardinality(haTxs) = MaxHa
  /\ haForm.step # "list" => haLook.batch = 0 /\ haLook.tab = "jobs" /\ haLook.jobs.of = 0

BdRow(to, cubic, origin, cutoff) ==
  [post |-> IF origin > 0 THEN 0 ELSE 1, from |-> 2, to |-> to, cubic |-> cubic, origin |-> origin,
   most |-> 2, cutoff |-> cutoff, coords |-> TRUE]

\* Job 4 leaves a client's site, and has no postcode.
MCBdOf == <<BdRow(6, 2, 0, 0), BdRow(8, 2, 0, 3), BdRow(9, 2, 0, 0), BdRow(7, 1, 5, 0)>>

MCBdConfigs ==
  {[mode |-> "deliveryWindow", stop |-> 1, cubic |-> 3, cutoff |-> TRUE, routing |-> "finishAtStop", finish |-> 1],
   [mode |-> "maxBoxes", stop |-> 1, cubic |-> 0, cutoff |-> FALSE, routing |-> "aToA", finish |-> 0]}

\* Bounds of the build: the page is left alone while it runs, and another change of it is made by
\* itself.
BuildBounded ==
  /\ Used(bdPage.jobs # BdJobs) + Used(bdPage.modal = "config") <= 1
  /\ bdPage.jobs # BdJobs => Cardinality(bdPage.jobs) + 1 = Cardinality(BdJobs) /\ bdPage.modal # "none"
  /\ bdBuilds # << >> => bdPage.jobs = BdJobs /\ bdPage.modal = "none" /\ bdPage.alert = NoAlert
  /\ bdBuilds # << >> => Cardinality(bdPage.ticked) # 1 /\ Len(bdRuns) <= 1
  /\ bdBuilds # << >> /\ bdBuilds[1].done => bdPage.ticked = {} /\ bdPage.auto

Bounded ==
  /\ mounted = "build" => BuildBounded
  /\ mounted = "shifts" => ShiftsBounded
  /\ mounted = "viewer" => ViewerBounded
  /\ mounted = "archive" => ArchiveBounded
  /\ mounted = "imports" => ImportsBounded
  /\ mounted = "staff" => StaffBounded
  /\ mounted = "scans" => ScansBounded
  /\ mounted = "polygons" => PolygonsBounded
  /\ mounted = "modal" => ModalBounded
  /\ mounted = "list" => ListBounded
  /\ mounted = "bundles" => BundlesBounded
  /\ mounted = "routes" => RoutesBounded
  /\ mounted = "routemap" => RouteMapBounded

\* A page that is not mounted has one initial state.
MCPagesInit ==
  /\ mounted \in PageNames
  /\ ilServer \in [rows : {MCIlJobs}, taken : IF mounted = "imports" THEN SUBSET MCIlJobs ELSE {{}}]
  /\ mounted = "viewer" \/ page = NewPage({})
  /\ scans = [j \in ScJobs |-> ListedScan]
  /\ \E m \in (IF mounted = "scans" THEN Modes ELSE {"Bulk"}) : grid = NewGrid(1, m)
  /\ mounted = "chain" \/ columns = Nil
  /\ mounted = "modal" \/ (/\ base = [text |-> AnyText, zones |-> AnyText, default |-> TRUE, clients |-> {}]
                          /\ delta = [c \in SmClients |-> NoDelta])
  /\ slRows = [id \in SlIds |-> [autoBook |-> FALSE, isActive |-> TRUE]]
  /\ mounted = "bundles" \/ (links = {} /\ kind = [s \in BuSchedules |-> "default"])
  /\ mounted = "routes" \/ (/\ srRoutes = [i \in {1} |-> BlankRoute]
                           /\ srPage = [rows |-> << >>, edit |-> 0, roster |-> 0, entries |-> {}])
  /\ mounted = "routemap" \/ mpForm = [zips |-> {}, polygons |-> {}]
  /\ mounted = "shifts" \/ (/\ shTable = NoOne
                           /\ shLook = [day |-> 1, place |-> 0, sel |-> 0, tab |-> 0, adding |-> FALSE])
  /\ PagesInit
  /\ columns # Nil => columns.depot = columns.region
  /\ mounted = "build" \/ (bdPage.auto /\ bdPage.config = CHOOSE c \in MCBdConfigs : TRUE)

MCPagesSpec == MCPagesInit /\ [][PagesNext]_pagesVars
===============================================================================
