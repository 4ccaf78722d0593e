--------------------------------- MODULE Pages ---------------------------------
(****************************************************************************)
(* The pages and editors of the React application side by side.  The router *)
(* mounts one page at a time, a modal editor covers its page, and what they *)
(* keep is gone with them, so they meet only in the database: each is       *)
(* explored by itself, from its mount on, the others staying unmounted.     *)
(****************************************************************************)
EXTENDS ImportWizard, ImportList, StaffImport, RouteViewer, ScanManager, PolygonBuilder,
    ChainBuilder, ScheduleModal, SchedulesList, ScheduleBundles, ScheduledRoutes, RouteMap,
    ShiftPage, HistoricArchive, RunBuild

VARIABLE mounted  \* the page of the route in App.tsx, or the editor open on it

importVars == <<wizVars, ilVars, siVars>>

viewerVars == <<rvVars, scVars>>

scheduleVars == <<chVars, smVars, slVars, buVars>>

recurringVars == <<srVars, mpVars>>

PageNames == {"import", "imports", "staff", "viewer", "scans", "polygons", "chain", "modal",
    "list", "bundles", "shifts", "build", "archive", "routes", "routemap"}

pagesVars == <<mounted, importVars, viewerVars, pbVars, scheduleVars, shVars, bdVars, haVars, recurringVars>>

PagesInit ==
  /\ mounted \in PageNames
  /\ WizInit /\ IlInit /\ SiInit
  /\ RvInit /\ ScInit
  /\ PbInit
  /\ ChInit /\ SmInit /\ SlInit /\ BuInit
  /\ ShInit
  /\ BdInit
  /\ HaInit
  /\ SrInit /\ MpInit

\* /bulk-import: the list and its two wizards.
ImportNext ==
  /\ UNCHANGED <<viewerVars, pbVars, scheduleVars, shVars, bdVars, haVars, recurringVars>>
  /\ \/ mounted = "import" /\ WizNext /\ UNCHANGED <<ilVars, siVars>>
     \/ mounted = "imports" /\ IlNext /\ UNCHANGED <<wizVars, siVars>>
     \/ mounted = "staff" /\ SiNext /\ UNCHANGED <<wizVars, ilVars>>

\* /route-viewer: its pages.
ViewerNext ==
  /\ UNCHANGED <<importVars, pbVars, scheduleVars, shVars, bdVars, haVars, recurringVars>>
  /\ \/ mounted = "viewer" /\ RvNext /\ UNCHANGED scVars
     \/ mounted = "scans" /\ ScNext /\ UNCHANGED rvVars

\* /schedules-new: the list and the editors of the page.
ScheduleNext ==
  /\ UNCHANGED <<importVars, viewerVars, pbVars, shVars, bdVars, haVars, recurringVars>>
  /\ \/ mounted = "chain" /\ ChNext /\ UNCHANGED <<smVars, slVars, buVars>>
     \/ mounted = "modal" /\ SmNext /\ UNCHANGED <<chVars, slVars, buVars>>
     \/ mounted = "list" /\ SlNext /\ UNCHANGED <<chVars, smVars, buVars>>
     \/ mounted = "bundles" /\ BuNext /\ UNCHANGED <<chVars, smVars, slVars>>

\* /recurring-routes: its tabs and the map of the route editor.
RecurringNext ==
  /\ UNCHANGED <<importVars, viewerVars, pbVars, scheduleVars, shVars, bdVars, haVars>>
  /\ \/ mounted = "routes" /\ SrNext /\ UNCHANGED mpVars
     \/ mounted = "routemap" /\ MpNext /\ UNCHANGED srVars

PagesNext ==
  /\ UNCHANGED mounted
  /\ \/ ImportNext
     \/ ViewerNext
     \/ mounted = "polygons" /\ PbNext /\ UNCHANGED <<importVars, viewerVars, scheduleVars, shVars, bdVars, haVars, recurringVars>>
     \/ ScheduleNext
     \/ mounted = "shifts" /\ ShNext /\ UNCHANGED <<importVars, viewerVars, pbVars, scheduleVars, bdVars, haVars, recurringVars>>
     \/ mounted = "build" /\ BdNext /\ UNCHANGED <<importVars, viewerVars, pbVars, scheduleVars, shVars, haVars, recurringVars>>
     \/ mounted = "archive" /\ HaNext /\ UNCHANGED <<importVars, viewerVars, pbVars, scheduleVars, shVars, bdVars, recurringVars>>
     \/ RecurringNext

PagesSpec == PagesInit /\ [][PagesNext]_pagesVars

-------------------------------------------------------------------------------
\* The type invariants of the pages, with what each says of its own bookkeeping: ticks are on
\* rows under review, rows come from one run, the undo stack keeps its cap, no schedule is left
\* that nobody can book.
PagesTypeOK ==
  /\ mounted = "import" => WizTypeOK
  /\ mounted = "imports" => IlTypeOK
  /\ mounted = "staff" => SiTypeOK
  /\ mounted = "viewer" => RvTypeOK
  /\ mounted = "scans" => ScTypeOK
  /\ mounted = "polygons" => PbTypeOK
  /\ mounted = "chain" => ChTypeOK
  /\ mounted = "modal" => SmTypeOK
  /\ mounted = "list" => SlTypeOK
  /\ mounted = "bundles" => BuTypeOK
  /\ mounted = "shifts" => ShTypeOK
  /\ mounted = "build" => BdTypeOK
  /\ mounted = "archive" => HaTypeOK
  /\ mounted = "routes" => SrTypeOK
  /\ mounted = "routemap" => MpTypeOK
================================================================================
