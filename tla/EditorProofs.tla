------------------------------- MODULE EditorProofs -------------------------------
(*****************************************************************************)
(* The editors of schedules and recurring routes, for any routes, postcodes, *)
(* polygons, clients and depots.  First the map of the route editor, which   *)
(* never tells a bound postcode from an unbound one wrongly; then the table  *)
(* behind it, whose routes have an origin exactly when they are final-mile.  *)
(* That is not inductive: a request on its way must bring an origin if it    *)
(* asks for the final mile, for which the form and its dialogs have to be    *)
(* followed too.  Then the schedules: the detail modal writes no override    *)
(* that was not touched, the list shows what the server has once nothing is  *)
(* on its way, and the chain of legs keeps its shape and says all that the   *)
(* columns behind it hold.                                                   *)
(*****************************************************************************)
EXTENDS RouteMap, ScheduledRoutes, ScheduleModal, SchedulesList, ChainBuilder, ViewerProofs

Covering == [zips : SUBSET MpZips, polygons : SUBSET MpCoverage]

Pills == UNION {[s -> BOOLEAN] : s \in SUBSET MpZips}

MapRecord ==
  [ready : BOOLEAN, centroids : BOOLEAN, zoomed : BOOLEAN, bound : SUBSET MpZips,
   polygons : SUBSET MpCoverage, around : SUBSET MpZips, pills : Pills]

Around == [known : SUBSET MpZips, flying : SUBSET (SUBSET MpZips), failed : SUBSET MpZips]

MapTypes ==
  /\ mpForm \in Covering /\ mpShapes \in Covering /\ mpAsked \subseteq Covering
  /\ mpMap \in MapRecord /\ mpAround \in Around

\* Nothing is drawn, and no outline is asked for, before there is a map: the effects that draw
\* return early, and do not run again for what changed meanwhile.
BlankBeforeReady ==
  ~mpMap.ready =>
    /\ mpMap.bound = {} /\ mpMap.polygons = {} /\ mpMap.around = {} /\ DOMAIN mpMap.pills = {}
    /\ mpAround.flying = {}

\* The map m tells the form f's postcodes and polygons.
Tells(m, f) ==
  /\ m.bound \subseteq f.zips /\ m.polygons \subseteq f.polygons
  /\ m.around \cap f.zips = {}
  /\ \A z \in DOMAIN m.pills : m.pills[z] = (z \in f.zips)

\* The inductive invariant.
MapInv == MapTypes /\ BlankBeforeReady /\ Tells(mpMap, mpForm)

\* A render leaves the map telling the form it rendered.
LEMMA RenderTells ==
  ASSUME MapInv, NEW told \in Covering, NEW shapes \in Covering, Rendered(told, shapes),
         UNCHANGED mpAround
  PROVE  mpMap' \in MapRecord /\ Tells(mpMap', told) /\ BlankBeforeReady'
<1>1. CASE ~mpMap.ready
  BY <1>1 DEF Rendered, MapInv, MapTypes, BlankBeforeReady, Tells
<1>2. CASE mpMap.ready
  <2> DEFINE pills == [z \in DOMAIN mpMap.pills |-> z \in told.zips]
  <2>1. mpMap' = [mpMap EXCEPT !.bound = told.zips \cap shapes.zips,
                               !.polygons = told.polygons \cap shapes.polygons,
                               !.around = mpAround.known \ told.zips,
                               !.pills = pills]
    BY <1>2 DEF Rendered, AroundDrawn
  <2>2. pills \in Pills /\ DOMAIN pills = DOMAIN mpMap.pills
        /\ \A z \in DOMAIN pills : pills[z] = (z \in told.zips)
    BY DEF MapInv, MapTypes, MapRecord, Pills
  <2> HIDE DEF pills
  <2>3. /\ told.zips \cap shapes.zips \in SUBSET MpZips
        /\ told.polygons \cap shapes.polygons \in SUBSET MpCoverage
        /\ mpAround.known \ told.zips \in SUBSET MpZips
    BY DEF MapInv, MapTypes, Covering, Around
  <2>4. /\ mpMap' \in MapRecord /\ mpMap'.ready
        /\ mpMap'.bound = told.zips \cap shapes.zips
        /\ mpMap'.polygons = told.polygons \cap shapes.polygons
        /\ mpMap'.around = mpAround.known \ told.zips /\ mpMap'.pills = pills
    BY <1>2, <2>1, <2>2, <2>3 DEF MapInv, MapTypes, MapRecord
  <2> QED
    BY <2>2, <2>4 DEF Tells, BlankBeforeReady
<1> QED
  BY <1>1, <1>2

\* The map is blank at the start.
LEMMA MapStart == MpInit => MapInv
<1> SUFFICES ASSUME MpInit PROVE MapInv
  OBVIOUS
<1>1. << >> \in Pills /\ DOMAIN << >> = {}
  <2>1. << >> \in [{} -> BOOLEAN]
    OBVIOUS
  <2> QED
    BY <2>1 DEF Pills
<1>2. mpMap \in MapRecord /\ mpMap.pills = << >> /\ mpMap.bound = {} /\ mpMap.polygons = {} /\ mpMap.around = {}
  BY <1>1 DEF MpInit, NoMap, MapRecord
<1>3. mpForm \in Covering /\ mpAsked \subseteq Covering
  BY DEF MpInit, Covering
<1>4. mpShapes \in Covering /\ mpAround \in Around /\ mpAround.flying = {}
  BY DEF MpInit, Covering, Around
<1> QED
  BY <1>1, <1>2, <1>3, <1>4 DEF MapInv, MapTypes, BlankBeforeReady, Tells

\* A change of what the form covers.
LEMMA StepCovers ==
  ASSUME MapInv, NEW told \in Covering, Covers(told)
  PROVE  MapInv'
<1>1. mpForm' = told /\ Rendered(told, mpShapes) /\ UNCHANGED <<mpShapes, mpAround>>
  BY DEF Covers
<1>2. mpMap' \in MapRecord /\ Tells(mpMap', told) /\ BlankBeforeReady'
  BY <1>1, RenderTells DEF MapInv, MapTypes
<1>3. Missing(told) \subseteq Covering
  BY DEF Missing, Covering, MapInv, MapTypes
<1>4. mpAsked' \subseteq Covering
  BY <1>3 DEF Covers, MapInv, MapTypes
<1> QED
  BY <1>1, <1>2, <1>4 DEF MapInv, MapTypes

\* A gesture on the form or on the map.
LEMMA StepForm ==
  ASSUME MapInv,
         \/ ClearZips \/ ClearCoverage
         \/ \E z \in MpZips : AddZip(z) \/ RemoveZip(z) \/ ClickPill(z) \/ ClickOutline(z)
         \/ \E p \in MpCoverage : AddCoverage(p) \/ RemoveBulkPolygon(p)
  PROVE  MapInv'
<1>1. ASSUME NEW z \in MpZips, AddZip(z) \/ RemoveZip(z) PROVE MapInv'
  <2>1. [mpForm EXCEPT !.zips = @ \cup {z}] \in Covering /\ [mpForm EXCEPT !.zips = @ \ {z}] \in Covering
    BY DEF MapInv, MapTypes, Covering
  <2> QED
    BY <1>1, <2>1, StepCovers DEF AddZip, RemoveZip
<1>2. ASSUME NEW p \in MpCoverage, AddCoverage(p) \/ RemoveBulkPolygon(p) PROVE MapInv'
  <2>1. /\ [mpForm EXCEPT !.polygons = @ \cup {p}] \in Covering
        /\ [mpForm EXCEPT !.polygons = @ \ {p}] \in Covering
    BY DEF MapInv, MapTypes, Covering
  <2> QED
    BY <1>2, <2>1, StepCovers DEF AddCoverage, RemoveBulkPolygon
<1>3. CASE ClearZips \/ ClearCoverage
  <2>1. [mpForm EXCEPT !.zips = {}] \in Covering /\ [mpForm EXCEPT !.polygons = {}] \in Covering
    BY DEF MapInv, MapTypes, Covering
  <2> QED
    BY <1>3, <2>1, StepCovers DEF ClearZips, ClearCoverage
<1> QED
  BY <1>1, <1>2, <1>3 DEF ClickPill, ClickOutline

\* The shapes of the page are answered, or their call fails.
LEMMA StepShapes ==
  ASSUME MapInv, NEW request \in mpAsked, ShapesAnswered(request) \/ ShapesFailed(request)
  PROVE  MapInv'
<1>1. CASE ShapesFailed(request)
  BY <1>1 DEF ShapesFailed, MapInv, MapTypes, BlankBeforeReady
<1>2. CASE ShapesAnswered(request)
  <2>1. PICK got \in SUBSET request.polygons :
          mpShapes' = [zips |-> mpShapes.zips \cup request.zips, polygons |-> mpShapes.polygons \cup got]
    BY <1>2 DEF ShapesAnswered
  <2>2. mpShapes' \in Covering
    BY <2>1 DEF MapInv, MapTypes, Covering
  <2>3. Rendered(mpForm, mpShapes') /\ UNCHANGED <<mpForm, mpAround>> /\ mpAsked' \subseteq mpAsked
    BY <1>2 DEF ShapesAnswered
  <2>4. mpMap' \in MapRecord /\ Tells(mpMap', mpForm) /\ BlankBeforeReady'
    BY <2>2, <2>3, RenderTells DEF MapInv, MapTypes
  <2> QED
    BY <2>2, <2>3, <2>4 DEF MapInv, MapTypes
<1> QED
  BY <1>1, <1>2

\* The map and the centroids come in either order.
LEMMA StepReady ==
  ASSUME MapInv, MapReady \/ CentroidsReady
  PROVE  MapInv'
<1>1. PICK m : mpMap' = m
  OBVIOUS
<1>2. /\ mpMap' \in MapRecord
      /\ mpMap'.bound = mpMap.bound /\ mpMap'.polygons = mpMap.polygons
      /\ mpMap'.around = mpMap.around /\ mpMap'.pills = mpMap.pills
      /\ ~mpMap'.ready => ~mpMap.ready
  BY DEF MapReady, CentroidsReady, MapInv, MapTypes, MapRecord
<1>3. UNCHANGED <<mpForm, mpShapes, mpAsked, mpAround>>
  BY DEF MapReady, CentroidsReady
<1> QED
  BY <1>2, <1>3 DEF MapInv, MapTypes, BlankBeforeReady, Tells

\* The effect that follows the viewport asks for what is around, in batches.
LEMMA StepSync ==
  ASSUME MapInv, NEW sample \in SUBSET MpZips, NEW zoomed \in BOOLEAN, SyncViewport(sample, zoomed)
  PROVE  MapInv'
<1> DEFINE near == IF mpMap.centroids THEN sample ELSE {}
           wanted == near \ (mpForm.zips \cup mpAround.failed \cup UNION mpAround.flying)
           pills == [z \in near |-> z \in mpForm.zips]
<1>1. /\ mpMap.ready
      /\ mpMap' = [mpMap EXCEPT !.zoomed = zoomed, !.pills = pills]
      /\ mpAround' = [mpAround EXCEPT !.flying = @ \cup (IF zoomed THEN {wanted} \ {{}} ELSE {})]
      /\ UNCHANGED <<mpForm, mpShapes, mpAsked>>
  BY DEF SyncViewport
<1>2. near \in SUBSET MpZips /\ wanted \in SUBSET MpZips
  OBVIOUS
<1> HIDE DEF near, wanted
<1>3. pills \in Pills /\ DOMAIN pills = near /\ \A z \in near : pills[z] = (z \in mpForm.zips)
  BY <1>2 DEF Pills
<1> HIDE DEF pills
<1>4. /\ mpMap' \in MapRecord /\ mpMap'.ready /\ mpMap'.bound = mpMap.bound
      /\ mpMap'.polygons = mpMap.polygons /\ mpMap'.around = mpMap.around /\ mpMap'.pills = pills
  BY <1>1, <1>3 DEF MapInv, MapTypes, MapRecord
<1>5. mpAround' \in Around
  BY <1>1, <1>2 DEF MapInv, MapTypes, Around
<1> QED
  BY <1>1, <1>3, <1>4, <1>5 DEF MapInv, MapTypes, BlankBeforeReady, Tells

\* A batch of what is around comes or fails, whatever was bound meanwhile.
LEMMA StepAround ==
  ASSUME MapInv, NEW batch \in mpAround.flying, AroundAnswered(batch) \/ AroundFailed(batch)
  PROVE  MapInv'
<1>1. mpMap.ready /\ batch \subseteq MpZips
  BY DEF MapInv, MapTypes, Around, BlankBeforeReady
<1>2. CASE AroundFailed(batch)
  <2>1. mpAround' \in Around /\ UNCHANGED <<mpForm, mpShapes, mpAsked, mpMap>>
    BY <1>1, <1>2 DEF AroundFailed, MapInv, MapTypes, Around
  <2> QED
    BY <1>1, <2>1 DEF MapInv, MapTypes, BlankBeforeReady
<1>3. CASE AroundAnswered(batch)
  <2> DEFINE known == mpAround.known \cup batch
  <2>1. /\ mpAround' = [mpAround EXCEPT !.flying = @ \ {batch}, !.known = known]
        /\ mpMap' = [mpMap EXCEPT !.around = known \ mpForm.zips]
        /\ UNCHANGED <<mpForm, mpShapes, mpAsked>>
    BY <1>3 DEF AroundAnswered, AroundDrawn
  <2>2. known \subseteq MpZips
    BY <1>1 DEF MapInv, MapTypes, Around
  <2> HIDE DEF known
  <2>3. mpAround' \in Around
    BY <2>1, <2>2 DEF MapInv, MapTypes, Around
  <2>4. /\ mpMap' \in MapRecord /\ mpMap'.ready /\ mpMap'.bound = mpMap.bound
        /\ mpMap'.polygons = mpMap.polygons /\ mpMap'.around = known \ mpForm.zips
        /\ mpMap'.pills = mpMap.pills
    BY <1>1, <2>1, <2>2 DEF MapInv, MapTypes, MapRecord
  <2> QED
    BY <2>1, <2>3, <2>4 DEF MapInv, MapTypes, BlankBeforeReady, Tells
<1> QED
  BY <1>2, <1>3

\* Each step of the map.
LEMMA MapStep == MapInv /\ [MpNext]_mpVars => MapInv'
<1> SUFFICES ASSUME MapInv, [MpNext]_mpVars PROVE MapInv'
  OBVIOUS
<1>1. CASE UNCHANGED mpVars
  BY <1>1 DEF mpVars, MapInv, MapTypes, BlankBeforeReady
<1>2. CASE MpNext
  BY <1>2, StepForm, StepShapes, StepReady, StepSync, StepAround DEF MpNext
<1> QED
  BY <1>1, <1>2

\* Whatever answers late, and however often a postcode or a polygon is bound and unbound meanwhile,
\* nothing on the map says bound of what is not, or around of what is bound.
THEOREM MapTells == MpSpec => []MapTellsBound
<1>1. MapInv => MapTellsBound
  BY DEF MapInv, Tells, MapTellsBound
<1> QED
  BY <1>1, MapStart, MapStep, PTL DEF MpSpec

--------------------------------------------------------------------------------

\* A final-mile route has an origin, a first-mile one none.
FitsDirection(row) == row.final = (row.depot \/ row.point)

FitRows == {row \in RouteRow : FitsDirection(row)}

FitTables == UNION {[S -> FitRows] : S \in SUBSET SrIds}

RouteTables == UNION {[S -> RouteRow] : S \in SUBSET SrIds}

Entries == [n : 0 .. MaxSrCalls, slot : SrSlots]

Clones == [id : SrIds \cup {0}, row : RouteRow, more : BOOLEAN]

SrPageRecord == [rows : RouteTables, edit : SrIds \cup {0}, roster : SrIds \cup {0}, entries : SUBSET Entries]

SrFormRecord ==
  [target : SrIds \cup {0}, snap : RouteRow, final : BOOLEAN, kind : {"depot", "address"},
   depot : BOOLEAN, point : BOOLEAN, zips : BOOLEAN, polys : BOOLEAN, master : Booked,
   saver : 0 .. MaxSrCalls, geocoding : BOOLEAN, asks : BOOLEAN]

SrCallRecord ==
  [n : 0 .. (MaxSrCalls - 1), what : {"save", "copy", "deactivate", "hard", "roster", "unroster"},
   id : SrIds \cup {0}, body : RouteBody, entry : Entries \cup {NoEntry},
   phase : {"sent", "counted", "done", "refused"}, got : Clones]

SrLoadRecord ==
  [what : {"list", "roster"}, id : SrIds \cup {0}, by : 0 .. MaxSrCalls, read : BOOLEAN,
   rows : RouteTables, then : Clones]

\* A request that makes a route final-mile brings an origin; only a save names no route, and what
\* goes on a roster is an entry.
CallFits(c) ==
  /\ c.body.final => c.body.depot \/ c.body.point
  /\ c.what # "save" => c.id # 0
  /\ c.what = "roster" => c.entry \in Entries

SrTypes ==
  /\ srRoutes \in FitTables
  /\ srPage \in SrPageRecord
  /\ srForm \in SrFormRecord \cup {NoForm}
  /\ srCalls \subseteq SrCallRecord
  /\ srLoads \subseteq SrLoadRecord
  /\ srUsed \in 0 .. MaxSrCalls

SrInv ==
  /\ SrTypes
  /\ \A c \in srCalls : CallFits(c)

\* What a table is, without its domain.
LEMMA TableRows ==
  /\ \A t \in FitTables : /\ t \in RouteTables /\ DOMAIN t \in SUBSET SrIds
                          /\ \A i \in DOMAIN t : t[i] \in RouteRow /\ FitsDirection(t[i])
  /\ \A t \in RouteTables : DOMAIN t \in SUBSET SrIds /\ \A i \in DOMAIN t : t[i] \in RouteRow
<1>1. \A t \in RouteTables : DOMAIN t \in SUBSET SrIds /\ \A i \in DOMAIN t : t[i] \in RouteRow
  BY DEF RouteTables
<1>2. ASSUME NEW t \in FitTables
      PROVE  /\ t \in RouteTables /\ DOMAIN t \in SUBSET SrIds
             /\ \A i \in DOMAIN t : t[i] \in RouteRow /\ FitsDirection(t[i])
  <2>1. PICK S \in SUBSET SrIds : t \in [S -> FitRows]
    BY DEF FitTables
  <2>2. t \in [S -> RouteRow] /\ DOMAIN t = S /\ \A i \in S : t[i] \in RouteRow /\ FitsDirection(t[i])
    BY <2>1 DEF FitRows
  <2> QED
    BY <2>2 DEF RouteTables
<1> QED
  BY <1>1, <1>2

\* The values that the page and the tables start with.
LEMMA Constants ==
  /\ BlankRoute \in RouteRow /\ FitsDirection(BlankRoute)
  /\ AbsentBody \in RouteBody
  /\ OpenNothing \in Clones
  /\ << >> \in RouteTables
  /\ 0 \in 0 .. MaxSrCalls /\ MaxSrCalls \in 0 .. MaxSrCalls
<1>1. BlankRoute \in RouteRow /\ FitsDirection(BlankRoute)
  BY DEF BlankRoute, RouteRow, Booked, FitsDirection
<1>2. AbsentBody \in RouteBody
  BY DEF AbsentBody, RouteBody, Booked
<1>3. OpenNothing \in Clones
  BY <1>1 DEF OpenNothing, Clones
<1>5. << >> \in RouteTables
  <2>1. << >> \in [{} -> RouteRow]
    OBVIOUS
  <2> QED
    BY <2>1 DEF RouteTables
<1> QED
  BY <1>1, <1>2, <1>3, <1>5, SrAssumption

\* The initial values of an editor.
LEMMA FormSeeded ==
  ASSUME NEW id \in SrIds \cup {0}, NEW row \in RouteRow
  PROVE  FormOf(id, row) \in SrFormRecord
  BY SrAssumption DEF FormOf, SrFormRecord, RouteRow

\* Writing a direction and an origin over a row, and then what an update replaces beside them.
LEMMA RowMoved ==
  ASSUME NEW row \in RouteRow, NEW a \in BOOLEAN, NEW b \in BOOLEAN, NEW c \in BOOLEAN,
         NEW r, r = [row EXCEPT !.final = a, !.depot = b, !.point = c]
  PROVE  r \in RouteRow /\ r.final = a /\ r.depot = b /\ r.point = c
  BY DEF RouteRow

\* The columns beside direction and origin do not matter.
LEMMA RowReplaced ==
  ASSUME NEW row \in RouteRow, FitsDirection(row), NEW a \in BOOLEAN, NEW b \in BOOLEAN, NEW c \in BOOLEAN,
         NEW r, r = [row EXCEPT !.active = a, !.zips = b, !.polys = c]
  PROVE  r \in RouteRow /\ FitsDirection(r)
  BY DEF RouteRow, FitsDirection

\* ApplyDirection of a request that brings an origin when it asks for the final mile.
LEMMA Directed ==
  ASSUME NEW row \in RouteRow, NEW body \in RouteBody, body.final => body.depot \/ body.point
  PROVE  ApplyDirection(row, body) \in RouteRow /\ FitsDirection(ApplyDirection(row, body))
<1>1. body.final \in BOOLEAN /\ body.depot \in BOOLEAN /\ body.point \in BOOLEAN
  BY DEF RouteBody
<1>2. PICK b \in BOOLEAN : b = (body.final /\ body.depot)
  BY Zenon
<1>3. PICK c \in BOOLEAN : c = (body.final /\ body.point)
  BY Zenon
<1>4. PICK a \in BOOLEAN : a = body.final
  BY <1>1
<1>5. PICK r : r = [row EXCEPT !.final = a, !.depot = b, !.point = c]
  OBVIOUS
<1>6. r = ApplyDirection(row, body)
  BY <1>2, <1>3, <1>4, <1>5, Zenon DEF ApplyDirection
<1>7. r \in RouteRow /\ r.final = a /\ r.depot = b /\ r.point = c
  BY <1>5 DEF RouteRow
<1>8. FitsDirection(r)
  BY <1>1, <1>2, <1>3, <1>4, <1>7 DEF FitsDirection
<1> QED
  BY <1>6, <1>7, <1>8, Zenon

\* The upsert of such a request.
LEMMA UpsertFits ==
  ASSUME NEW row \in RouteRow, NEW body \in RouteBody, body.final => body.depot \/ body.point
  PROVE  RouteUpserted(row, body) \in FitRows
<1>1. PICK m \in RouteRow : m = ApplyDirection(row, body) /\ FitsDirection(m)
  BY Directed
<1>2. PICK a \in BOOLEAN, z \in BOOLEAN : a = body.active /\ z = body.zips
  BY DEF RouteBody
<1>3. PICK p \in BOOLEAN : p = IF body.polys = {} THEN m.polys ELSE CHOOSE x \in body.polys : TRUE
  <2>1. m.polys \in BOOLEAN /\ body.polys \in {{}, {TRUE}, {FALSE}}
    BY DEF RouteBody, RouteRow
  <2>2. CASE body.polys = {}
    <3>1. m.polys = (IF body.polys = {} THEN m.polys ELSE CHOOSE x \in body.polys : TRUE)
      BY <2>2
    <3> QED
      BY <2>1, <3>1, Zenon
  <2>3. CASE body.polys # {}
    <3>1. PICK p \in BOOLEAN : body.polys = {p}
      BY <2>1, <2>3
    <3>2. p = IF body.polys = {} THEN m.polys ELSE CHOOSE x \in body.polys : TRUE
      BY <3>1
    <3> QED
      BY <3>2, Zenon
  <2> QED
    BY <2>2, <2>3
<1>4. PICK r : r = [m EXCEPT !.active = a, !.zips = z, !.polys = p]
  OBVIOUS
<1>5. r = RouteUpserted(row, body)
  BY <1>1, <1>2, <1>3, <1>4, Zenon DEF RouteUpserted
<1>6. r \in RouteRow /\ FitsDirection(r)
  BY <1>1, <1>4, RowReplaced
<1> QED
  BY <1>5, <1>6, Zenon DEF FitRows

\* A table with the master of its rows written anew.
LEMMA Remastered ==
  ASSUME NEW row \in RouteRow, FitsDirection(row), NEW b \in Booked
  PROVE  [row EXCEPT !.master = b] \in RouteRow /\ FitsDirection([row EXCEPT !.master = b])
  BY DEF RouteRow, FitsDirection

\* A change of the master leaves the directions.
LEMMA Mastered ==
  ASSUME NEW t \in FitTables, NEW id, NEW body \in RouteBody
  PROVE  MasterApplied(t, id, body) \in FitTables
<1>1. CASE body.master = {}
  BY <1>1 DEF MasterApplied
<1>2. CASE body.master # {}
  <2>1. PICK b \in Booked : body.master = {b}
    BY <1>2 DEF RouteBody
  <2>2. (CHOOSE x \in body.master : TRUE) = b
    BY <2>1
  <2>3. ASSUME NEW i \in DOMAIN t
        PROVE  [t[i] EXCEPT !.master = IF i = id THEN CHOOSE x \in body.master : TRUE
                                       ELSE IF @ \in body.master THEN 0 ELSE @] \in FitRows
    <3>1. t[i] \in RouteRow /\ FitsDirection(t[i])
      BY TableRows
    <3>2. PICK m : m = IF i = id THEN CHOOSE x \in body.master : TRUE
                       ELSE IF t[i].master \in body.master THEN 0 ELSE t[i].master
      OBVIOUS
    <3>3. m \in Booked
      BY <2>2, <3>1, <3>2 DEF Booked, RouteRow
    <3>4. [t[i] EXCEPT !.master = m] \in FitRows
      BY <3>1, <3>3, Remastered DEF FitRows
    <3> QED
      BY <3>2, <3>4, Zenon
  <2>4. MasterApplied(t, id, body) =
          [i \in DOMAIN t |->
             [t[i] EXCEPT !.master = IF i = id THEN CHOOSE x \in body.master : TRUE
                                     ELSE IF @ \in body.master THEN 0 ELSE @]]
    BY <1>2 DEF MasterApplied
  <2>5. MasterApplied(t, id, body) \in [DOMAIN t -> FitRows]
    BY <2>3, <2>4, Zenon
  <2> QED
    BY <2>5, TableRows DEF FitTables
<1> QED
  BY <1>1, <1>2

\* A row put in a table, under a new id or over the one that was there.
LEMMA RowPut ==
  ASSUME NEW t \in FitTables, NEW row \in FitRows
  PROVE  /\ \A id \in SrIds : [i \in DOMAIN t \cup {id} |-> IF i = id THEN row ELSE t[i]] \in FitTables
         /\ \A id \in DOMAIN t : [t EXCEPT ![id] = row] \in FitTables
         /\ \A id : [i \in DOMAIN t \ {id} |-> t[i]] \in FitTables
<1>1. DOMAIN t \in SUBSET SrIds /\ \A i \in DOMAIN t : t[i] \in FitRows
  BY TableRows DEF FitRows
<1>2. ASSUME NEW id \in SrIds
      PROVE  [i \in DOMAIN t \cup {id} |-> IF i = id THEN row ELSE t[i]] \in FitTables
  <2>1. [i \in DOMAIN t \cup {id} |-> IF i = id THEN row ELSE t[i]] \in [DOMAIN t \cup {id} -> FitRows]
    BY <1>1
  <2>2. DOMAIN t \cup {id} \in SUBSET SrIds
    BY <1>1
  <2> QED
    BY <2>1, <2>2 DEF FitTables
<1>3. ASSUME NEW id \in DOMAIN t PROVE [t EXCEPT ![id] = row] \in FitTables
  <2>1. t \in [DOMAIN t -> FitRows]
    BY <1>1 DEF FitTables
  <2>2. [t EXCEPT ![id] = row] \in [DOMAIN t -> FitRows]
    BY <2>1
  <2> QED
    BY <1>1, <2>2 DEF FitTables
<1>4. ASSUME NEW id PROVE [i \in DOMAIN t \ {id} |-> t[i]] \in FitTables
  <2>1. [i \in DOMAIN t \ {id} |-> t[i]] \in [DOMAIN t \ {id} -> FitRows]
    BY <1>1
  <2>2. DOMAIN t \ {id} \in SUBSET SrIds
    BY <1>1
  <2> QED
    BY <2>1, <2>2 DEF FitTables
<1> QED
  BY <1>2, <1>3, <1>4

\* A request put on its way, and one answered by the server.
LEMMA Requested ==
  ASSUME SrInv, NEW what \in {"save", "copy", "deactivate", "hard", "roster", "unroster"},
         NEW id \in SrIds \cup {0}, NEW body \in RouteBody, NEW entry \in Entries \cup {NoEntry},
         body.final => body.depot \/ body.point,
         what # "save" => id # 0, what = "roster" => entry \in Entries,
         RouteRequest(what, id, body, entry)
  PROVE  /\ srCalls' \subseteq SrCallRecord /\ srUsed' \in 0 .. MaxSrCalls
         /\ \A c \in srCalls' : CallFits(c)
<1> DEFINE call == [n |-> srUsed, what |-> what, id |-> id, body |-> body, entry |-> entry,
                    phase |-> "sent", got |-> OpenNothing]
<1>1. srCalls' = srCalls \cup {call} /\ srUsed < MaxSrCalls /\ srUsed' = srUsed + 1
  BY DEF RouteRequest
<1>2. srUsed \in 0 .. MaxSrCalls /\ srCalls \subseteq SrCallRecord /\ \A c \in srCalls : CallFits(c)
  BY DEF SrInv, SrTypes
<1>3. call \in SrCallRecord
  <2>1. srUsed \in 0 .. (MaxSrCalls - 1)
    BY <1>1, <1>2, SrAssumption
  <2> QED
    BY <2>1, Constants DEF SrCallRecord
<1>4. CallFits(call)
  BY DEF CallFits
<1>5. srUsed' \in 0 .. MaxSrCalls
  BY <1>1, <1>2, SrAssumption
<1> HIDE DEF call
<1> QED
  BY <1>1, <1>2, <1>3, <1>4, <1>5

\* An answer keeps the request that it answers.
LEMMA AnsweredRoute ==
  ASSUME SrInv, NEW c \in srCalls, NEW reply \in {"sent", "counted", "done", "refused"},
         NEW got \in Clones, RouteAnswered(c, reply, got)
  PROVE  srCalls' \subseteq SrCallRecord /\ \A d \in srCalls' : CallFits(d)
<1>1. c \in SrCallRecord /\ CallFits(c) /\ srCalls \subseteq SrCallRecord /\ \A d \in srCalls : CallFits(d)
  BY DEF SrInv, SrTypes
<1>2. PICK d : d = [c EXCEPT !.phase = reply, !.got = got]
  OBVIOUS
<1>3. d \in SrCallRecord /\ d.what = c.what /\ d.id = c.id /\ d.body = c.body /\ d.entry = c.entry
  BY <1>1, <1>2 DEF SrCallRecord
<1>4. CallFits(d)
  BY <1>1, <1>3 DEF CallFits
<1>5. srCalls' = (srCalls \ {c}) \cup {d}
  BY <1>2 DEF RouteAnswered
<1> QED
  BY <1>1, <1>3, <1>4, <1>5

\* A fetch sent.
LEMMA Fetched ==
  ASSUME SrInv, NEW what \in {"list", "roster"}, NEW id \in SrIds \cup {0}, NEW then \in Clones
  PROVE  Fetch(what, id, then) \in SrLoadRecord
  BY Constants DEF Fetch, SrLoadRecord, SrInv, SrTypes

\* The editor opens on a row of the table or on a blank one.
LEMMA EditingSet ==
  ASSUME SrInv, NEW id \in SrIds \cup {0}, NEW row \in RouteRow, SetEditing(id, row)
  PROVE  srForm' \in SrFormRecord
<1>1. srForm \in SrFormRecord \cup {NoForm}
  BY DEF SrInv, SrTypes
<1>2. srForm # NoForm => [srForm EXCEPT !.target = id] \in SrFormRecord
  BY <1>1 DEF SrFormRecord
<1> QED
  BY <1>2, FormSeeded DEF SetEditing

-----------------------------------------------------------------------------
\* The fetches.
LEMMA KeepReadRoutes ==
  ASSUME SrInv, NEW f \in srLoads, ReadRoutes(f)
  PROVE  SrInv'
<1>1. f \in SrLoadRecord /\ srLoads \subseteq SrLoadRecord /\ srRoutes \in RouteTables
  BY TableRows DEF SrInv, SrTypes
<1>2. PICK rows : rows = IF f.what = "list" THEN srRoutes
                         ELSE [i \in DOMAIN srRoutes \cap {f.id} |-> srRoutes[i]]
  OBVIOUS
<1>3. [i \in DOMAIN srRoutes \cap {f.id} |-> srRoutes[i]] \in RouteTables
  <2>1. [i \in DOMAIN srRoutes \cap {f.id} |-> srRoutes[i]] \in [DOMAIN srRoutes \cap {f.id} -> RouteRow]
    BY <1>1, TableRows
  <2>2. DOMAIN srRoutes \cap {f.id} \in SUBSET SrIds
    BY <1>1, TableRows
  <2> QED
    BY <2>1, <2>2 DEF RouteTables
<1>4. rows \in RouteTables
  BY <1>1, <1>2, <1>3
<1>5. [f EXCEPT !.read = TRUE, !.rows = rows] \in SrLoadRecord
  BY <1>1, <1>4 DEF SrLoadRecord
<1>6. srLoads' \subseteq SrLoadRecord
  BY <1>1, <1>2, <1>5, Zenon DEF ReadRoutes
<1> QED
  BY <1>6 DEF ReadRoutes, SrInv, SrTypes

\* The routes come.
LEMMA KeepAnswerRoutes ==
  ASSUME SrInv, NEW f \in srLoads, AnswerRoutes(f)
  PROVE  SrInv'
<1>1. f \in SrLoadRecord /\ srLoads \subseteq SrLoadRecord /\ srPage \in SrPageRecord
      /\ srForm \in SrFormRecord \cup {NoForm}
  BY DEF SrInv, SrTypes
<1>2. f.rows \in RouteTables /\ f.then \in Clones /\ srPage.edit \in SrIds \cup {0}
  BY <1>1 DEF SrLoadRecord, SrPageRecord
<1>3. \A id \in DOMAIN f.rows : f.rows[id] \in RouteRow
  BY <1>2, TableRows
<1>4. f.then.id \in SrIds \cup {0} /\ f.then.row \in RouteRow
  BY <1>2 DEF Clones
<1>5. srForm' \in SrFormRecord \cup {NoForm}
  BY <1>1, <1>2, <1>3, <1>4, EditingSet DEF AnswerRoutes
<1>6. PICK e : e = IF srPage.edit # 0 /\ srPage.edit \in DOMAIN f.rows THEN 0 ELSE srPage.edit
  OBVIOUS
<1>7. srPage' = [srPage EXCEPT !.rows = f.rows, !.edit = e]
  BY <1>6 DEF AnswerRoutes
<1>8. srPage' \in SrPageRecord
  BY <1>1, <1>2, <1>6, <1>7 DEF SrPageRecord
<1> QED
  BY <1>1, <1>5, <1>8 DEF AnswerRoutes, SrInv, SrTypes

\* The roster comes.
LEMMA KeepAnswerRoster ==
  ASSUME SrInv, NEW f \in srLoads, AnswerRoster(f)
  PROVE  SrInv'
<1>1. f \in SrLoadRecord /\ srLoads \subseteq SrLoadRecord /\ srPage \in SrPageRecord
  BY DEF SrInv, SrTypes
<1>2. f.rows \in RouteTables
  BY <1>1 DEF SrLoadRecord
<1>3. \A id \in DOMAIN f.rows : f.rows[id].roster \in SUBSET Entries
  BY <1>2, TableRows DEF RouteRow, Entries
<1>4. PICK e : e = IF srPage.roster = f.id /\ f.id \in DOMAIN f.rows THEN f.rows[f.id].roster
                   ELSE srPage.entries
  OBVIOUS
<1>5. srPage' = [srPage EXCEPT !.entries = e]
  BY <1>4 DEF AnswerRoster
<1>6. srPage' \in SrPageRecord
  BY <1>1, <1>3, <1>4, <1>5 DEF SrPageRecord
<1>7. srLoads' \subseteq SrLoadRecord
  BY <1>1, Fetched, Constants DEF AnswerRoster
<1> QED
  BY <1>6, <1>7 DEF AnswerRoster, SrInv, SrTypes

-----------------------------------------------------------------------------
\* The clicks outside the editor.
LEMMA KeepOpenEditor ==
  ASSUME SrInv, NEW id \in SrIds \cup {0}, OpenEditor(id)
  PROVE  SrInv'
<1>1. srPage \in SrPageRecord
  BY DEF SrInv, SrTypes
<1>2. \A i \in DOMAIN srPage.rows : srPage.rows[i] \in RouteRow
  BY <1>1, TableRows DEF SrPageRecord
<1>3. PICK row : row = IF id = 0 THEN BlankRoute ELSE srPage.rows[id]
  OBVIOUS
<1>4. row \in RouteRow /\ SetEditing(id, row)
  BY <1>2, <1>3, Constants DEF OpenEditor
<1>5. srForm' \in SrFormRecord
  BY <1>4, EditingSet
<1> QED
  BY <1>5 DEF OpenEditor, SrInv, SrTypes

\* The roster opens and closes.
LEMMA KeepRosterModal ==
  ASSUME SrInv, CloseRoster \/ \E id \in SrIds : OpenRoster(id)
  PROVE  SrInv'
<1>1. srPage \in SrPageRecord /\ srLoads \subseteq SrLoadRecord
  BY DEF SrInv, SrTypes
<1>2. CASE CloseRoster
  <2>1. srPage' \in SrPageRecord
    BY <1>1, <1>2 DEF CloseRoster, SrPageRecord
  <2> QED
    BY <1>2, <2>1 DEF CloseRoster, SrInv, SrTypes
<1>3. ASSUME NEW id \in SrIds, OpenRoster(id) PROVE SrInv'
  <2>1. srPage' \in SrPageRecord
    BY <1>1, <1>3 DEF OpenRoster, SrPageRecord
  <2>2. Fetch("roster", id, OpenNothing) \in SrLoadRecord
    BY Fetched, Constants
  <2>3. srLoads' \subseteq SrLoadRecord
    BY <1>1, <1>3, <2>2 DEF OpenRoster
  <2> QED
    BY <1>3, <2>1, <2>3 DEF OpenRoster, SrInv, SrTypes
<1> QED
  BY <1>2, <1>3

\* A request about a row, its body fit to be stored.
LEMMA KeepRowRequest ==
  ASSUME SrInv, NEW what \in {"save", "copy", "deactivate", "hard"}, NEW id \in SrIds,
         NEW body \in RouteBody, body.final => body.depot \/ body.point,
         RequestOnRow(what, id, body)
  PROVE  SrInv'
<1>1. 0 \notin SrIds
  BY SrAssumption
<1>2. RouteRequest(what, id, body, NoEntry)
  BY DEF RequestOnRow
<1>3. /\ srCalls' \subseteq SrCallRecord /\ srUsed' \in 0 .. MaxSrCalls
      /\ \A c \in srCalls' : CallFits(c)
  BY <1>1, <1>2, Requested
<1> QED
  BY <1>3 DEF RequestOnRow, SrInv, SrTypes

\* Pause and Resume send a body without a direction, which makes a route first-mile.
LEMMA KeepTogglePause ==
  ASSUME SrInv, NEW id \in SrIds, TogglePause(id)
  PROVE  SrInv'
<1>1. id \in DOMAIN srPage.rows
  BY DEF TogglePause, RequestOnRow
<1>2. srPage.rows[id] \in RouteRow
  BY <1>1, TableRows DEF SrInv, SrTypes, SrPageRecord
<1>3. PICK a \in BOOLEAN : a = ~srPage.rows[id].active
  BY Zenon
<1>4. PICK z \in BOOLEAN : z = srPage.rows[id].zips
  BY <1>2 DEF RouteRow
<1>5. PICK body : body = [AbsentBody EXCEPT !.active = a, !.zips = z]
  OBVIOUS
<1>6. body \in RouteBody /\ body.final = FALSE
  BY <1>5, Constants DEF RouteBody, AbsentBody
<1>7. RequestOnRow("save", id, body)
  BY <1>3, <1>4, <1>5, Zenon DEF TogglePause
<1> QED
  BY <1>6, <1>7, KeepRowRequest

\* The other buttons of a row.
LEMMA KeepOtherRowRequests ==
  ASSUME SrInv, NEW id \in SrIds, CopyRoute(id) \/ Deactivate(id) \/ HardDelete(id)
  PROVE  SrInv'
<1>1. AbsentBody \in RouteBody /\ ~AbsentBody.final
  BY Constants DEF AbsentBody
<1>2. PICK what \in {"copy", "deactivate", "hard"} : RequestOnRow(what, id, AbsentBody)
  BY DEF CopyRoute, Deactivate, HardDelete
<1> QED
  BY <1>1, <1>2, KeepRowRequest

\* The buttons of the roster.
LEMMA KeepRosterRequests ==
  ASSUME SrInv, (\E s \in SrSlots : AddRoster(s)) \/ (\E e \in srPage.entries : RemoveRoster(e))
  PROVE  SrInv'
<1>1. /\ AbsentBody \in RouteBody /\ ~AbsentBody.final /\ srPage.roster \in SrIds \cup {0}
      /\ srPage.entries \in SUBSET Entries /\ srUsed \in 0 .. MaxSrCalls
  BY Constants DEF AbsentBody, SrInv, SrTypes, SrPageRecord
<1>2. ASSUME NEW s \in SrSlots, AddRoster(s) PROVE SrInv'
  <2>1. [n |-> srUsed, slot |-> s] \in Entries
    BY <1>1 DEF Entries
  <2>2. srPage.roster # 0 /\ RouteRequest("roster", srPage.roster, AbsentBody, [n |-> srUsed, slot |-> s])
    BY <1>2 DEF AddRoster
  <2>3. /\ srCalls' \subseteq SrCallRecord /\ srUsed' \in 0 .. MaxSrCalls
        /\ \A c \in srCalls' : CallFits(c)
    BY <1>1, <2>1, <2>2, Requested
  <2> QED
    BY <1>2, <2>3 DEF AddRoster, SrInv, SrTypes
<1>3. ASSUME NEW e \in srPage.entries, RemoveRoster(e) PROVE SrInv'
  <2>1. srPage.roster # 0 /\ RouteRequest("unroster", srPage.roster, AbsentBody, e)
    BY <1>3 DEF RemoveRoster
  <2>2. /\ srCalls' \subseteq SrCallRecord /\ srUsed' \in 0 .. MaxSrCalls
        /\ \A c \in srCalls' : CallFits(c)
    BY <1>1, <2>1, Requested
  <2> QED
    BY <1>3, <2>2 DEF RemoveRoster, SrInv, SrTypes
<1> QED
  BY <1>2, <1>3

-----------------------------------------------------------------------------
\* The editor.
LEMMA KeepRouteForm ==
  ASSUME SrInv, srForm' \in SrFormRecord \cup {NoForm},
         UNCHANGED <<srRoutes, srPage, srCalls, srLoads, srUsed>>
  PROVE  SrInv'
  BY DEF SrInv, SrTypes

\* A field of the editor is changed.
LEMMA KeepEdited ==
  ASSUME SrInv,
         \/ EditZips \/ EditPolygons \/ Locate
         \/ \E b \in BOOLEAN : SetDirection(b) \/ PickOriginDepot(b) \/ Suggest(b)
         \/ \E k \in {"depot", "address"} : SetOriginKind(k)
         \/ \E b \in Booked : PickMaster(b)
  PROVE  SrInv'
<1>1. srForm \in SrFormRecord
  BY DEF SrInv, SrTypes, EditZips, EditPolygons, Locate, SetDirection, PickOriginDepot, Suggest,
         SetOriginKind, PickMaster, EditForm, Editing
<1>2. CASE EditZips \/ EditPolygons \/ Locate
  <2>1. PICK z \in BOOLEAN, p \in BOOLEAN : z = ~srForm.zips /\ p = ~srForm.polys
    BY Zenon
  <2>2. [srForm EXCEPT !.zips = z] \in SrFormRecord /\ [srForm EXCEPT !.polys = p] \in SrFormRecord
        /\ [srForm EXCEPT !.geocoding = TRUE] \in SrFormRecord
    BY <1>1 DEF SrFormRecord
  <2>3. /\ srForm' \in {[srForm EXCEPT !.zips = z], [srForm EXCEPT !.polys = p],
                        [srForm EXCEPT !.geocoding = TRUE]}
        /\ UNCHANGED <<srRoutes, srPage, srCalls, srLoads, srUsed>>
    BY <1>2, <2>1, Zenon DEF EditZips, EditPolygons, Locate, EditForm
  <2> QED
    BY <2>2, <2>3, KeepRouteForm
<1>3. ASSUME NEW b \in BOOLEAN, SetDirection(b) \/ PickOriginDepot(b) \/ Suggest(b) PROVE SrInv'
  <2>1. [srForm EXCEPT !.final = b] \in SrFormRecord /\ [srForm EXCEPT !.depot = b] \in SrFormRecord
        /\ [srForm EXCEPT !.point = b] \in SrFormRecord
    BY <1>1 DEF SrFormRecord
  <2>2. /\ srForm' \in SrFormRecord
        /\ UNCHANGED <<srRoutes, srPage, srCalls, srLoads, srUsed>>
    BY <1>3, <2>1, Zenon DEF SetDirection, PickOriginDepot, Suggest, EditForm
  <2> QED
    BY <2>2, KeepRouteForm
<1>4. ASSUME NEW k \in {"depot", "address"}, SetOriginKind(k) PROVE SrInv'
  <2>1. [srForm EXCEPT !.kind = k] \in SrFormRecord
    BY <1>1 DEF SrFormRecord
  <2> QED
    BY <1>4, <2>1, KeepRouteForm DEF SetOriginKind, EditForm
<1>5. ASSUME NEW b \in Booked, PickMaster(b) PROVE SrInv'
  <2>1. [srForm EXCEPT !.master = b] \in SrFormRecord
    BY <1>1 DEF SrFormRecord
  <2> QED
    BY <1>5, <2>1, KeepRouteForm DEF PickMaster, EditForm
<1> QED
  BY <1>2, <1>3, <1>4, <1>5

\* The geocoder and the dialog of unsaved changes.
LEMMA KeepDialogs ==
  ASSUME SrInv, CloseAttempt \/ \E b \in BOOLEAN : Located(b) \/ CloseAnswered(b)
  PROVE  SrInv'
<1>1. srForm \in SrFormRecord
  <2>1. ~NoForm.geocoding /\ ~NoForm.asks
    BY DEF NoForm
  <2>2. srForm # NoForm
    BY <2>1 DEF CloseAttempt, Located, CloseAnswered, Editing
  <2> QED
    BY <2>2 DEF SrInv, SrTypes
<1>2. CASE CloseAttempt
  <2>1. [srForm EXCEPT !.asks = TRUE] \in SrFormRecord
    BY <1>1 DEF SrFormRecord
  <2> QED
    BY <1>2, <2>1, KeepRouteForm DEF CloseAttempt
<1>3. ASSUME NEW b \in BOOLEAN, CloseAnswered(b) PROVE SrInv'
  <2>1. [srForm EXCEPT !.asks = FALSE] \in SrFormRecord
    BY <1>1 DEF SrFormRecord
  <2> QED
    BY <1>3, <2>1, KeepRouteForm DEF CloseAnswered
<1>4. ASSUME NEW b \in BOOLEAN, Located(b) PROVE SrInv'
  <2>1. PICK p \in BOOLEAN : p = (srForm.point \/ b)
    BY Zenon
  <2>2. [srForm EXCEPT !.geocoding = FALSE, !.point = p] \in SrFormRecord
    BY <1>1 DEF SrFormRecord
  <2>3. srForm' = [srForm EXCEPT !.geocoding = FALSE, !.point = p]
    BY <1>4, <2>1, Zenon DEF Located
  <2> QED
    BY <1>4, <2>2, <2>3, KeepRouteForm DEF Located
<1> QED
  BY <1>2, <1>3, <1>4

\* Save sends the final mile only with an origin.
LEMMA KeepCommit ==
  ASSUME SrInv, Commit
  PROVE  SrInv'
<1>1. srForm \in SrFormRecord /\ srUsed \in 0 .. MaxSrCalls
  BY DEF SrInv, SrTypes, Commit
<1>2. /\ srForm.snap \in RouteRow /\ srForm.final \in BOOLEAN /\ srForm.depot \in BOOLEAN
      /\ srForm.point \in BOOLEAN /\ srForm.zips \in BOOLEAN /\ srForm.polys \in BOOLEAN
      /\ srForm.master \in Booked /\ srForm.kind \in {"depot", "address"}
      /\ srForm.target \in SrIds \cup {0}
  BY <1>1 DEF SrFormRecord
<1>3. PICK d \in BOOLEAN : d = (srForm.final /\ srForm.kind = "depot" /\ srForm.depot)
  BY Zenon
<1>4. PICK p \in BOOLEAN : p = (srForm.final /\ srForm.kind = "address" /\ srForm.point)
  BY Zenon
<1>5. PICK m : m = IF srForm.final THEN {srForm.master} ELSE {}
  OBVIOUS
<1>6. m \in {{}} \cup {{b} : b \in Booked}
  BY <1>2, <1>5
<1>7. {srForm.polys} \in {{}, {TRUE}, {FALSE}} /\ srForm.snap.active \in BOOLEAN
  BY <1>2 DEF RouteRow
<1>8. PICK body : body = BodyOf(srForm)
  OBVIOUS
<1>9. body = [active |-> srForm.snap.active, final |-> srForm.final, depot |-> d, point |-> p,
              zips |-> srForm.zips, polys |-> {srForm.polys}, master |-> m]
  BY <1>3, <1>4, <1>5, <1>8, Zenon DEF BodyOf
<1>10. body \in RouteBody /\ body.final = srForm.final /\ body.depot = d /\ body.point = p
  BY <1>2, <1>6, <1>7, <1>9 DEF RouteBody
<1>11. body.final => body.depot \/ body.point
  BY <1>2, <1>3, <1>4, <1>10 DEF Commit, HasOrigin
<1>12. /\ srCalls' \subseteq SrCallRecord /\ srUsed' \in 0 .. MaxSrCalls
       /\ \A c \in srCalls' : CallFits(c)
  BY <1>2, <1>8, <1>10, <1>11, Requested DEF Commit
<1>13. srForm' \in SrFormRecord
  BY <1>1 DEF Commit, SrFormRecord
<1> QED
  BY <1>12, <1>13 DEF Commit, SrInv, SrTypes

-----------------------------------------------------------------------------
\* What the server does with a request.
LEMMA KeepServed ==
  ASSUME SrInv, NEW c \in srCalls, NEW reply \in {"sent", "counted", "done", "refused"},
         NEW got \in Clones, RouteAnswered(c, reply, got), srRoutes' \in FitTables,
         UNCHANGED <<srPage, srForm, srLoads, srUsed>>
  PROVE  SrInv'
<1>1. srCalls' \subseteq SrCallRecord /\ \A d \in srCalls' : CallFits(d)
  BY AnsweredRoute
<1> QED
  BY <1>1 DEF SrInv, SrTypes

\* The server stores a form.
LEMMA KeepServeUpsert ==
  ASSUME SrInv, NEW c \in srCalls, c.id = 0 \/ c.id \in DOMAIN srRoutes, ServeUpsert(c),
         UNCHANGED <<srPage, srForm, srLoads, srUsed>>
  PROVE  SrInv'
<1>1. c \in SrCallRecord /\ CallFits(c) /\ srRoutes \in FitTables
  BY DEF SrInv, SrTypes
<1>2. c.body \in RouteBody /\ c.id \in SrIds \cup {0} /\ (c.body.final => c.body.depot \/ c.body.point)
  BY <1>1 DEF SrCallRecord, CallFits
<1>3. PICK id \in SrIds, row \in RouteRow :
        Became(c, MasterApplied([i \in DOMAIN srRoutes \cup {id} |->
                                   IF i = id THEN RouteUpserted(row, c.body) ELSE srRoutes[i]],
                                id, c.body))
  <2>1. PICK id \in IF c.id = 0 THEN SrIds \ DOMAIN srRoutes ELSE {c.id} :
          Became(c, MasterApplied([i \in DOMAIN srRoutes \cup {id} |->
                                     IF i = id THEN RouteUpserted(IF c.id = 0 THEN BlankRoute ELSE srRoutes[id], c.body)
                                     ELSE srRoutes[i]],
                                  id, c.body))
    BY DEF ServeUpsert
  <2>2. id \in SrIds /\ (c.id # 0 => id \in DOMAIN srRoutes)
    BY <1>1, <1>2, TableRows
  <2>3. (IF c.id = 0 THEN BlankRoute ELSE srRoutes[id]) \in RouteRow
    BY <1>1, <2>2, TableRows, Constants
  <2> QED
    BY <2>1, <2>2, <2>3, Zenon
<1>4. RouteUpserted(row, c.body) \in FitRows
  BY <1>2, UpsertFits
<1>5. PICK t : t = [i \in DOMAIN srRoutes \cup {id} |->
                      IF i = id THEN RouteUpserted(row, c.body) ELSE srRoutes[i]]
  OBVIOUS
<1>6. t \in FitTables
  BY <1>1, <1>4, <1>5, RowPut
<1>7. srRoutes' = MasterApplied(t, id, c.body) /\ RouteAnswered(c, "done", OpenNothing)
  BY <1>3, <1>5 DEF Became
<1>8. srRoutes' \in FitTables
  BY <1>2, <1>6, <1>7, Mastered
<1> QED
  BY <1>7, <1>8, KeepServed, Constants

\* A creation that fails at the master has stored its route.
LEMMA KeepServeCreateHalfway ==
  ASSUME SrInv, NEW c \in srCalls, ServeCreateHalfway(c),
         UNCHANGED <<srPage, srForm, srLoads, srUsed>>
  PROVE  SrInv'
<1>1. c \in SrCallRecord /\ CallFits(c) /\ srRoutes \in FitTables
  BY DEF SrInv, SrTypes
<1>2. c.body \in RouteBody /\ (c.body.final => c.body.depot \/ c.body.point)
  BY <1>1 DEF SrCallRecord, CallFits
<1>3. RouteUpserted(BlankRoute, c.body) \in FitRows
  BY <1>2, UpsertFits, Constants
<1>4. srRoutes' \in FitTables
  BY <1>1, <1>3, RowPut DEF ServeCreateHalfway
<1> QED
  BY <1>4, KeepServed, Constants DEF ServeCreateHalfway

\* A copy has the direction of its original.
LEMMA KeepServeCopy ==
  ASSUME SrInv, NEW c \in srCalls, c.id = 0 \/ c.id \in DOMAIN srRoutes, ServeCopy(c),
         UNCHANGED <<srPage, srForm, srLoads, srUsed>>
  PROVE  SrInv'
<1>1. srRoutes \in FitTables /\ c.id \in DOMAIN srRoutes
  BY DEF SrInv, SrTypes, CallFits, ServeCopy
<1>2. PICK source \in RouteRow : source = srRoutes[c.id] /\ FitsDirection(source)
  BY <1>1, TableRows
<1>3. PICK clone : clone = [BlankRoute EXCEPT !.final = source.final, !.depot = source.depot,
                                              !.point = source.point, !.zips = source.zips]
  OBVIOUS
<1>4. clone \in RouteRow /\ FitsDirection(clone)
  <2>1. PICK blank \in RouteRow : blank = BlankRoute
    BY Constants
  <2>2. clone = [blank EXCEPT !.final = source.final, !.depot = source.depot, !.point = source.point,
                              !.zips = source.zips]
    BY <1>3, <2>1
  <2>3. /\ source.final \in BOOLEAN /\ source.depot \in BOOLEAN /\ source.point \in BOOLEAN
        /\ source.zips \in BOOLEAN
    BY DEF RouteRow
  <2>4. clone.final = source.final /\ clone.depot = source.depot /\ clone.point = source.point
    BY <2>2, <2>3 DEF RouteRow
  <2>5. clone \in RouteRow
    BY <2>2, <2>3 DEF RouteRow
  <2> QED
    BY <1>2, <2>4, <2>5 DEF FitsDirection
<1>5. PICK id \in SrIds \ DOMAIN srRoutes :
        /\ srRoutes' = [i \in DOMAIN srRoutes \cup {id} |-> IF i = id THEN clone ELSE srRoutes[i]]
        /\ RouteAnswered(c, "done", [OpenNothing EXCEPT !.id = id, !.row = clone])
  BY <1>2, <1>3, Zenon DEF ServeCopy
<1>6. [OpenNothing EXCEPT !.id = id, !.row = clone] \in Clones
  BY <1>4, Constants DEF Clones
<1>7. srRoutes' \in FitTables
  BY <1>1, <1>4, <1>5, RowPut DEF FitRows
<1> QED
  BY <1>5, <1>6, <1>7, KeepServed

\* A route is switched off.
LEMMA KeepServeDeactivate ==
  ASSUME SrInv, NEW c \in srCalls, c.id = 0 \/ c.id \in DOMAIN srRoutes, ServeDeactivate(c),
         UNCHANGED <<srPage, srForm, srLoads, srUsed>>
  PROVE  SrInv'
<1>1. srRoutes \in FitTables /\ c.id \in DOMAIN srRoutes
  BY DEF SrInv, SrTypes, CallFits, ServeDeactivate
<1>2. PICK row \in RouteRow : row = srRoutes[c.id] /\ FitsDirection(row)
  BY <1>1, TableRows
<1>3. [row EXCEPT !.active = FALSE] \in FitRows
  BY <1>2 DEF RouteRow, FitsDirection, FitRows
<1>4. srRoutes' = [srRoutes EXCEPT ![c.id] = [row EXCEPT !.active = FALSE]]
  BY <1>2 DEF ServeDeactivate, Became
<1>5. srRoutes' \in FitTables
  BY <1>1, <1>3, <1>4, RowPut
<1> QED
  BY <1>5, KeepServed, Constants DEF ServeDeactivate, Became

\* A hard delete counts, then deletes.
LEMMA KeepServeHard ==
  ASSUME SrInv, NEW c \in srCalls, ServeCount(c) \/ ServeHardDelete(c),
         UNCHANGED <<srPage, srForm, srLoads, srUsed>>
  PROVE  SrInv'
<1>1. srRoutes \in FitTables
  BY DEF SrInv, SrTypes
<1>2. CASE ServeCount(c)
  <2>1. PICK reply \in {"counted", "refused"} : RouteAnswered(c, reply, OpenNothing)
    BY <1>2 DEF ServeCount
  <2> QED
    BY <1>1, <1>2, <2>1, KeepServed, Constants DEF ServeCount
<1>3. CASE ServeHardDelete(c)
  <2>1. srRoutes' \in FitTables
    <3>1. BlankRoute \in FitRows
      BY Constants DEF FitRows
    <3> QED
      BY <1>1, <1>3, <3>1, RowPut DEF ServeHardDelete, Became
  <2> QED
    BY <1>3, <2>1, KeepServed, Constants DEF ServeHardDelete, Became
<1> QED
  BY <1>2, <1>3

\* A roster entry is added or taken away.
LEMMA KeepServeRoster ==
  ASSUME SrInv, NEW c \in srCalls, c.id = 0 \/ c.id \in DOMAIN srRoutes,
         ServeRoster(c) \/ ServeUnroster(c), UNCHANGED <<srPage, srForm, srLoads, srUsed>>
  PROVE  SrInv'
<1>1. srRoutes \in FitTables /\ c.id \in DOMAIN srRoutes /\ (c.what = "roster" => c.entry \in Entries)
  BY DEF SrInv, SrTypes, CallFits, ServeRoster, ServeUnroster
<1>2. PICK row \in RouteRow : row = srRoutes[c.id] /\ FitsDirection(row)
  BY <1>1, TableRows
<1>3. row.roster \in SUBSET Entries
  BY DEF RouteRow, Entries
<1>4. PICK roster : /\ roster \in SUBSET Entries
                    /\ srRoutes' = [srRoutes EXCEPT ![c.id] = [row EXCEPT !.roster = roster]]
  <2>1. CASE ServeRoster(c)
    <3>1. {e \in row.roster : e.slot # c.entry.slot} \cup {c.entry} \in SUBSET Entries
      BY <1>1, <1>3, <2>1 DEF ServeRoster
    <3>2. srRoutes' = [srRoutes EXCEPT ![c.id] =
            [row EXCEPT !.roster = {e \in row.roster : e.slot # c.entry.slot} \cup {c.entry}]]
      BY <1>2, <2>1 DEF ServeRoster, Became
    <3> QED
      BY <3>1, <3>2, Zenon
  <2>2. CASE ServeUnroster(c)
    <3>1. row.roster \ {c.entry} \in SUBSET Entries
      BY <1>3
    <3>2. srRoutes' = [srRoutes EXCEPT ![c.id] = [row EXCEPT !.roster = row.roster \ {c.entry}]]
      BY <1>2, <2>2 DEF ServeUnroster, Became
    <3> QED
      BY <3>1, <3>2, Zenon
  <2> QED
    BY <2>1, <2>2
<1>5. [row EXCEPT !.roster = roster] \in FitRows
  BY <1>2, <1>4 DEF RouteRow, FitsDirection, FitRows, Entries
<1>6. srRoutes' \in FitTables
  BY <1>1, <1>4, <1>5, RowPut
<1> QED
  BY <1>6, KeepServed, Constants DEF ServeRoster, ServeUnroster, Became

\* Each request as the server serves it.
LEMMA KeepServe ==
  ASSUME SrInv, NEW c \in srCalls, Serve(c)
  PROVE  SrInv'
<1>1. UNCHANGED <<srPage, srForm, srLoads, srUsed>>
  BY DEF Serve
<1>2. CASE ServeMissing(c)
  BY <1>1, <1>2, KeepServed, Constants DEF ServeMissing, SrInv, SrTypes
<1>3. CASE ServeCreateHalfway(c)
  BY <1>1, <1>3, KeepServeCreateHalfway
<1>4. CASE /\ c.id = 0 \/ c.id \in DOMAIN srRoutes
           /\ \/ ServeUpsert(c) \/ ServeCopy(c) \/ ServeDeactivate(c) \/ ServeCount(c)
              \/ ServeHardDelete(c) \/ ServeRoster(c) \/ ServeUnroster(c)
  BY <1>1, <1>4, KeepServeUpsert, KeepServeCopy, KeepServeDeactivate, KeepServeHard, KeepServeRoster
<1> QED
  BY <1>2, <1>3, <1>4, Zenon DEF Serve

-----------------------------------------------------------------------------
\* Answers, and the writes of others.
LEMMA KeepAnswerRequest ==
  ASSUME SrInv, NEW c \in srCalls, AnswerRequest(c)
  PROVE  SrInv'
<1>1. c \in SrCallRecord /\ srLoads \subseteq SrLoadRecord /\ srForm \in SrFormRecord \cup {NoForm}
  BY DEF SrInv, SrTypes
<1>2. c.id \in SrIds \cup {0} /\ c.got \in Clones /\ c.n \in 0 .. (MaxSrCalls - 1)
  BY <1>1 DEF SrCallRecord
<1>3. ASSUME NEW then \in Clones, ListAgain(then) PROVE srLoads' \subseteq SrLoadRecord
  <2>1. Fetch("list", 0, then) \in SrLoadRecord
    BY Fetched
  <2> QED
    BY <1>1, <1>3, <2>1 DEF ListAgain
<1>4. ASSUME SaveAnswered(c)
      PROVE  srForm' \in SrFormRecord \cup {NoForm} /\ srLoads' \subseteq SrLoadRecord
  <2>1. CASE c.phase = "done"
    BY <1>3, <1>4, <2>1, Constants DEF SaveAnswered
  <2>2. CASE c.phase # "done"
    <3>1. NoForm.saver # c.n
      BY <1>2, SrAssumption DEF NoForm
    <3>2. srForm # NoForm => [srForm EXCEPT !.saver = MaxSrCalls, !.asks = FALSE] \in SrFormRecord
      BY <1>1, Constants DEF SrFormRecord
    <3> QED
      BY <1>1, <1>4, <2>2, <3>1, <3>2 DEF SaveAnswered
  <2> QED
    BY <2>1, <2>2
<1>5. ASSUME RowAnswered(c)
      PROVE  srForm' \in SrFormRecord \cup {NoForm} /\ srLoads' \subseteq SrLoadRecord
  <2>1. [OpenNothing EXCEPT !.more = TRUE] \in Clones
    BY Constants DEF Clones
  <2>2. Fetch("roster", c.id, [OpenNothing EXCEPT !.more = TRUE]) \in SrLoadRecord
    BY <1>2, <2>1, Fetched
  <2>3. ListAgain(c.got) => srLoads' \subseteq SrLoadRecord
    BY <1>2, <1>3
  <2>4. \/ srLoads' = srLoads \cup {Fetch("roster", c.id, [OpenNothing EXCEPT !.more = TRUE])}
        \/ ListAgain(c.got)
        \/ UNCHANGED srLoads
    BY <1>5 DEF RowAnswered
  <2>5. srLoads' \subseteq SrLoadRecord
    BY <1>1, <2>2, <2>3, <2>4
  <2> QED
    BY <1>1, <1>5, <2>5 DEF RowAnswered
<1>6. srForm' \in SrFormRecord \cup {NoForm} /\ srLoads' \subseteq SrLoadRecord
  BY <1>4, <1>5 DEF AnswerRequest
<1> QED
  BY <1>6 DEF AnswerRequest, SrInv, SrTypes

\* Other clients change what no form shows.
LEMMA KeepOthersStamp ==
  ASSUME SrInv, NEW id \in SrIds, OthersStamp(id)
  PROVE  SrInv'
<1>1. srRoutes \in FitTables /\ id \in DOMAIN srRoutes
  BY DEF SrInv, SrTypes, OthersStamp
<1>2. PICK row \in RouteRow : row = srRoutes[id] /\ FitsDirection(row)
  BY <1>1, TableRows
<1>3. PICK z \in BOOLEAN : z = ~row.zips
  BY Zenon
<1>4. [row EXCEPT !.jobs = TRUE] \in FitRows /\ [row EXCEPT !.zips = z] \in FitRows
  BY <1>2 DEF RouteRow, FitsDirection, FitRows
<1>5. srRoutes' \in FitTables
  <2>1. CASE srRoutes' = [srRoutes EXCEPT ![id].jobs = TRUE]
    <3>1. srRoutes' = [srRoutes EXCEPT ![id] = [row EXCEPT !.jobs = TRUE]]
      BY <1>2, <2>1
    <3> QED
      BY <1>1, <1>4, <3>1, RowPut
  <2>2. CASE srRoutes' = [srRoutes EXCEPT ![id].zips = ~@]
    <3>1. srRoutes' = [srRoutes EXCEPT ![id] = [row EXCEPT !.zips = z]]
      BY <1>2, <1>3, <2>2, Zenon
    <3> QED
      BY <1>1, <1>4, <3>1, RowPut
  <2> QED
    BY <2>1, <2>2 DEF OthersStamp
<1>6. srUsed' \in 0 .. MaxSrCalls
  BY SrAssumption DEF OthersStamp, SrInv, SrTypes
<1> QED
  BY <1>5, <1>6 DEF OthersStamp, SrInv, SrTypes

-----------------------------------------------------------------------------
\* The editor is shut and no request is sent.
LEMMA SrStarted == SrInit => SrInv
<1> SUFFICES ASSUME SrInit PROVE SrInv
  OBVIOUS
<1>1. SrStored \subseteq FitRows
  <2>1. PICK blank \in RouteRow : blank = BlankRoute /\ ~blank.final /\ ~blank.depot /\ ~blank.point
    BY Constants DEF BlankRoute
  <2>2. BlankRoute \in FitRows /\ [BlankRoute EXCEPT !.zips = TRUE] \in FitRows
    BY <2>1 DEF RouteRow, FitRows, FitsDirection
  <2>3. [BlankRoute EXCEPT !.final = TRUE, !.point = TRUE, !.polys = TRUE] \in FitRows
    BY <2>1 DEF RouteRow, FitRows, FitsDirection
  <2>4. ASSUME NEW b \in SrBookings
        PROVE  [BlankRoute EXCEPT !.final = TRUE, !.depot = TRUE, !.master = b] \in FitRows
    BY <2>1 DEF RouteRow, FitRows, FitsDirection, Booked
  <2> QED
    BY <2>2, <2>3, <2>4 DEF SrStored
<1>2. srRoutes \in FitTables
  <2>1. PICK id \in SrIds, row \in SrStored : srRoutes = [i \in {id} |-> row]
    BY DEF SrInit
  <2>2. srRoutes \in [{id} -> FitRows] /\ {id} \in SUBSET SrIds
    BY <1>1, <2>1
  <2> QED
    BY <2>2 DEF FitTables
<1>3. srPage \in SrPageRecord
  BY Constants DEF SrInit, SrPageRecord
<1>4. srLoads \subseteq SrLoadRecord
  BY Constants DEF SrInit, SrLoadRecord
<1>5. srCalls = {} /\ srForm = NoForm /\ srUsed = 0
  BY DEF SrInit
<1> QED
  BY <1>2, <1>3, <1>4, <1>5, Constants DEF SrInv, SrTypes

\* Each step of the routes tab.
LEMMA SrKept == SrInv /\ [SrNext]_srVars => SrInv'
<1> SUFFICES ASSUME SrInv, [SrNext]_srVars PROVE SrInv'
  OBVIOUS
<1>1. CASE EditorNext
  BY <1>1, KeepEdited, KeepDialogs, KeepCommit, Zenon DEF EditorNext
<1>2. ASSUME NEW f \in srLoads, ReadRoutes(f) \/ AnswerRoutes(f) \/ AnswerRoster(f) PROVE SrInv'
  BY <1>2, KeepReadRoutes, KeepAnswerRoutes, KeepAnswerRoster
<1>3. ASSUME NEW c \in srCalls, Serve(c) \/ AnswerRequest(c) PROVE SrInv'
  BY <1>3, KeepServe, KeepAnswerRequest
<1>4. ASSUME NEW id \in SrIds \cup {0}, OpenEditor(id) PROVE SrInv'
  BY <1>4, KeepOpenEditor
<1>5. ASSUME NEW id \in SrIds,
             \/ OpenRoster(id) \/ TogglePause(id) \/ CopyRoute(id) \/ Deactivate(id)
             \/ HardDelete(id) \/ OthersStamp(id)
      PROVE  SrInv'
  BY <1>5, KeepRosterModal, KeepTogglePause, KeepOtherRowRequests, KeepOthersStamp
<1>6. CASE CloseRoster
  BY <1>6, KeepRosterModal
<1>7. CASE (\E s \in SrSlots : AddRoster(s)) \/ (\E e \in srPage.entries : RemoveRoster(e))
  BY <1>7, KeepRosterRequests
<1>8. CASE UNCHANGED srVars
  BY <1>8 DEF srVars, SrInv, SrTypes
<1> QED
  BY <1>1, <1>2, <1>3, <1>4, <1>5, <1>6, <1>7, <1>8, Zenon DEF SrNext

\* Whatever is created, copied, paused or saved from a stale form, and however its answers come
\* late: a stored final-mile route has an origin and a first-mile one has none.
THEOREM RoutesFit == SrSpec => []OriginFitsDirection
<1>1. SrInv => OriginFitsDirection
  BY TableRows DEF SrInv, SrTypes, OriginFitsDirection, FitsDirection
<1> QED
  BY <1>1, SrStarted, SrKept, PTL DEF SrSpec

-------------------------------------------------------------------------------
(* The schedule detail                                                     *)

\* Whatever is fetched, typed or written is of its type; an override form was seeded from the
\* overrides as fetched, which stay.
ModalInv ==
  /\ base \in Schedule \cup {NoValue} /\ detail \in Schedule \cup {NoValue}
  /\ delta \in [SmClients -> Delta] /\ ovs \in [SmClients -> Delta] \cup {NoValue}
  /\ fields \in [text : Texts, zones : Texts, default : BOOLEAN] \cup {NoValue}
  /\ seed \in [text : Texts, zones : Texts, default : BOOLEAN] \cup {NoValue}
  /\ ov \in [text : Texts \cup {NoValue}] \cup {NoValue}
  /\ ov # NoValue => ovs \in [SmClients -> Delta]

\* No modal is open at the start.
LEMMA ModalInit == SmInit => ModalInv
  BY DEF SmInit, ModalInv

FormRecord == [text : Texts, zones : Texts, default : BOOLEAN]

\* The form is filled from a schedule's columns.
LEMMA FieldsOf == ASSUME NEW s \in Schedule PROVE Fields(s) \in FormRecord
  BY DEF Fields, Schedule, FormRecord

\* What a save stores.
LEMMA SavedTyped == ASSUME ModalInv, Save PROVE base' \in Schedule
<1>1. fields \in FormRecord /\ base \in Schedule /\ detail \in Schedule
  BY DEF ModalInv, Save, FormRecord
<1>2. Or(SentZones, base.zones) \in Texts
  BY <1>1 DEF Or, SentZones, FormRecord, Schedule
<1> QED
  BY <1>1, <1>2 DEF Save, Upserted, SentClients, FormRecord, Schedule

\* An override's save sends a delta.
LEMMA PutTyped == ASSUME ModalInv, SaveOverride PROVE PutBody(modal) \in Delta
<1>1. ov \in [text : Texts \cup {NoValue}] /\ ovs \in [SmClients -> Delta] /\ modal \in SmClients
  BY DEF ModalInv, SaveOverride
<1> QED
  BY <1>1 DEF PutBody, Delta

\* Each step of the modal.
LEMMA ModalStep == ASSUME ModalInv, [SmNext]_smVars PROVE ModalInv'
<1> USE DEF ModalInv, smServer, smForms
<1>1. CASE UNCHANGED smVars
  BY <1>1 DEF smVars
<1>2. CASE OpenBase \/ \E q \in {"detail", "ovs"} : Refocus(q)
  BY <1>2 DEF OpenBase, Refocus
<1>16. CASE AnswerDetail
  BY <1>16 DEF AnswerDetail
<1>17. CASE AnswerOverrides
  BY <1>17 DEF AnswerOverrides
<1>3. CASE SeedForm
  BY <1>3, FieldsOf DEF SeedForm, FormRecord
<1>4. CASE SeedOverride
  BY <1>4 DEF SeedOverride, Or, Delta, Schedule
<1>5. CASE CloseModal \/ NotFound
  BY <1>5 DEF CloseModal, NotFound, ResetOnClose
<1>6. CASE Save
  BY <1>6, SavedTyped DEF Save, ResetOnClose
<1>7. CASE SaveOverride
  BY <1>7, PutTyped DEF SaveOverride, ResetOnClose
<1>8. CASE AnotherOperator
  <2>1. base \in Schedule
    BY <1>8 DEF AnotherOperator
  <2>2. base' \in Schedule \cup {NoValue} /\ delta' \in [SmClients -> Delta]
    BY <1>8, <2>1 DEF AnotherOperator, Schedule
  <2> QED
    BY <1>8, <2>2 DEF AnotherOperator
<1>9. CASE LookUp \/ ChangeTab \/ Confirm \/ \E a \in Addresses : TypeAddress(a)
  BY <1>9 DEF LookUp, ChangeTab, Confirm, TypeAddress
<1>10. ASSUME NEW t \in Texts, TypeText(t) \/ ChangeZones(t) PROVE ModalInv'
  BY <1>10 DEF TypeText, ChangeZones
<1>11. ASSUME NEW t \in Texts \cup {NoValue}, TypeOverride(t) PROVE ModalInv'
  BY <1>11 DEF TypeOverride
<1>12. ASSUME NEW d \in BOOLEAN, ChooseWho(d) PROVE ModalInv'
  BY <1>12 DEF ChooseWho
<1>13. ASSUME NEW c \in SmClients, OpenOverride(c) PROVE ModalInv'
  BY <1>13 DEF OpenOverride
<1>14. ASSUME NEW c \in SmClients, Attach(c) \/ Detach(c) PROVE ModalInv'
  <2>1. base \in Schedule
    BY <1>14 DEF Attach, Detach
  <2>2. base' \in Schedule
    BY <1>14, <2>1 DEF Attach, Detach, Schedule
  <2> QED
    BY <1>14, <2>2 DEF Attach, Detach
<1>15. ASSUME NEW c \in SmClients, RemoveOverride(c) PROVE ModalInv'
  <2>1. delta' \in [SmClients -> Delta]
    BY <1>15 DEF RemoveOverride, NoDelta, Delta
  <2> QED
    BY <1>15, <2>1 DEF RemoveOverride
<1> QED
  BY <1>1, <1>2, <1>3, <1>4, <1>5, <1>6, <1>7, <1>8, <1>9, <1>10, <1>11, <1>12, <1>13, <1>14, <1>15, <1>16,
     <1>17
     DEF SmNext, TypeHeader, TypeOccurrences, ChangeDays, ChangeAdvanced, ChangeCoverage,
         TypeRouteOverride, TypeDaysOverride, TypeHeaderOverride

\* A save of the schedule leaves the zones it was not about, whoever changed them since.
LEMMA ZonesLeft == ASSUME Save, fields.zones = seed.zones PROVE base'.zones = base.zones
  BY DEF Save, Upserted, SentZones, Or

\* A save of an override that was left as it was seeded, from data that is still true.
LEMMA OverrideLeft ==
  ASSUME ModalInv, SaveOverride, detail = base, ovs = delta, ov.text = Resolved(modal)
  PROVE  /\ \A c \in SmClients : Resolved(c)' = Resolved(c)
         /\ delta'[modal].extra = delta[modal].extra
<1>1. /\ modal \in SmClients /\ delta \in [SmClients -> Delta]
      /\ delta' = [delta EXCEPT ![modal] = PutBody(modal)] /\ base' = base
  BY DEF SaveOverride, ModalInv
<1>2. delta'[modal] = PutBody(modal) /\ \A c \in SmClients \ {modal} : delta'[c] = delta[c]
  BY <1>1
<1>3. /\ PutBody(modal).text = IF ov.text = base.text THEN NoValue ELSE ov.text
      /\ PutBody(modal).extra = delta[modal].extra
  BY DEF PutBody
<1>4. ASSUME NEW c \in SmClients PROVE Resolved(c)' = Resolved(c)
  <2>1. CASE c = modal
    BY <1>1, <1>2, <1>3, <2>1 DEF Resolved, Or
  <2>2. CASE c # modal
    BY <1>1, <1>2, <2>2 DEF Resolved
  <2> QED
    BY <2>1, <2>2
<1> QED
  BY <1>2, <1>3, <1>4

\* A save leaves what it was not about: the zones and linehauls of a schedule that the operator
\* did not touch, what the client of an untouched override gets, and what its form does not show.
THEOREM UntouchedStays == SmSpec => UntouchedKept
<1> DEFINE A == /\ Save /\ fields.zones = seed.zones => base'.zones = base.zones
                /\ SaveOverride /\ detail = base /\ ovs = delta /\ ov.text = Resolved(modal) =>
                     /\ \A c \in SmClients : Resolved(c)' = Resolved(c)
                     /\ delta'[modal].extra = delta[modal].extra
<1>1. ModalInv /\ [SmNext]_smVars => [A]_smVars
  <2> SUFFICES ASSUME ModalInv PROVE A
    OBVIOUS
  <2> QED
    BY ZonesLeft, OverrideLeft
<1> HIDE DEF A
<1>2. SmSpec => [][A]_smVars
  BY ModalInit, ModalStep, <1>1, PTL DEF SmSpec
<1> QED
  BY <1>2 DEF UntouchedKept, A

-------------------------------------------------------------------------------
(* The list of schedules                                                   *)

LookRecord ==
  [tab : {"schedules", "routes"}, filter : SlFilters, page : SlPages, depot : BOOLEAN,
   routes : SUBSET RouteRows, routePage : Nat]

\* An answer is never taken for none.
Proper(list) ==
  list = NoList \/ (DOMAIN list = {"rows", "total"} /\ list.total \in 0 .. Cardinality(SlIds))

ListTable(f) == f = [k \in ListKeys |-> f[k]] /\ \A k \in ListKeys : Proper(f[k])

Switches == {"auto", "active"}

\* A switch remembers the lists it would put back.
CallRecord(c) ==
  /\ DOMAIN c = {"n", "what", "id", "on", "before", "reply"}
  /\ c.what \in Switches \cup {"retire", "copy"} /\ c.reply \in {"none", "done", "refused"}
  /\ c.what \in Switches => ListTable(c.before)

ListTypes ==
  /\ slLook \in LookRecord /\ ListTable(slCache) /\ ListTable(slRead)
  /\ \A c \in slCalls : CallRecord(c)

\* The lists differ from the server's until a call has its lists fetched again.
Unsettled(under) == \E c \in under : c.what \in Switches \/ c.reply = "done"

\* The tab has what it shows, or has asked for it.
Observed ==
  slLook.tab = "schedules" =>
    ListFetched(ShownKey) \/ (slCache[ShownKey] # NoList /\ ShownKey \notin slStale)

Rests(k) ==
  /\ \/ k \in slStale
     \/ slCache[k] = NoList
     \/ <<"cached", k>> \in slMissed
     \/ slCache[k] = ListedNow(k)
  /\ slRead[k] # NoList => <<"read", k>> \in slMissed \/ slRead[k] = ListedNow(k)

Rested == ~Unsettled(slCalls) => \A k \in ListKeys : Rests(k)

\* The inductive invariant.
ListInv == ListTypes /\ Observed /\ Rested

-------------------------------------------------------------------------------
\* There is a first page.
LEMMA AtLeastOnePage == 0 \in SlPages
<1> DEFINE total == Cardinality(SlIds)
<1>1. total \in Nat /\ PerPage \in Nat \ {0}
  BY SlAssumption, FS_CardinalityType
<1>2. ASSUME total # 0 PROVE (total + PerPage - 1) \div PerPage >= 1
  BY <1>1, <1>2, Z3
<1>3. PageCount(total) \in Nat \ {0}
  BY <1>1, <1>2 DEF PageCount
<1> QED
  BY <1>3 DEF SlPages

\* What the tab shows is a page of the list.
LEMMA ShownListed == ASSUME slLook \in LookRecord PROVE ShownKey \in ListKeys
  BY DEF LookRecord, ShownKey, ListKeys

\* An answer holds rows of its own page.
LEMMA AnswerIsProper ==
  ASSUME NEW k \in ListKeys
  PROVE  Proper(ListedNow(k)) /\ ListedNow(k) # NoList
<1> DEFINE found == k[1] \cap DOMAIN slRows
           here == ListedNow(k)
<1>1. IsFiniteSet(SlIds) /\ found \subseteq SlIds
  BY SlAssumption DEF ListKeys
<1>2. IsFiniteSet(found) /\ Cardinality(found) <= Cardinality(SlIds)
  <2> HIDE DEF found
  <2> QED
    BY <1>1, FS_Subset, Zenon
<1>3. Cardinality(found) \in Nat /\ Cardinality(SlIds) \in Nat
  <2> HIDE DEF found
  <2> QED
    BY <1>1, <1>2, FS_CardinalityType
<1>4. DOMAIN here = {"rows", "total"} /\ here.total = Cardinality(found)
  BY DEF ListedNow
<1>5. NoList.total = Cardinality(SlIds) + 1
  BY DEF NoList
<1> HIDE DEF found, here
<1>6. here.total # NoList.total /\ here.total \in 0 .. Cardinality(SlIds)
  BY <1>2, <1>3, <1>4, <1>5
<1>7. Proper(here) /\ here # NoList
  BY <1>4, <1>6 DEF Proper
<1> QED
  BY <1>7 DEF here

\* A list that was never fetched.
LEMMA Blank == ListTable([k \in ListKeys |-> NoList])
  BY DEF ListTable, Proper

-------------------------------------------------------------------------------
(* The tab and its fetches                                                 *)

\* Nothing that rests on the server has changed.
LEMMA RestedStays ==
  ASSUME Rested, UNCHANGED <<slRows, slCache, slStale, slRead, slMissed, slCalls>>
  PROVE  Rested'
  BY DEF Rested, Rests, Unsettled, ListedNow

\* The tab asks for a key, which is fetched unless an answer that is fresh enough is there.
LEMMA KeyObserved ==
  ASSUME ListInv, NEW look \in LookRecord, ObserveKey(look)
  PROVE  ListInv'
<1>1. ListTypes'
  BY DEF ListInv, ListTypes, ObserveKey, slMutations
<1>2. Observed'
  BY DEF ObserveKey, Observed, ListFetched, ShownKey
<1>3. Rested'
  BY RestedStays DEF ListInv, ObserveKey, slServer, slMutations
<1> QED
  BY <1>1, <1>2, <1>3 DEF ListInv

\* The controls of the tab.
LEMMA TabStep ==
  ASSUME ListInv,
         \/ \E f \in SlFilters : SetFilter(f)
         \/ \E on \in BOOLEAN : SetDepotFilter(on)
         \/ \E p \in SlPages : ShowPage(p)
         \/ BackToTab
  PROVE  ListInv'
<1>0. slLook \in LookRecord
  BY DEF ListInv, ListTypes
<1>1. ASSUME NEW f \in SlFilters, SetFilter(f) PROVE ListInv'
  <2>1. [slLook EXCEPT !.filter = f, !.page = 0, !.depot = FALSE] \in LookRecord
    BY <1>0, AtLeastOnePage DEF LookRecord
  <2> QED
    BY <1>1, <2>1, KeyObserved DEF SetFilter
<1>2. ASSUME NEW on \in BOOLEAN, SetDepotFilter(on) PROVE ListInv'
  <2>1. [slLook EXCEPT !.depot = on, !.page = 0] \in LookRecord
    BY <1>0, AtLeastOnePage DEF LookRecord
  <2> QED
    BY <1>2, <2>1, KeyObserved DEF SetDepotFilter
<1>3. ASSUME NEW p \in SlPages, ShowPage(p) PROVE ListInv'
  <2>1. [slLook EXCEPT !.page = p] \in LookRecord
    BY <1>0 DEF LookRecord
  <2> QED
    BY <1>3, <2>1, KeyObserved DEF ShowPage
<1>4. CASE BackToTab
  <2>1. [slLook EXCEPT !.tab = "schedules", !.routes = {}, !.routePage = 0] \in LookRecord
    BY <1>0 DEF LookRecord
  <2> QED
    BY <1>4, <2>1, KeyObserved DEF BackToTab
<1> QED
  BY <1>1, <1>2, <1>3, <1>4

\* The other tab shows nothing of the list.
LEMMA OtherTab ==
  ASSUME ListInv,
         \/ LeaveTab
         \/ \E rows \in SUBSET RouteRows : LoadRoutes(rows)
         \/ \E p \in 0 .. Cardinality(RouteRows) : ShowRoutePage(p)
  PROVE  ListInv'
<1>0. slLook \in LookRecord /\ 0 \in SlPages /\ SlIds \in SlFilters
  BY AtLeastOnePage, SlAssumption DEF ListInv, ListTypes
<1>1. slLook' \in LookRecord /\ slLook'.tab = "routes"
  <2>1. CASE LeaveTab
    BY <1>0, <2>1 DEF LeaveTab, LookRecord
  <2>2. ASSUME NEW rows \in SUBSET RouteRows, LoadRoutes(rows)
        PROVE  slLook' \in LookRecord /\ slLook'.tab = "routes"
    BY <1>0, <2>2 DEF LoadRoutes, LookRecord
  <2>3. ASSUME NEW p \in 0 .. Cardinality(RouteRows), ShowRoutePage(p)
        PROVE  slLook' \in LookRecord /\ slLook'.tab = "routes"
    <3>1. p \in Nat
      BY SlAssumption, FS_CardinalityType
    <3> QED
      BY <1>0, <2>3, <3>1 DEF ShowRoutePage, LookRecord
  <2> QED
    BY <2>1, <2>2, <2>3
<1>2. UNCHANGED <<slRows, slCache, slStale, slRead, slMissed, slCalls>>
  BY DEF LeaveTab, LoadRoutes, ShowRoutePage, slServer, slQueries, slMutations
<1>3. ListTypes' /\ Observed'
  BY <1>1, <1>2 DEF ListInv, ListTypes, Observed
<1>4. Rested'
  BY <1>2, RestedStays DEF ListInv
<1> QED
  BY <1>3, <1>4 DEF ListInv

\* The window's focus fetches the page shown.
LEMMA Refocused == ASSUME ListInv, RefocusList PROVE ListInv'
<1>1. UNCHANGED <<slRows, slCache, slStale, slRead, slMissed, slCalls, slLook>>
  BY DEF RefocusList, slServer, slMutations
<1>2. Rested'
  BY <1>1, RestedStays DEF ListInv
<1>3. ListTypes' /\ Observed'
  BY <1>1 DEF ListInv, ListTypes, Observed, RefocusList, ListFetched, ShownKey
<1> QED
  BY <1>2, <1>3 DEF ListInv

\* The server reads a page.
LEMMA ListWasRead == ASSUME ListInv, NEW k \in ListKeys, ReadList(k) PROVE ListInv'
<1>1. /\ slRead' = [slRead EXCEPT ![k] = ListedNow(k)] /\ slAsked' = slAsked \ {k}
      /\ UNCHANGED <<slRows, slCache, slStale, slMissed, slCalls, slLook>>
  BY DEF ReadList, slServer, slMutations
<1>2. ListTable(slRead) /\ slLook \in LookRecord
  BY DEF ListInv, ListTypes
<1>3. ListTable(slRead') /\ slRead'[k] = ListedNow(k) /\ \A j \in ListKeys \ {k} : slRead'[j] = slRead[j]
  <2>1. PICK e : e = ListedNow(k)
    OBVIOUS
  <2>2. Proper(e) /\ slRead' = [slRead EXCEPT ![k] = e]
    BY <1>1, <2>1, AnswerIsProper
  <2>3. ListTable(slRead') /\ slRead'[k] = e /\ \A j \in ListKeys \ {k} : slRead'[j] = slRead[j]
    BY <1>2, <2>2 DEF ListTable
  <2> QED
    BY <2>1, <2>3
<1>4. ListTypes'
  BY <1>1, <1>3 DEF ListInv, ListTypes
<1>5. Observed'
  <2>1. ShownKey \in ListKeys /\ ShownKey' = ShownKey
    BY <1>1, <1>2, ShownListed DEF ShownKey
  <2>2. ListedNow(k) # NoList
    BY AnswerIsProper
  <2>3. ListFetched(ShownKey) => ListFetched(ShownKey)'
    BY <1>1, <1>3, <2>1, <2>2 DEF ListFetched
  <2> QED
    BY <1>1, <2>1, <2>3 DEF ListInv, Observed
<1>6. ASSUME NEW j \in ListKeys, Rests(j) PROVE Rests(j)'
  <2>1. ListedNow(j)' = ListedNow(j)
    BY <1>1 DEF ListedNow
  <2> QED
    BY <1>1, <1>3, <1>6, <2>1 DEF Rests
<1>7. Rested'
  BY <1>1, <1>6 DEF ListInv, Rested, Unsettled
<1> QED
  BY <1>4, <1>5, <1>7 DEF ListInv

\* A fetch is answered.
LEMMA ListWasAnswered == ASSUME ListInv, NEW k \in ListKeys, AnswerList(k) PROVE ListInv'
<1>1. /\ slRead[k] # NoList
      /\ slRead' = [slRead EXCEPT ![k] = NoList] /\ slCache' = [slCache EXCEPT ![k] = slRead[k]]
      /\ slStale' = slStale \ {k}
      /\ UNCHANGED <<slRows, slAsked, slCalls, slLook>>
  BY DEF AnswerList, slServer, slMutations
<1>2. ListTable(slRead) /\ ListTable(slCache) /\ slLook \in LookRecord
  BY DEF ListInv, ListTypes
<1>3. Proper(NoList) /\ Proper(slRead[k])
  BY <1>2 DEF ListTable, Proper
<1>4. ListTable(slRead') /\ slRead'[k] = NoList /\ \A j \in ListKeys \ {k} : slRead'[j] = slRead[j]
  BY <1>1, <1>2, <1>3 DEF ListTable
<1>5. ListTable(slCache') /\ slCache'[k] = slRead[k] /\ \A j \in ListKeys \ {k} : slCache'[j] = slCache[j]
  BY <1>1, <1>2, <1>3 DEF ListTable
<1>6. /\ <<"read", k>> \in slMissed => <<"cached", k>> \in slMissed'
      /\ \A j \in ListKeys \ {k} :
           /\ <<"read", j>> \in slMissed => <<"read", j>> \in slMissed'
           /\ <<"cached", j>> \in slMissed => <<"cached", j>> \in slMissed'
  BY DEF AnswerList
<1>7. ListTypes'
  BY <1>1, <1>4, <1>5 DEF ListInv, ListTypes
<1>8. Observed'
  <2>1. ShownKey \in ListKeys /\ ShownKey' = ShownKey
    BY <1>1, <1>2, ShownListed DEF ShownKey
  <2> QED
    BY <1>1, <1>4, <1>5, <2>1 DEF ListInv, Observed, ListFetched
<1>9. ASSUME NEW j \in ListKeys, Rests(j) PROVE Rests(j)'
  <2>1. ListedNow(j)' = ListedNow(j)
    BY <1>1 DEF ListedNow
  <2>2. CASE j = k
    <3>1. <<"read", k>> \in slMissed \/ slRead[k] = ListedNow(k)
      BY <1>1, <1>9, <2>2 DEF Rests
    <3>2. <<"cached", k>> \in slMissed' \/ slCache'[k] = ListedNow(k)'
      BY <1>5, <1>6, <2>1, <2>2, <3>1
    <3> QED
      BY <1>4, <2>2, <3>2 DEF Rests
  <2>3. CASE j # k
    <3>1. /\ slRead'[j] = slRead[j] /\ slCache'[j] = slCache[j]
          /\ <<"read", j>> \in slMissed => <<"read", j>> \in slMissed'
          /\ <<"cached", j>> \in slMissed => <<"cached", j>> \in slMissed'
      <4>1. j \in ListKeys \ {k}
        BY <2>3
      <4> QED
        BY <1>4, <1>5, <1>6, <4>1
    <3>2. j \in slStale => j \in slStale'
      BY <1>1, <2>3
    <3> QED
      BY <1>9, <2>1, <3>1, <3>2 DEF Rests
  <2> QED
    BY <2>2, <2>3
<1>10. Rested'
  BY <1>1, <1>9 DEF ListInv, Rested, Unsettled
<1> QED
  BY <1>7, <1>8, <1>10 DEF ListInv

-------------------------------------------------------------------------------
(* The calls                                                               *)

\* A switch flips the row in every list that is cached.
LEMMA SwitchFlipped ==
  ASSUME ListInv, NEW call, CallRecord(call), call.what \in Switches, FlipEverywhere(call),
         slLook.tab = "schedules", slCache[ShownKey] # NoList
  PROVE  ListInv'
<1>1. /\ slRead' = [k \in ListKeys |-> NoList] /\ slCalls' = slCalls \cup {call}
      /\ slStale' = {k \in slStale : slCache[k] = NoList} /\ slLook' = slLook
  BY DEF FlipEverywhere
<1>2. ListTable(slCache) /\ slLook \in LookRecord
  BY DEF ListInv, ListTypes
<1>3. /\ slCache' = [k \in ListKeys |-> slCache'[k]]
      /\ \A k \in ListKeys :
           /\ Proper(slCache'[k])
           /\ slCache[k] # NoList => slCache'[k] # NoList
  <2> SUFFICES ASSUME NEW k \in ListKeys
               PROVE  Proper(slCache'[k]) /\ (slCache[k] # NoList => slCache'[k] # NoList)
    BY DEF FlipEverywhere
  <2>1. CASE slCache[k] = NoList
    BY <2>1 DEF FlipEverywhere, Proper
  <2>2. ASSUME slCache[k] # NoList PROVE Proper(slCache'[k]) /\ slCache'[k] # NoList
    <3>1. PICK rows : slCache'[k] = [slCache[k] EXCEPT !.rows = rows]
      BY <2>2 DEF FlipEverywhere
    <3>2. DOMAIN slCache[k] = {"rows", "total"} /\ slCache[k].total \in 0 .. Cardinality(SlIds)
      BY <1>2, <2>2 DEF ListTable, Proper
    <3>3. DOMAIN slCache'[k] = {"rows", "total"} /\ slCache'[k].total = slCache[k].total
      BY <3>1, <3>2
    <3>4. NoList.total = Cardinality(SlIds) + 1 /\ Cardinality(SlIds) \in Nat
      BY SlAssumption, FS_CardinalityType DEF NoList
    <3>5. slCache'[k].total # NoList.total
      BY <3>2, <3>3, <3>4
    <3> QED
      BY <3>2, <3>3, <3>5 DEF Proper
  <2> QED
    BY <2>1, <2>2
<1>4. ListTable(slCache') /\ ListTable(slRead')
  BY <1>1, <1>3, Blank DEF ListTable
<1>5. ListTypes'
  BY <1>1, <1>4 DEF ListInv, ListTypes
<1>6. Observed'
  <2>1. ShownKey \in ListKeys /\ ShownKey' = ShownKey
    BY <1>1, <1>2, ShownListed DEF ShownKey
  <2> QED
    BY <1>1, <1>3, <2>1 DEF Observed
<1>7. Rested'
  BY <1>1 DEF Rested, Unsettled
<1> QED
  BY <1>5, <1>6, <1>7 DEF ListInv

\* A switch is flipped before its call.
LEMMA SwitchStep ==
  ASSUME ListInv, NEW id \in SlIds, ToggleAutoBook(id) \/ ToggleIsActive(id)
  PROVE  ListInv'
<1>1. slLook.tab = "schedules" /\ slCache[ShownKey] # NoList
  BY DEF ToggleAutoBook, ToggleIsActive, SlShown
<1>2. PICK what \in Switches :
        \E on : FlipEverywhere([n |-> slUsed, what |-> what, id |-> id, on |-> on,
                               before |-> slCache, reply |-> "none"])
  BY DEF ToggleAutoBook, ToggleIsActive, Switches
<1>3. PICK on : FlipEverywhere([n |-> slUsed, what |-> what, id |-> id, on |-> on,
                                before |-> slCache, reply |-> "none"])
  BY <1>2
<1> DEFINE call == [n |-> slUsed, what |-> what, id |-> id, on |-> on,
                    before |-> slCache, reply |-> "none"]
<1>4. CallRecord(call) /\ call.what \in Switches
  BY DEF CallRecord, ListInv, ListTypes
<1> HIDE DEF call
<1> QED
  BY <1>1, <1>3, <1>4, SwitchFlipped DEF call

\* A retirement or a copy is asked for.
LEMMA CallMade ==
  ASSUME ListInv, NEW what \in {"retire", "copy"}, NEW id, CallFor(what, id)
  PROVE  ListInv'
<1> DEFINE call == [n |-> slUsed, what |-> what, id |-> id, on |-> TRUE, before |-> NoList, reply |-> "none"]
<1>1. /\ slCalls' = slCalls \cup {call}
      /\ UNCHANGED <<slRows, slCache, slStale, slAsked, slRead, slMissed, slLook>>
  BY DEF CallFor, slServer, slQueries
<1>2. CallRecord(call) /\ call.what \notin Switches /\ call.reply = "none"
  BY DEF CallRecord, Switches
<1> HIDE DEF call
<1>3. ListTypes' /\ Observed'
  BY <1>1, <1>2 DEF ListInv, ListTypes, Observed, ListFetched, ShownKey
<1>4. Unsettled(slCalls) => Unsettled(slCalls')
  BY <1>1 DEF Unsettled
<1>5. ASSUME NEW k \in ListKeys, Rests(k) PROVE Rests(k)'
  BY <1>1, <1>5 DEF Rests, ListedNow
<1>6. Rested'
  BY <1>4, <1>5 DEF ListInv, Rested
<1> QED
  BY <1>3, <1>6 DEF ListInv

\* The server serves a call.
LEMMA CallServed == ASSUME ListInv, NEW call \in slCalls, ServeCall(call) PROVE ListInv'
<1>1. UNCHANGED <<slCache, slStale, slAsked, slRead, slMissed, slLook>> /\ CallRecord(call)
  BY DEF ServeCall, slQueries, ListInv, ListTypes
<1>2. PICK reply \in {"done", "refused"} :
        /\ slCalls' = (slCalls \ {call}) \cup {[call EXCEPT !.reply = reply]}
        /\ reply = "refused" => slRows' = slRows
  BY DEF ServeCall
<1>3. PICK after : after = [call EXCEPT !.reply = reply]
  OBVIOUS
<1>4. CallRecord(after) /\ after.what = call.what /\ after.reply = reply
  BY <1>1, <1>2, <1>3 DEF CallRecord
<1>5. slCalls' = (slCalls \ {call}) \cup {after}
  BY <1>2, <1>3
<1>6. ListTypes' /\ Observed'
  BY <1>1, <1>4, <1>5 DEF ListInv, ListTypes, Observed, ListFetched, ShownKey
<1>7. CASE reply = "done"
  BY <1>4, <1>5, <1>6, <1>7 DEF ListInv, Rested, Unsettled
<1>8. CASE reply = "refused"
  <2>1. Unsettled(slCalls) => Unsettled(slCalls')
    BY <1>4, <1>5 DEF Unsettled, ServeCall
  <2>2. ASSUME NEW k \in ListKeys, Rests(k) PROVE Rests(k)'
    BY <1>1, <1>2, <1>8, <2>2 DEF Rests, ListedNow
  <2> QED
    BY <1>6, <2>1, <2>2 DEF ListInv, Rested
<1> QED
  BY <1>2, <1>7, <1>8

\* Invalidated lists are fetched again, or on their way with a mark.
LEMMA InvalidatedRests ==
  ASSUME ListInv, ListsInvalidated, slLook' = slLook, slCalls' \subseteq slCalls, ListTable(slCache')
  PROVE  ListInv'
<1>1. ListTable(slRead) /\ slLook \in LookRecord
  BY DEF ListInv, ListTypes
<1>2. ListTable(slRead') /\ slStale' = ListKeys
  BY <1>1 DEF ListsInvalidated, ListTable, Proper
<1>3. ListTypes'
  BY <1>2 DEF ListInv, ListTypes
<1>4. Observed'
  <2>1. ShownKey \in ListKeys /\ ShownKey' = ShownKey
    BY <1>1 DEF LookRecord, ListKeys, ShownKey
  <2>2. CASE RunsOn(ShownKey)
    BY <2>1, <2>2 DEF ListsInvalidated, RunsOn, Observed, ListFetched
  <2>3. CASE slLook.tab = "schedules" /\ ~RunsOn(ShownKey)
    BY <2>1, <2>3 DEF ListsInvalidated, Observed, ListFetched
  <2> QED
    BY <2>2, <2>3 DEF Observed
<1>5. \A k \in ListKeys : slRead'[k] # NoList => <<"read", k>> \in slMissed'
  BY DEF ListsInvalidated
<1>6. Rested'
  BY <1>2, <1>5 DEF Rested, Rests
<1> QED
  BY <1>3, <1>4, <1>6 DEF ListInv

\* A call succeeds, or a switch fails and its snapshot is put back.
LEMMA CallEnds ==
  ASSUME ListInv, NEW call \in slCalls, CallSucceeds(call) \/ SwitchFails(call)
  PROVE  ListInv'
<1>1. ListsInvalidated /\ slLook' = slLook /\ slCalls' \subseteq slCalls
  BY DEF CallSucceeds, SwitchFails, CallSettled
<1>2. ListTable(slCache) /\ CallRecord(call)
  BY DEF ListInv, ListTypes
<1>3. CASE CallSucceeds(call)
  BY <1>1, <1>2, <1>3, InvalidatedRests DEF CallSucceeds
<1>4. CASE SwitchFails(call)
  <2>1. ListTable(call.before)
    BY <1>2, <1>4 DEF SwitchFails, CallRecord, Switches
  <2>2. ListTable(slCache')
    BY <1>2, <1>4, <2>1 DEF SwitchFails, ListTable
  <2> QED
    BY <1>1, <2>2, InvalidatedRests
<1> QED
  BY <1>3, <1>4

\* What is missed by all is excused.
LEMMA MissedRests ==
  ASSUME slMissed' = MissedByAll, NEW k \in ListKeys
  PROVE  Rests(k)'
  BY DEF MissedByAll, Rests

\* A reply is lost.
LEMMA CallLost == ASSUME ListInv, NEW call \in slCalls, CallFails(call) PROVE ListInv'
<1>1. /\ slCalls' = slCalls \ {call} /\ call.what \notin Switches
      /\ UNCHANGED <<slRows, slCache, slStale, slAsked, slRead, slLook>>
  BY DEF CallFails, CallSettled, Switches, slServer
<1>2. ListTypes' /\ Observed'
  BY <1>1 DEF ListInv, ListTypes, Observed, ListFetched, ShownKey
<1>3. CASE call.reply = "done"
  <2>1. slMissed' = MissedByAll
    BY <1>3 DEF CallFails
  <2> QED
    BY <1>2, <2>1, MissedRests DEF ListInv, Rested
<1>4. CASE call.reply # "done"
  <2>1. slMissed' = slMissed /\ (Unsettled(slCalls) => Unsettled(slCalls'))
    BY <1>1, <1>4 DEF CallFails, Unsettled
  <2>2. ASSUME NEW k \in ListKeys, Rests(k) PROVE Rests(k)'
    BY <1>1, <2>1, <2>2 DEF Rests, ListedNow
  <2> QED
    BY <1>2, <2>1, <2>2 DEF ListInv, Rested
<1> QED
  BY <1>3, <1>4

\* Others change the schedules.
LEMMA OthersWrote == ASSUME ListInv, OthersWrite PROVE ListInv'
<1>1. ListTypes' /\ Observed'
  BY DEF OthersWrite, ListInv, ListTypes, Observed, ListFetched, ShownKey
<1>2. slMissed' = MissedByAll
  BY DEF OthersWrite
<1> QED
  BY <1>1, <1>2, MissedRests DEF ListInv, Rested

\* Nothing is fetched at the start.
LEMMA ListStart == SlInit => ListInv
<1> SUFFICES ASSUME SlInit PROVE ListInv
  OBVIOUS
<1>1. slLook \in LookRecord /\ ShownKey = <<SlIds, 0>>
  BY AtLeastOnePage, SlAssumption DEF SlInit, LookRecord, ShownKey
<1>2. ListTypes
  BY <1>1, Blank DEF SlInit, ListTypes
<1>3. Observed
  BY <1>1 DEF SlInit, Observed, ListFetched
<1>4. Rested
  BY DEF SlInit, Rested, Rests
<1> QED
  BY <1>2, <1>3, <1>4 DEF ListInv

\* Each step of the list.
LEMMA ListStep == ASSUME ListInv, [SlNext]_slVars PROVE ListInv'
<1>1. CASE UNCHANGED slVars
  <2>1. ListTypes' /\ Observed'
    BY <1>1 DEF ListInv, ListTypes, Observed, ListFetched, ShownKey, slVars, slQueries, slMutations
  <2>2. Rested'
    BY <1>1, RestedStays DEF ListInv, slVars, slServer, slQueries, slMutations
  <2> QED
    BY <2>1, <2>2 DEF ListInv
<1>2. ASSUME NEW k \in ListKeys, ReadList(k) \/ AnswerList(k) PROVE ListInv'
  BY <1>2, ListWasRead, ListWasAnswered
<1>3. ASSUME NEW id \in SlIds, RetireSchedule(id) \/ CopySchedule(id) PROVE ListInv'
  BY <1>3, CallMade DEF RetireSchedule, CopySchedule
<1>4. ASSUME NEW c \in slCalls, ServeCall(c) \/ CallSucceeds(c) \/ SwitchFails(c) \/ CallFails(c)
      PROVE  ListInv'
  BY <1>4, CallServed, CallEnds, CallLost
<1> QED
  BY <1>1, <1>2, <1>3, <1>4, TabStep, OtherTab, Refocused, OthersWrote, SwitchStep DEF SlNext

\* Once no call is pending, the page of the schedules shown is being fetched or is what the server
\* has, however flips, snapshots put back, fetches and calls followed each other, for any filters
\* and pages; save what others wrote since, a lost reply, and a fetch that ran on unseen.
THEOREM ListRests == SlSpec => []RestsOnServer
<1>1. ListInv => RestsOnServer
  <2> SUFFICES ASSUME ListInv, slLook.tab = "schedules", slCalls = {},
                      ~ListFetched(ShownKey), <<"cached", ShownKey>> \notin slMissed
               PROVE  ShownKey \notin slStale /\ slCache[ShownKey] = ListedNow(ShownKey)
    BY DEF RestsOnServer
  <2>1. ShownKey \notin slStale /\ slCache[ShownKey] # NoList
    BY DEF ListInv, Observed
  <2>2. Rests(ShownKey)
    BY ShownListed DEF ListInv, ListTypes, Rested, Unsettled
  <2> QED
    BY <2>1, <2>2 DEF Rests
<1> QED
  BY <1>1, ListStart, ListStep, PTL DEF SlSpec

-------------------------------------------------------------------------------
(* The route chain                                                         *)

Infos == {"blank", "typed"}

Origins == {"depot", "client", "direct"}

Leg == [type : LegTypes, at : Places, origin : Origins, drop : Places, info : Infos]

\* A linehaul drops off at the depot it goes to.
DropsThere(at, drop) == Nil \notin {at, drop} => drop = at

\* A leg that may stand at a place behind the legs of s before it.
StartsThere(leg, s, i) ==
  leg.origin # "depot" =>
    leg.type = "depot" /\ leg.at = Nil /\ \A k \in DOMAIN s : k < i => s[k].type # "depot"

\* ChainShape, with what comes before the first depot leg instead of its place.
Shapely(s) ==
  /\ \A i \in DOMAIN s : s[i].type = "delivery" => i = Len(s)
  /\ \A i, k \in DOMAIN s : s[i].type = "collection" /\ s[k].type = "collection" => k = i
  /\ \A i \in DOMAIN s : StartsThere(s[i], s, i)
  /\ \A i \in DOMAIN s : s[i].type = "linehaul" => DropsThere(s[i].at, s[i].drop)

HaulRow == {row \in [to : Places, drop : Places, info : Infos] : DropsThere(row.to, row.drop)}

\* Columns that a save can have left.
Column(c) ==
  /\ DOMAIN c = {"origin", "depot", "collect", "pickup", "storage", "rows", "region", "deliver", "dropOff"}
  /\ c.origin \in Origins /\ c.depot \in Places /\ c.collect \in BOOLEAN
  /\ c.pickup \in Infos /\ c.storage \in Infos /\ c.deliver \in Infos
  /\ c.region \in Places /\ c.dropOff \in Places /\ c.rows \in Seq(HaulRow)
  /\ c.origin # "depot" => c.depot = Nil /\ c.collect = FALSE

\* The inductive invariant.
ChainInv ==
  /\ form \in {"shut", "new", "detail"} /\ dropOff \in Places
  /\ legs \in Seq(Leg) /\ Shapely(legs)
  /\ columns = Nil \/ Column(columns)
  /\ form = "detail" => columns # Nil

\* A blank leg fits everywhere a leg of its type may stand.
LEMMA NewLegs ==
  /\ \A type \in LegTypes :
       /\ NewLeg(type) \in Leg /\ NewLeg(type).type = type /\ NewLeg(type).origin = "depot"
       /\ NewLeg(type).at = Nil /\ NewLeg(type).info = "blank"
  /\ \A type : NewLeg(type).at \in Places /\ NewLeg(type).info \in Infos
  BY DEF NewLeg, Leg, Places, Infos, Origins

\* A chain without legs.
LEMMA EmptyShapely == << >> \in Seq(Leg) /\ Shapely(<< >>)
  BY EmptySeq DEF Shapely

\* firstDepotIndex is where the definition says.
LEMMA FirstIsFirst ==
  ASSUME NEW s \in Seq(Leg)
  PROVE  /\ FirstDepot(s) \in Nat
         /\ FirstDepot(s) = 0 <=> ~Has(s, "depot")
         /\ FirstDepot(s) # 0 =>
              /\ FirstDepot(s) \in DOMAIN s /\ s[FirstDepot(s)].type = "depot"
              /\ \A k \in DOMAIN s : s[k].type = "depot" => FirstDepot(s) <= k
<1> DEFINE A == {i \in 1 .. Len(s) : s[i].type = "depot"}
<1>1. DOMAIN s = 1 .. Len(s) /\ Len(s) \in Nat
  BY LenProperties
<1>2. FirstDepot(s) = IF A # {} THEN Min(A) ELSE 0
  BY DEF FirstDepot, SelectInSeq
<1>3. A = {} <=> ~Has(s, "depot")
  BY <1>1 DEF Has
<1>4. ASSUME A # {} PROVE Min(A) \in A /\ \A k \in A : Min(A) <= k
  <2>1. A \in SUBSET Nat /\ IsFiniteSet(A)
    BY <1>1, PlacesFinite
  <2>2. \E i \in A : \A k \in A : i <= k
    <3> HIDE DEF A
    <3> QED
      BY <1>4, <2>1, Extremes
  <2> HIDE DEF A
  <2> QED
    BY <2>2 DEF Min
<1> HIDE DEF A
<1>5. CASE A = {}
  BY <1>2, <1>3, <1>5
<1>6. CASE A # {}
  <2>1. PICK m : m = FirstDepot(s) /\ m \in A /\ \A k \in A : m <= k
    BY <1>2, <1>4, <1>6
  <2>2. m \in DOMAIN s /\ s[m].type = "depot" /\ m \in Nat /\ m # 0
    BY <1>1, <2>1 DEF A
  <2>3. \A k \in DOMAIN s : s[k].type = "depot" => m <= k
    BY <1>1, <2>1 DEF A
  <2> QED
    BY <1>3, <1>6, <2>1, <2>2, <2>3
<1> QED
  BY <1>5, <1>6

\* The legs of a type.
LEMMA TypedLegs ==
  ASSUME NEW s \in Seq(Leg), NEW type
  PROVE  /\ OfType(s, type) \in Seq(Leg)
         /\ \A n \in DOMAIN OfType(s, type) :
              \E i \in DOMAIN s : s[i].type = type /\ OfType(s, type)[n] = s[i]
         /\ OfType(s, type) = << >> <=> ~Has(s, type)
         /\ \A i \in DOMAIN s :
              s[i].type = type /\ (\A k \in DOMAIN s : s[k].type = type => k = i) =>
                Last(OfType(s, type)) = s[i]
<1> DEFINE A == {i \in DOMAIN s : s[i].type = type}
           t == OfType(s, type)
<1>1. A \in SUBSET Nat /\ IsFiniteSet(A)
  BY PlacesFinite
<1>2. t = Selected(s, A)
  BY DEF OfType, Selected
<1>3. \A i \in A : i \in DOMAIN s /\ s[i].type = type /\ s[i] \in Leg
  BY ElementOfSeq, LenProperties
<1>4. A = {} <=> ~Has(s, type)
  BY DEF Has
<1>5. \A i \in DOMAIN s :
        s[i].type = type /\ (\A k \in DOMAIN s : s[k].type = type => k = i) => A = {i}
  OBVIOUS
<1> HIDE DEF A, t
<1>6. /\ t \in Seq(Leg) /\ Len(t) = Cardinality(A)
      /\ \A n \in DOMAIN t : \E i \in A : t[n] = s[i]
  BY <1>1, <1>2, <1>3, Chosen
<1>7. t = << >> <=> A = {}
  BY <1>1, <1>6, LenProperties, EmptySeq, FS_EmptySet
<1>8. ASSUME NEW i \in DOMAIN s, A = {i} PROVE Last(t) = s[i]
  <2>1. Cardinality(A) = 1
    BY <1>8, FS_Singleton
  <2>2. Len(t) = 1 /\ 1 \in DOMAIN t
    BY <1>6, <2>1, LenProperties
  <2> QED
    BY <1>6, <1>8, <2>2 DEF Last
<1> QED
  BY <1>3, <1>4, <1>5, <1>6, <1>7, <1>8 DEF t

\* What the walk over the legs keeps of a type.
LEMMA LastTyped ==
  ASSUME NEW s \in Seq(Leg), NEW type
  PROVE  LastOf(s, type).at \in Places /\ LastOf(s, type).info \in Infos
<1>1. CASE OfType(s, type) = << >>
  BY <1>1, NewLegs DEF LastOf
<1>2. CASE OfType(s, type) # << >>
  <2>1. PICK t \in Seq(Leg) : t = OfType(s, type)
    BY TypedLegs
  <2>2. Last(t) \in Leg
    BY <1>2, <2>1, LenProperties, ElementOfSeq DEF Last
  <2>3. LastOf(s, type) = Last(t)
    BY <1>2, <2>1 DEF LastOf
  <2> QED
    BY <2>2, <2>3 DEF Leg
<1> QED
  BY <1>1, <1>2

-------------------------------------------------------------------------------
(* Legs come, go and change                                                *)

\* A leg replaced by one of its type that fits its place.
LEMMA PatchKept ==
  ASSUME NEW s \in Seq(Leg), Shapely(s), NEW i \in DOMAIN s, NEW leg \in Leg, leg.type = s[i].type,
         StartsThere(leg, s, i), leg.type = "linehaul" => DropsThere(leg.at, leg.drop),
         NEW t, t = [s EXCEPT ![i] = leg]
  PROVE  t \in Seq(Leg) /\ Shapely(t)
<1>1. t \in Seq(Leg) /\ Len(t) = Len(s) /\ DOMAIN t = DOMAIN s
  BY LenProperties, ExceptSeq
<1>2. t[i] = leg /\ \A k \in DOMAIN s : k # i => t[k] = s[k]
  OBVIOUS
<1>3. \A k \in DOMAIN s : t[k].type = s[k].type
  BY <1>2
<1>4. \A k \in DOMAIN s : StartsThere(t[k], t, k)
  BY <1>1, <1>2, <1>3 DEF StartsThere, Shapely
<1>5. \A k \in DOMAIN t : t[k].type = "linehaul" => DropsThere(t[k].at, t[k].drop)
  BY <1>1, <1>2 DEF Shapely
<1>6. /\ \A k \in DOMAIN t : t[k].type = "delivery" => k = Len(t)
      /\ \A j, k \in DOMAIN t : t[j].type = "collection" /\ t[k].type = "collection" => k = j
  BY <1>1, <1>3 DEF Shapely
<1> QED
  BY <1>1, <1>4, <1>5, <1>6 DEF Shapely

\* r is the sequences a and b, one behind the other.
Both(S, r, a, b) ==
  /\ r \in Seq(S) /\ Len(r) = Len(a) + Len(b)
  /\ \A k \in 1 .. Len(a) + Len(b) : r[k] = IF k <= Len(a) THEN a[k] ELSE b[k - Len(a)]

\* a is s from the place m to the place n.
PartOf(S, a, s, m, n) ==
  a \in Seq(S) /\ Len(a) = n - m + 1 /\ \A k \in 1 .. n - m + 1 : a[k] = s[m + k - 1]

\* Two sequences joined, element by element.
LEMMA Joined ==
  ASSUME NEW S, NEW a, NEW b, a \in Seq(S), b \in Seq(S) PROVE Both(S, a \o b, a, b)
  BY ConcatProperties DEF Both

\* A part of a sequence, element by element.
LEMMA Part ==
  ASSUME NEW S, NEW s \in Seq(S), NEW m \in Int, NEW n \in Int, 1 <= m, m <= n + 1, n <= Len(s)
  PROVE  PartOf(S, SubSeq(s, m, n), s, m, n)
<1>1. Len(s) \in Nat /\ \A k \in 1 .. Len(s) : s[k] \in S
  BY LenProperties, ElementOfSeq
<1>2. \A k \in m .. n : s[k] \in S
  BY <1>1
<1>3. /\ SubSeq(s, m, n) \in Seq(S)
      /\ Len(SubSeq(s, m, n)) = IF m <= n THEN n - m + 1 ELSE 0
      /\ \A k \in 1 .. n - m + 1 : SubSeq(s, m, n)[k] = s[m + k - 1]
  BY <1>2, SubSeqProperties
<1>4. Len(SubSeq(s, m, n)) = n - m + 1
  BY <1>1, <1>3
<1> QED
  BY <1>3, <1>4 DEF PartOf

\* RemoveAt, element by element.
LEMMA Removed1 ==
  ASSUME NEW S, NEW s \in Seq(S), NEW i \in 1 .. Len(s), NEW r, r = RemoveAt(s, i)
  PROVE  /\ r \in Seq(S) /\ Len(r) = Len(s) - 1
         /\ \A k \in 1 .. Len(s) - 1 : r[k] = IF k < i THEN s[k] ELSE s[k + 1]
<1>1. Len(s) \in Nat
  BY LenProperties
<1>2. PICK a : a = SubSeq(s, 1, i - 1) /\ PartOf(S, a, s, 1, i - 1)
  <2>1. /\ 1 \in Int /\ i - 1 \in Int /\ 1 <= 1
        /\ 1 <= i - 1 + 1 /\ i - 1 <= Len(s)
    BY <1>1
  <2>2. PartOf(S, SubSeq(s, 1, i - 1), s, 1, i - 1)
    BY <2>1, Part, Zenon
  <2> QED
    BY <2>2
<1>3. PICK b : b = SubSeq(s, i + 1, Len(s)) /\ PartOf(S, b, s, i + 1, Len(s))
  <2>1. /\ i + 1 \in Int /\ Len(s) \in Int /\ 1 <= i + 1
        /\ i + 1 <= Len(s) + 1 /\ Len(s) <= Len(s)
    BY <1>1
  <2>2. PartOf(S, SubSeq(s, i + 1, Len(s)), s, i + 1, Len(s))
    BY <2>1, Part, Zenon
  <2> QED
    BY <2>2
<1>4. r = a \o b
  BY <1>2, <1>3 DEF RemoveAt
<1>5. Both(S, r, a, b)
  BY <1>2, <1>3, <1>4, Joined DEF PartOf
<1>6. r \in Seq(S) /\ Len(r) = Len(s) - 1 /\ Len(a) = i - 1
  BY <1>1, <1>2, <1>3, <1>5 DEF PartOf, Both
<1>7. ASSUME NEW k \in 1 .. Len(s) - 1 PROVE r[k] = IF k < i THEN s[k] ELSE s[k + 1]
  <2>1. CASE k < i
    <3>1. k \in 1 .. Len(a) + Len(b) /\ k <= Len(a) /\ k \in 1 .. i - 1 - 1 + 1 /\ 1 + k - 1 = k
      BY <1>1, <1>3, <1>6, <2>1 DEF PartOf
    <3>2. r[k] = a[k]
      BY <1>5, <3>1 DEF Both
    <3>3. a[k] = s[1 + k - 1]
      BY <1>2, <3>1 DEF PartOf
    <3> QED
      BY <2>1, <3>1, <3>2, <3>3
  <2>2. CASE ~(k < i)
    <3>1. /\ k \in 1 .. Len(a) + Len(b) /\ ~(k <= Len(a))
          /\ k - Len(a) \in 1 .. Len(s) - (i + 1) + 1 /\ i + 1 + (k - Len(a)) - 1 = k + 1
      BY <1>1, <1>3, <1>6, <2>2 DEF PartOf
    <3>2. r[k] = b[k - Len(a)]
      BY <1>5, <3>1 DEF Both
    <3>3. b[k - Len(a)] = s[i + 1 + (k - Len(a)) - 1]
      BY <1>3, <3>1 DEF PartOf
    <3> QED
      BY <3>1, <3>2, <3>3, <2>2
  <2> QED
    BY <2>1, <2>2
<1> QED
  BY <1>6, <1>7

\* t is s with e put in at i.
With(t, s, i, e) ==
  /\ Len(t) = Len(s) + 1
  /\ \A k \in 1 .. Len(s) + 1 : t[k] = IF k < i THEN s[k] ELSE IF k = i THEN e ELSE s[k - 1]

\* InsertAt, element by element.
LEMMA Inserted1 ==
  ASSUME NEW S, NEW s \in Seq(S), NEW i \in 1 .. Len(s) + 1, NEW e \in S, NEW t, t = InsertAt(s, i, e)
  PROVE  t \in Seq(S) /\ With(t, s, i, e)
<1>1. Len(s) \in Nat
  BY LenProperties
<1>2. PICK a : a = SubSeq(s, 1, i - 1) /\ PartOf(S, a, s, 1, i - 1)
  <2>1. /\ 1 \in Int /\ i - 1 \in Int /\ 1 <= 1
        /\ 1 <= i - 1 + 1 /\ i - 1 <= Len(s)
    BY <1>1
  <2>2. PartOf(S, SubSeq(s, 1, i - 1), s, 1, i - 1)
    BY <2>1, Part, Zenon
  <2> QED
    BY <2>2
<1>3. PICK b : b = SubSeq(s, i, Len(s)) /\ PartOf(S, b, s, i, Len(s))
  <2>1. /\ i \in Int /\ Len(s) \in Int /\ 1 <= i
        /\ i <= Len(s) + 1 /\ Len(s) <= Len(s)
    BY <1>1
  <2>2. PartOf(S, SubSeq(s, i, Len(s)), s, i, Len(s))
    BY <2>1, Part, Zenon
  <2> QED
    BY <2>2
<1>4. t = (a \o <<e>>) \o b
  BY <1>2, <1>3 DEF InsertAt
<1>5. PICK m : m = Append(a, e)
  OBVIOUS
<1>6. /\ m \in Seq(S) /\ Len(m) = i /\ m[i] = e /\ Len(a) = i - 1
      /\ \A k \in 1 .. Len(a) : m[k] = a[k]
  <2>1. a \in Seq(S) /\ Len(a) = i - 1
    BY <1>2 DEF PartOf
  <2> QED
    BY <1>5, <2>1, AppendProperties
<1>7. m = a \o <<e>>
  <2>1. a \in Seq(S)
    BY <1>2 DEF PartOf
  <2> QED
    BY <1>5, <2>1, AppendIsConcat
<1>8. Both(S, t, m, b)
  BY <1>3, <1>4, <1>6, <1>7, Joined DEF PartOf
<1>9. t \in Seq(S) /\ Len(t) = Len(s) + 1
  BY <1>1, <1>3, <1>6, <1>8 DEF PartOf, Both
<1>10. ASSUME NEW k \in 1 .. Len(s) + 1
       PROVE  t[k] = IF k < i THEN s[k] ELSE IF k = i THEN e ELSE s[k - 1]
  <2>1. k \in 1 .. Len(m) + Len(b) /\ k \in Int /\ i \in Int
    BY <1>1, <1>3, <1>6 DEF PartOf
  <2>2. CASE k < i
    <3>1. k <= Len(m) /\ k \in 1 .. Len(a) /\ k \in 1 .. i - 1 - 1 + 1 /\ 1 + k - 1 = k
      BY <1>6, <2>1, <2>2
    <3>2. t[k] = m[k] /\ m[k] = a[k]
      BY <1>6, <1>8, <2>1, <3>1 DEF Both
    <3>3. a[k] = s[1 + k - 1]
      BY <1>2, <3>1 DEF PartOf
    <3> QED
      BY <2>2, <3>1, <3>2, <3>3
  <2>3. CASE k = i
    BY <1>6, <1>8, <2>1, <2>3 DEF Both
  <2>4. CASE i < k
    <3>1. /\ ~(k <= Len(m)) /\ k - Len(m) \in 1 .. Len(s) - i + 1 /\ i + (k - Len(m)) - 1 = k - 1
      BY <1>1, <1>6, <2>4
    <3>2. t[k] = b[k - Len(m)]
      BY <1>8, <2>1, <3>1 DEF Both
    <3>3. b[k - Len(m)] = s[i + (k - Len(m)) - 1]
      BY <1>3, <3>1 DEF PartOf
    <3> QED
      BY <2>1, <2>4, <3>1, <3>2, <3>3
  <2> QED
    BY <2>1, <2>2, <2>3, <2>4
<1> QED
  BY <1>9, <1>10 DEF With

\* Append as an insertion at the end.
LEMMA Appended1 ==
  ASSUME NEW S, NEW s \in Seq(S), NEW i, i = Len(s) + 1, NEW e \in S, NEW t, t = Append(s, e)
  PROVE  t \in Seq(S) /\ With(t, s, i, e)
<1>1. /\ t \in Seq(S) /\ Len(t) = Len(s) + 1 /\ t[Len(s) + 1] = e
      /\ \A k \in 1 .. Len(s) : t[k] = s[k]
  BY AppendProperties
<1>2. Len(s) \in Nat
  BY LenProperties
<1>3. ASSUME NEW k \in 1 .. Len(s) + 1
      PROVE  t[k] = IF k < i THEN s[k] ELSE IF k = i THEN e ELSE s[k - 1]
  <2>1. CASE k < i
    BY <1>1, <1>2, <2>1
  <2>2. CASE ~(k < i)
    <3>1. k = i
      BY <1>2, <2>2
    <3> QED
      BY <1>1, <2>2, <3>1
  <2> QED
    BY <2>1, <2>2
<1> QED
  BY <1>1, <1>3 DEF With

\* t has legs of s in another order, some left out, and perhaps a fresh leg: t[j] is leg, or the leg
\* of s at f[j].
Reordered(s, t, leg, f) ==
  /\ \A j \in DOMAIN t : (f[j] = 0 /\ t[j] = leg) \/ (f[j] \in DOMAIN s /\ t[j] = s[f[j]])
  /\ \A j, k \in DOMAIN t : f[j] = f[k] => j = k
  /\ \A j \in DOMAIN t : t[j].type = "delivery" => j = Len(t)
  /\ leg.type = "collection" => ~Has(s, "collection")
  /\ \A j, k \in DOMAIN t :
       j < k /\ t[j].type = "depot" /\ t[k].type = "depot" => f[j] # 0 /\ (f[k] = 0 \/ f[j] < f[k])
  /\ leg.origin = "depot" /\ leg.at = Nil

\* A chain whose legs are those of a shapely one in an order that keeps its shape.
LEMMA Rearranged ==
  ASSUME NEW s \in Seq(Leg), Shapely(s), NEW t \in Seq(Leg), NEW leg \in Leg, NEW f,
         Reordered(s, t, leg, f)
  PROVE  Shapely(t)
<1> USE DEF Reordered
<1>1. \A j, k \in DOMAIN t : t[j].type = "collection" /\ t[k].type = "collection" => k = j
  BY DEF Shapely, Has
<1>2. ASSUME NEW k \in DOMAIN t PROVE StartsThere(t[k], t, k)
  <2>1. CASE f[k] = 0
    BY <2>1, LenProperties DEF StartsThere
  <2>2. CASE t[k].origin # "depot" /\ f[k] # 0
    <3>1. f[k] \in DOMAIN s /\ t[k] = s[f[k]] /\ StartsThere(s[f[k]], s, f[k])
      BY <2>2 DEF Shapely
    <3>2. t[k].type = "depot" /\ t[k].at = Nil /\ \A j \in DOMAIN s : j < f[k] => s[j].type # "depot"
      BY <2>2, <3>1 DEF StartsThere
    <3>3. ASSUME NEW j \in DOMAIN t, j < k, t[j].type = "depot" PROVE FALSE
      <4>1. f[j] # 0 /\ f[j] < f[k]
        BY <2>2, <3>2, <3>3
      <4>2. f[j] \in DOMAIN s /\ t[j] = s[f[j]]
        BY <4>1
      <4> QED
        BY <3>2, <3>3, <4>1, <4>2
    <3> QED
      BY <3>2, <3>3 DEF StartsThere
  <2> QED
    BY <2>1, <2>2 DEF StartsThere
<1>3. \A k \in DOMAIN t : t[k].type = "linehaul" => DropsThere(t[k].at, t[k].drop)
  BY DEF Shapely, DropsThere
<1> QED
  BY <1>1, <1>2, <1>3 DEF Shapely

\* removeLeg keeps the shape: a later depot leg is never the client's.
LEMMA RemovedKept ==
  ASSUME NEW s \in Seq(Leg), Shapely(s), NEW i \in DOMAIN s
  PROVE  RemoveAt(s, i) \in Seq(Leg) /\ Shapely(RemoveAt(s, i))
<1>1. PICK r : r = RemoveAt(s, i)
  OBVIOUS
<1>2. Len(s) \in Nat /\ DOMAIN s = 1 .. Len(s) /\ i \in 1 .. Len(s)
  BY LenProperties
<1>3. /\ r \in Seq(Leg) /\ Len(r) = Len(s) - 1
      /\ \A k \in 1 .. Len(s) - 1 : r[k] = IF k < i THEN s[k] ELSE s[k + 1]
  BY <1>1, <1>2, Removed1
<1>4. DOMAIN r = 1 .. Len(s) - 1
  BY <1>3, LenProperties
<1>5. PICK f : f = [k \in DOMAIN r |-> IF k < i THEN k ELSE k + 1]
  OBVIOUS
<1>6. \A k \in DOMAIN r : f[k] \in DOMAIN s /\ r[k] = s[f[k]]
  BY <1>2, <1>3, <1>4, <1>5
<1>7. /\ \A j, k \in DOMAIN r : f[j] = f[k] => j = k
      /\ \A j, k \in DOMAIN r : j < k => f[j] # 0 /\ f[j] < f[k]
  BY <1>2, <1>4, <1>5
<1>8. \A k \in DOMAIN r : r[k].type = "delivery" => k = Len(r)
  BY <1>2, <1>3, <1>4, <1>5, <1>6 DEF Shapely
<1>9. PICK leg \in Leg : leg.type = "delivery" /\ leg.origin = "depot" /\ leg.at = Nil
  BY NewLegs DEF LegTypes
<1>10. Shapely(r)
  <2>1. \A j \in DOMAIN r : (f[j] = 0 /\ r[j] = leg) \/ (f[j] \in DOMAIN s /\ r[j] = s[f[j]])
    BY <1>6
  <2>2. leg.type = "collection" => ~Has(s, "collection")
    BY <1>9
  <2>3. \A j, k \in DOMAIN r :
          j < k /\ r[j].type = "depot" /\ r[k].type = "depot" => f[j] # 0 /\ (f[k] = 0 \/ f[j] < f[k])
    BY <1>7
  <2> QED
    <3>1. Reordered(s, r, leg, f)
      BY <1>7, <1>8, <1>9, <2>1, <2>2, <2>3 DEF Reordered
    <3> QED
      BY <1>3, <1>9, <3>1, Rearranged
<1> QED
  BY <1>1, <1>3, <1>10

\* A fresh leg at i, with nothing but a delivery behind it.
FreshRows(s, i, leg) ==
  /\ i \in 1 .. Len(s) + 1
  /\ i <= Len(s) => i = Len(s) /\ s[i].type = "delivery"
  /\ Len(s) < i => \A k \in DOMAIN s : s[k].type # "delivery"
  /\ leg.origin = "depot" /\ leg.at = Nil
  /\ leg.type = "collection" => ~Has(s, "collection")
  /\ leg.type = "delivery" => ~Has(s, "delivery")

\* A new leg where it may stand keeps the shape.
LEMMA InsertKept ==
  ASSUME NEW s \in Seq(Leg), Shapely(s), NEW i, NEW leg \in Leg, FreshRows(s, i, leg),
         NEW t \in Seq(Leg), With(t, s, i, leg)
  PROVE  Shapely(t)
<1>1. PICK n \in Nat : /\ n = Len(s) /\ DOMAIN s = 1 .. n
                       /\ DOMAIN t = 1 .. n + 1 /\ Len(t) = n + 1
                       /\ \A k \in 1 .. n + 1 :
                            t[k] = IF k < i THEN s[k] ELSE IF k = i THEN leg ELSE s[k - 1]
  BY LenProperties DEF With
<1>2. /\ i \in 1 .. n + 1
      /\ i <= n => i = n /\ s[n].type = "delivery"
      /\ n < i => \A k \in DOMAIN s : s[k].type # "delivery"
      /\ leg.origin = "depot" /\ leg.at = Nil
      /\ leg.type = "collection" => ~Has(s, "collection")
      /\ leg.type = "delivery" => ~Has(s, "delivery")
  BY <1>1 DEF FreshRows
<1>3. PICK f : f = [k \in 1 .. n + 1 |-> IF k < i THEN k ELSE IF k = i THEN 0 ELSE k - 1]
  OBVIOUS
<1>4. \A k \in DOMAIN t : (f[k] = 0 /\ t[k] = leg) \/ (f[k] \in DOMAIN s /\ t[k] = s[f[k]])
  BY <1>1, <1>2, <1>3
<1>5. \A j, k \in DOMAIN t : f[j] = f[k] => j = k
  BY <1>1, <1>2, <1>3
<1>6. ASSUME NEW j \in DOMAIN t, t[j].type = "delivery" PROVE j = Len(t)
  <2>1. CASE j < i
    <3>1. j \in DOMAIN s /\ s[j].type = "delivery" /\ t[j] = s[j]
      BY <1>1, <1>2, <1>6, <2>1
    <3>2. j = Len(s)
      BY <1>1, <1>2, <3>1 DEF Shapely
    <3>3. Len(s) = n
      BY <1>1, <1>2, LenProperties
    <3> QED
      BY <1>1, <1>2, <2>1, <3>1, <3>2, <3>3
  <2>2. CASE j = i
    <3>1. Has(s, "delivery") \/ n < i
      BY <1>1, <1>2 DEF Has
    <3> QED
      BY <1>1, <1>2, <1>6, <2>2, <3>1
  <2>3. CASE i < j
    BY <1>1, <1>2, <2>3
  <2> QED
    BY <1>1, <1>2, <2>1, <2>2, <2>3
<1>7. \A j, k \in DOMAIN t :
        j < k /\ t[j].type = "depot" /\ t[k].type = "depot" => f[j] # 0 /\ (f[k] = 0 \/ f[j] < f[k])
  <2>1. ASSUME NEW k \in DOMAIN t, i < k PROVE t[k].type # "depot"
    <3>1. k - 1 = n /\ t[k] = s[k - 1]
      BY <1>1, <1>2, <2>1
    <3> QED
      BY <1>1, <1>2, <2>1, <3>1
  <2>2. \A j, k \in DOMAIN t : j < k /\ ~(i < k) => f[j] # 0 /\ (f[k] = 0 \/ f[j] < f[k])
    BY <1>1, <1>2, <1>3
  <2> QED
    BY <1>1, <1>2, <2>1, <2>2
<1>8. Reordered(s, t, leg, f)
  BY <1>1, <1>2, <1>4, <1>5, <1>6, <1>7, Zenon DEF Reordered
<1> QED
  BY <1>1, <1>2, <1>8, Rearranged

\* A new leg is the last, or the last before the delivery.
LEMMA AddedKept ==
  ASSUME NEW s \in Seq(Leg), Shapely(s), NEW type \in LegTypes, MayAdd(s, type)
  PROVE  WithLeg(s, NewLeg(type)) \in Seq(Leg) /\ Shapely(WithLeg(s, NewLeg(type)))
<1>1. PICK leg \in Leg : leg = NewLeg(type) /\ leg.type = type /\ leg.origin = "depot" /\ leg.at = Nil
  BY NewLegs
<1>2. PICK n \in Nat : n = Len(s) /\ DOMAIN s = 1 .. n
  BY LenProperties
<1>3. /\ leg.type = "collection" => ~Has(s, "collection")
      /\ leg.type = "delivery" => ~Has(s, "delivery")
  BY <1>1 DEF MayAdd
<1>4. PICK t : t = WithLeg(s, leg)
  OBVIOUS
<1>5. t \in Seq(Leg) /\ Shapely(t)
  <2>1. CASE TerminalDelivery(s)
    <3>1. n \in 1 .. n + 1 /\ n \in 1 .. Len(s) + 1 /\ s[n].type = "delivery"
      <4>1. Len(s) \in Nat \ {0}
        BY <2>1, EmptySeq DEF TerminalDelivery
      <4> QED
        BY <1>2, <2>1, <4>1 DEF TerminalDelivery, Last
    <3>2. t = InsertAt(s, n, leg)
      BY <1>2, <1>4, <2>1 DEF WithLeg
    <3>3. t \in Seq(Leg) /\ With(t, s, n, leg)
      BY <1>1, <3>1, <3>2, Inserted1
    <3>4. FreshRows(s, n, leg)
      BY <1>1, <1>2, <1>3, <3>1 DEF FreshRows
    <3> QED
      BY <1>1, <3>3, <3>4, InsertKept
  <2>2. CASE ~TerminalDelivery(s)
    <3>1. PICK i \in 1 .. n + 1 : i = n + 1
      BY <1>2
    <3>2. ASSUME NEW k \in DOMAIN s, s[k].type = "delivery" PROVE FALSE
      <4>1. k = Len(s)
        BY <3>2 DEF Shapely
      <4>2. s # << >>
        BY <1>2, <4>1, EmptySeq
      <4> QED
        BY <2>2, <3>2, <4>1, <4>2 DEF TerminalDelivery, Last
    <3>3. t = Append(s, leg)
      BY <1>4, <2>2 DEF WithLeg
    <3>4. t \in Seq(Leg) /\ With(t, s, i, leg)
      BY <1>1, <1>2, <3>1, <3>3, Appended1
    <3>5. FreshRows(s, i, leg)
      BY <1>1, <1>2, <1>3, <3>1, <3>2 DEF FreshRows
    <3> QED
      BY <1>1, <3>4, <3>5, InsertKept
  <2> QED
    BY <2>1, <2>2
<1> QED
  BY <1>1, <1>4, <1>5

\* A linehaul takes the place of another.
LEMMA MovedKept ==
  ASSUME NEW s \in Seq(Leg), Shapely(s), NEW i \in DOMAIN s, NEW k \in DOMAIN s, i # k,
         s[i].type = "linehaul", s[k].type = "linehaul"
  PROVE  /\ InsertAt(RemoveAt(s, i), k, s[i]) \in Seq(Leg)
         /\ Shapely(InsertAt(RemoveAt(s, i), k, s[i]))
<1>1. PICK r : r = RemoveAt(s, i)
  OBVIOUS
<1>2. PICK t : t = InsertAt(r, k, s[i])
  OBVIOUS
<1>3. Len(s) \in Nat /\ DOMAIN s = 1 .. Len(s) /\ i \in 1 .. Len(s) /\ k \in 1 .. Len(s) /\ s[i] \in Leg
  BY LenProperties, ElementOfSeq
<1>4. /\ r \in Seq(Leg) /\ Len(r) = Len(s) - 1
      /\ \A j \in 1 .. Len(s) - 1 : r[j] = IF j < i THEN s[j] ELSE s[j + 1]
  BY <1>1, <1>3, Removed1
<1>5. /\ t \in Seq(Leg) /\ Len(t) = Len(s)
      /\ \A j \in 1 .. Len(s) : t[j] = IF j < k THEN r[j] ELSE IF j = k THEN s[i] ELSE r[j - 1]
  <2>1. k \in 1 .. Len(r) + 1 /\ Len(r) + 1 = Len(s)
    BY <1>3, <1>4
  <2>2. t \in Seq(Leg) /\ With(t, r, k, s[i])
    BY <1>2, <1>3, <1>4, <2>1, Inserted1
  <2> QED
    BY <2>1, <2>2 DEF With
<1>6. DOMAIN t = 1 .. Len(s)
  BY <1>5, LenProperties
<1>7. PICK f : f = [j \in DOMAIN t |-> IF j = k THEN i
                                      ELSE IF j < k THEN IF j < i THEN j ELSE j + 1
                                      ELSE IF j - 1 < i THEN j - 1 ELSE j]
  OBVIOUS
<1>8. ASSUME NEW j \in DOMAIN t PROVE f[j] \in DOMAIN s /\ t[j] = s[f[j]]
  <2>1. CASE j < k
    <3>1. j \in 1 .. Len(s) - 1 /\ t[j] = r[j]
      BY <1>3, <1>5, <1>6, <2>1
    <3> QED
      BY <1>3, <1>4, <1>6, <1>7, <2>1, <3>1
  <2>2. CASE j = k
    BY <1>3, <1>5, <1>6, <1>7, <2>2
  <2>3. CASE k < j
    <3>1. j - 1 \in 1 .. Len(s) - 1 /\ t[j] = r[j - 1]
      BY <1>3, <1>5, <1>6, <2>3
    <3> QED
      BY <1>3, <1>4, <1>6, <1>7, <2>3, <3>1
  <2> QED
    BY <1>3, <1>6, <2>1, <2>2, <2>3
<1>9. \A j, m \in DOMAIN t : f[j] = f[m] => j = m
  BY <1>3, <1>6, <1>7
<1>10. \A j, m \in DOMAIN t : j < m /\ j # k /\ m # k => f[j] < f[m]
  BY <1>3, <1>6, <1>7
<1>11. t[k].type = "linehaul"
  BY <1>3, <1>5
<1>12. ASSUME NEW j \in DOMAIN t, t[j].type = "delivery" PROVE j = Len(t)
  <2>1. f[j] = Len(s)
    BY <1>8, <1>12 DEF Shapely
  <2>2. j # k /\ i # Len(s) /\ k # Len(s)
    <3>1. s[Len(s)].type = "delivery"
      BY <1>8, <1>12, <2>1
    <3> QED
      BY <1>11, <1>12, <3>1
  <2> QED
    BY <1>3, <1>5, <1>6, <1>7, <2>1, <2>2
<1>13. PICK leg \in Leg : leg.type = "delivery" /\ leg.origin = "depot" /\ leg.at = Nil
  BY NewLegs DEF LegTypes
<1>14. Shapely(t)
  <2>1. \A j \in DOMAIN t : (f[j] = 0 /\ t[j] = leg) \/ (f[j] \in DOMAIN s /\ t[j] = s[f[j]])
    BY <1>8
  <2>2. leg.type = "collection" => ~Has(s, "collection")
    BY <1>13
  <2>3. \A j, m \in DOMAIN t :
          j < m /\ t[j].type = "depot" /\ t[m].type = "depot" => f[j] # 0 /\ (f[m] = 0 \/ f[j] < f[m])
    BY <1>3, <1>8, <1>10, <1>11
  <2> QED
    <3>1. Reordered(s, t, leg, f)
      BY <1>9, <1>12, <1>13, <2>1, <2>2, <2>3, Zenon DEF Reordered
    <3> QED
      BY <1>5, <1>13, <3>1, Rearranged
<1> QED
  BY <1>1, <1>2, <1>5, <1>14

-------------------------------------------------------------------------------
(* The legs of columns                                                     *)

\* t is a, b, c and d, one behind the other.
Four(t, a, b, c, d) ==
  /\ Len(t) = Len(a) + Len(b) + Len(c) + Len(d)
  /\ \A i \in DOMAIN t : \/ i \in DOMAIN a /\ t[i] = a[i]
                         \/ i - Len(a) \in DOMAIN b /\ t[i] = b[i - Len(a)]
                         \/ i - (Len(a) + Len(b)) \in DOMAIN c /\ t[i] = c[i - (Len(a) + Len(b))]
                         \/ /\ i - (Len(a) + Len(b) + Len(c)) \in DOMAIN d
                            /\ t[i] = d[i - (Len(a) + Len(b) + Len(c))]
  /\ \A i \in DOMAIN a : i \in DOMAIN t /\ t[i] = a[i]
  /\ \A i \in DOMAIN b : Len(a) + i \in DOMAIN t /\ t[Len(a) + i] = b[i]
  /\ \A i \in DOMAIN d : /\ Len(a) + Len(b) + Len(c) + i \in DOMAIN t
                         /\ t[Len(a) + Len(b) + Len(c) + i] = d[i]

\* Four sequences joined, element by element.
LEMMA FourJoined ==
  ASSUME NEW S, NEW a, NEW b, NEW c, NEW d, a \in Seq(S), b \in Seq(S), c \in Seq(S), d \in Seq(S)
  PROVE  ((a \o b) \o c) \o d \in Seq(S) /\ Four(((a \o b) \o c) \o d, a, b, c, d)
<1>1. PICK ab : ab = a \o b /\ Both(S, ab, a, b)
  BY Joined
<1>2. PICK abc : abc = ab \o c /\ Both(S, abc, ab, c)
  <2>1. ab \in Seq(S)
    BY <1>1 DEF Both
  <2> QED
    BY <2>1, Joined
<1>3. PICK t : t = abc \o d /\ Both(S, t, abc, d)
  <2>1. abc \in Seq(S)
    BY <1>2 DEF Both
  <2> QED
    BY <2>1, Joined
<1>4. PICK p \in Nat : p = Len(a) /\ DOMAIN a = 1 .. p
  BY LenProperties
<1>5. PICK q \in Nat : q = Len(b) /\ DOMAIN b = 1 .. q
  BY LenProperties
<1>6. PICK r \in Nat : r = Len(c) /\ DOMAIN c = 1 .. r
  BY LenProperties
<1>7. PICK u \in Nat : u = Len(d) /\ DOMAIN d = 1 .. u
  BY LenProperties
<1>8. /\ Len(ab) = p + q
      /\ \A k \in 1 .. p + q : ab[k] = IF k <= p THEN a[k] ELSE b[k - p]
  BY <1>1, <1>4, <1>5 DEF Both
<1>9. /\ Len(abc) = p + q + r
      /\ \A k \in 1 .. p + q + r : abc[k] = IF k <= p + q THEN ab[k] ELSE c[k - (p + q)]
  BY <1>2, <1>6, <1>8 DEF Both
<1>10. /\ t \in Seq(S) /\ Len(t) = p + q + r + u
       /\ \A k \in 1 .. p + q + r + u : t[k] = IF k <= p + q + r THEN abc[k] ELSE d[k - (p + q + r)]
  BY <1>3, <1>7, <1>9 DEF Both
<1>11. DOMAIN t = 1 .. p + q + r + u
  BY <1>10, LenProperties
<1>12. ASSUME NEW k \in DOMAIN t
       PROVE  t[k] = IF k <= p THEN a[k]
                     ELSE IF k <= p + q THEN b[k - p]
                     ELSE IF k <= p + q + r THEN c[k - (p + q)] ELSE d[k - (p + q + r)]
  BY <1>8, <1>9, <1>10, <1>11
<1>13. \A i \in 1 .. p : i \in DOMAIN t /\ t[i] = a[i]
  BY <1>11, <1>12
<1>14. \A i \in 1 .. q : p + i \in DOMAIN t /\ t[p + i] = b[i]
  <2> SUFFICES ASSUME NEW i \in 1 .. q PROVE p + i \in DOMAIN t /\ t[p + i] = b[i]
    OBVIOUS
  <2>1. p + i \in DOMAIN t /\ ~(p + i <= p) /\ p + i <= p + q /\ (p + i) - p = i
    BY <1>11
  <2> QED
    BY <2>1, <1>12
<1>15. \A i \in 1 .. u : p + q + r + i \in DOMAIN t /\ t[p + q + r + i] = d[i]
  <2> SUFFICES ASSUME NEW i \in 1 .. u PROVE p + q + r + i \in DOMAIN t /\ t[p + q + r + i] = d[i]
    OBVIOUS
  <2>1. /\ p + q + r + i \in DOMAIN t /\ (p + q + r + i) - (p + q + r) = i
        /\ ~(p + q + r + i <= p) /\ ~(p + q + r + i <= p + q) /\ ~(p + q + r + i <= p + q + r)
    BY <1>11
  <2> QED
    BY <2>1, <1>12
<1>16. ASSUME NEW i \in DOMAIN t
       PROVE  \/ i \in 1 .. p /\ t[i] = a[i]
              \/ i - p \in 1 .. q /\ t[i] = b[i - p]
              \/ i - (p + q) \in 1 .. r /\ t[i] = c[i - (p + q)]
              \/ i - (p + q + r) \in 1 .. u /\ t[i] = d[i - (p + q + r)]
  <2>1. CASE i <= p
    BY <1>11, <1>12, <2>1
  <2>2. CASE p < i /\ i <= p + q
    BY <1>11, <1>12, <2>2
  <2>3. CASE p + q < i /\ i <= p + q + r
    <3>1. i - (p + q) \in 1 .. r /\ ~(i <= p) /\ ~(i <= p + q)
      BY <1>11, <2>3
    <3> QED
      BY <1>12, <2>3, <3>1
  <2>4. CASE p + q + r < i
    <3>1. i - (p + q + r) \in 1 .. u /\ ~(i <= p) /\ ~(i <= p + q) /\ ~(i <= p + q + r)
      BY <1>11, <2>4
    <3> QED
      BY <1>12, <3>1
  <2> QED
    BY <1>11, <2>1, <2>2, <2>3, <2>4
<1>17. Four(t, a, b, c, d)
  BY <1>4, <1>5, <1>6, <1>7, <1>10, <1>13, <1>14, <1>15, <1>16, Zenon DEF Four
<1> QED
  BY <1>1, <1>2, <1>3, <1>10, <1>17, Zenon

\* The collection, depot and delivery legs of columns, as far as there are any.
CollectionLeg(c) == [NewLeg("collection") EXCEPT !.info = c.pickup]

DepotLeg(c) ==
  [NewLeg("depot") EXCEPT !.origin = c.origin, !.info = c.storage,
                          !.at = IF c.origin = "depot" THEN c.depot ELSE Nil]

HaulLeg(row) == [NewLeg("linehaul") EXCEPT !.at = row.to, !.drop = row.drop, !.info = row.info]

DeliveryLeg(c) == [NewLeg("delivery") EXCEPT !.at = c.region, !.info = c.deliver]

Collects(c) == c.collect /\ c.depot # Nil

NoDepotLeg(c) == c.origin = "depot" /\ c.depot = Nil

\* The three single legs that the columns give.
LEMMA LegsOfColumns ==
  ASSUME NEW c, Column(c)
  PROVE  /\ CollectionLeg(c) \in Leg /\ CollectionLeg(c).type = "collection"
         /\ CollectionLeg(c).origin = "depot" /\ CollectionLeg(c).info = c.pickup
         /\ DepotLeg(c) \in Leg /\ DepotLeg(c).type = "depot"
         /\ DepotLeg(c).origin = c.origin /\ DepotLeg(c).info = c.storage
         /\ DepotLeg(c).at = c.depot
         /\ DeliveryLeg(c) \in Leg /\ DeliveryLeg(c).type = "delivery"
         /\ DeliveryLeg(c).origin = "depot" /\ DeliveryLeg(c).at = c.region
         /\ DeliveryLeg(c).info = c.deliver
<1>1. /\ c.pickup \in Infos /\ c.storage \in Infos /\ c.deliver \in Infos
      /\ c.origin \in Origins /\ c.depot \in Places /\ c.region \in Places
      /\ c.origin # "depot" => c.depot = Nil
  BY DEF Column
<1>2. /\ CollectionLeg(c) \in Leg /\ CollectionLeg(c).type = "collection"
      /\ CollectionLeg(c).origin = "depot" /\ CollectionLeg(c).info = c.pickup
  BY <1>1 DEF CollectionLeg, NewLeg, Leg, LegTypes, Places, Infos, Origins
<1>3. /\ DepotLeg(c) \in Leg /\ DepotLeg(c).type = "depot"
      /\ DepotLeg(c).origin = c.origin /\ DepotLeg(c).info = c.storage
      /\ DepotLeg(c).at = c.depot
  BY <1>1 DEF DepotLeg, NewLeg, Leg, LegTypes, Places, Infos, Origins
<1>4. /\ DeliveryLeg(c) \in Leg /\ DeliveryLeg(c).type = "delivery"
      /\ DeliveryLeg(c).origin = "depot" /\ DeliveryLeg(c).at = c.region
      /\ DeliveryLeg(c).info = c.deliver
  BY <1>1 DEF DeliveryLeg, NewLeg, Leg, LegTypes, Places, Infos, Origins
<1> QED
  BY <1>2, <1>3, <1>4

\* The leg of a linehaul row.
LEMMA HaulLegOf ==
  ASSUME NEW row \in HaulRow
  PROVE  /\ HaulLeg(row) \in Leg /\ HaulLeg(row).type = "linehaul" /\ HaulLeg(row).origin = "depot"
         /\ DropsThere(HaulLeg(row).at, HaulLeg(row).drop)
<1>1. row.to \in Places /\ row.drop \in Places /\ row.info \in Infos /\ DropsThere(row.to, row.drop)
  BY DEF HaulRow
<1>2. /\ HaulLeg(row) \in Leg /\ HaulLeg(row).type = "linehaul" /\ HaulLeg(row).origin = "depot"
      /\ HaulLeg(row).at = row.to /\ HaulLeg(row).drop = row.drop
  BY <1>1 DEF HaulLeg, NewLeg, Leg, LegTypes, Places, Infos, Origins
<1> QED
  BY <1>1, <1>2

\* What a save needs to know of the legs it was opened with.
Seeds(t, c) ==
  /\ t \in Seq(Leg)
  /\ \A i \in DOMAIN t : t[i].type = "delivery" => i = Len(t)
  /\ Len(t) \in DOMAIN t /\ t[Len(t)] = DeliveryLeg(c)
  /\ \A i \in DOMAIN t : t[i].type = "collection" => i = 1 /\ Collects(c) /\ t[i] = CollectionLeg(c)
  /\ Collects(c) => 1 \in DOMAIN t /\ t[1] = CollectionLeg(c)
  /\ \A i \in DOMAIN t : t[i].type = "depot" => ~NoDepotLeg(c) /\ t[i] = DepotLeg(c)
  /\ \A i, k \in DOMAIN t : t[i].type = "depot" /\ t[k].type = "depot" => i = k
  /\ ~NoDepotLeg(c) => \E i \in DOMAIN t : t[i] = DepotLeg(c)
  /\ \A i \in DOMAIN t :
       t[i].type = "linehaul" => t[i].origin = "depot" /\ DropsThere(t[i].at, t[i].drop)

Single(a, leg) == a \in Seq(Leg) /\ Len(a) = 1 /\ DOMAIN a = {1} /\ a[1] = leg

Bare(a) == a \in Seq(Leg) /\ Len(a) = 0 /\ DOMAIN a = {}

\* A chain of one leg.
LEMMA OneLeg == ASSUME NEW leg, leg \in Leg PROVE Single(<<leg>>, leg)
  BY DEF Single

\* A chain without one.
LEMMA NoLeg == Bare(<< >>)
  BY DEF Bare

\* The linehaul legs of the stored rows.
LEMMA HaulLegs ==
  ASSUME NEW rows \in Seq(HaulRow), NEW h, h = [i \in DOMAIN rows |-> HaulLeg(rows[i])]
  PROVE  h \in Seq(Leg) /\ \A i \in DOMAIN h : /\ h[i].type = "linehaul" /\ h[i].origin = "depot"
                                               /\ DropsThere(h[i].at, h[i].drop)
<1>1. PICK n \in Nat : n = Len(rows) /\ DOMAIN rows = 1 .. n /\ \A i \in 1 .. n : rows[i] \in HaulRow
  BY LenProperties, ElementOfSeq
<1>2. \A i \in DOMAIN h : /\ h[i] \in Leg /\ h[i].type = "linehaul" /\ h[i].origin = "depot"
                          /\ DropsThere(h[i].at, h[i].drop)
  BY <1>1, HaulLegOf
<1>3. h \in [1 .. n -> Leg]
  BY <1>1, <1>2
<1> QED
  BY <1>1, <1>2, <1>3, SeqDef

\* seedLegsFromDto gives the collection, the depot, the linehauls and the delivery, in that order.
LEMMA SeedsOf == ASSUME NEW c, Column(c) PROVE Seeds(SeededLegs(c), c)
<1>1. PICK a : /\ a = CollectionLegs(c)
               /\ Collects(c) => Single(a, CollectionLeg(c))
               /\ ~Collects(c) => Bare(a)
  <2>1. CASE Collects(c)
    <3>1. CollectionLegs(c) = <<CollectionLeg(c)>>
      BY <2>1 DEF CollectionLegs, Collects, CollectionLeg
    <3> QED
      BY <2>1, <3>1, OneLeg, LegsOfColumns
  <2>2. CASE ~Collects(c)
    <3>1. CollectionLegs(c) = << >>
      BY <2>2 DEF CollectionLegs, Collects
    <3> QED
      BY <2>2, <3>1, NoLeg, Zenon
  <2> QED
    BY <2>1, <2>2
<1>2. PICK b : /\ b = IF NoDepotLeg(c) THEN << >> ELSE <<DepotLeg(c)>>
               /\ ~NoDepotLeg(c) => Single(b, DepotLeg(c))
               /\ NoDepotLeg(c) => Bare(b)
  <2>1. CASE ~NoDepotLeg(c)
    BY <2>1, OneLeg, LegsOfColumns
  <2>2. CASE NoDepotLeg(c)
    BY <2>2, NoLeg, Zenon
  <2> QED
    BY <2>1, <2>2
<1>3. PICK h : h = [i \in DOMAIN c.rows |-> HaulLeg(c.rows[i])]
  OBVIOUS
<1>4. h \in Seq(Leg) /\ \A i \in DOMAIN h : /\ h[i].type = "linehaul" /\ h[i].origin = "depot"
                                            /\ DropsThere(h[i].at, h[i].drop)
  BY <1>3, HaulLegs DEF Column
<1>5. PICK d : d = <<DeliveryLeg(c)>> /\ Single(d, DeliveryLeg(c))
  BY OneLeg, LegsOfColumns
<1>6. PICK t : t = SeededLegs(c)
  OBVIOUS
<1>7. t = ((a \o b) \o h) \o d
  BY <1>1, <1>2, <1>3, <1>5, <1>6, Zenon DEF SeededLegs, NoDepotLeg, DepotLeg, HaulLeg, DeliveryLeg
<1>8. t \in Seq(Leg) /\ Four(t, a, b, h, d)
  BY <1>1, <1>2, <1>4, <1>5, <1>7, FourJoined DEF Single, Bare
<1>9. PICK p \in Nat : p = Len(a) /\ DOMAIN a = 1 .. p
  BY <1>1, LenProperties DEF Single, Bare
<1>10. PICK q \in Nat : q = Len(b) /\ DOMAIN b = 1 .. q
  BY <1>2, LenProperties DEF Single, Bare
<1>11. PICK n \in Nat : n = Len(h) /\ DOMAIN h = 1 .. n
  BY <1>4, LenProperties
<1>12. /\ Len(t) = p + q + n + 1 /\ DOMAIN t = 1 .. p + q + n + 1
       /\ \A i \in 1 .. p : t[i] = a[i]
       /\ \A i \in 1 .. q : t[p + i] = b[i]
       /\ t[p + q + n + 1] = DeliveryLeg(c)
       /\ \A i \in DOMAIN t : \/ i \in 1 .. p /\ t[i] = a[i]
                              \/ i - p \in 1 .. q /\ t[i] = b[i - p]
                              \/ i - (p + q) \in 1 .. n /\ t[i] = h[i - (p + q)]
                              \/ i = p + q + n + 1
  <2>1. Len(d) = 1 /\ DOMAIN d = {1} /\ d[1] = DeliveryLeg(c)
    BY <1>5 DEF Single
  <2>2. DOMAIN t = 1 .. Len(t) /\ Len(t) = p + q + n + 1
    BY <1>8, <1>9, <1>10, <1>11, <2>1, LenProperties DEF Four
  <2>3. /\ \A i \in 1 .. p : t[i] = a[i]
        /\ \A i \in 1 .. q : t[p + i] = b[i]
    BY <1>8, <1>9, <1>10 DEF Four
  <2>4. t[p + q + n + 1] = DeliveryLeg(c)
    BY <1>8, <1>9, <1>10, <1>11, <2>1 DEF Four
  <2>5. ASSUME NEW i \in DOMAIN t
        PROVE  \/ i \in 1 .. p /\ t[i] = a[i]
               \/ i - p \in 1 .. q /\ t[i] = b[i - p]
               \/ i - (p + q) \in 1 .. n /\ t[i] = h[i - (p + q)]
               \/ i = p + q + n + 1
    <3>1. i - (p + q + n) \in {1} => i = p + q + n + 1
      BY <2>2
    <3> QED
      BY <1>8, <1>9, <1>10, <1>11, <2>1, <3>1 DEF Four
  <2> QED
    BY <2>2, <2>3, <2>4, <2>5
<1>13. p = (IF Collects(c) THEN 1 ELSE 0) /\ \A i \in 1 .. p : a[i] = CollectionLeg(c)
  BY <1>1, <1>9 DEF Single, Bare
<1>14. q = (IF NoDepotLeg(c) THEN 0 ELSE 1) /\ \A i \in 1 .. q : b[i] = DepotLeg(c)
  BY <1>2, <1>10 DEF Single, Bare
<1>15. /\ CollectionLeg(c).type = "collection" /\ DepotLeg(c).type = "depot"
       /\ DeliveryLeg(c).type = "delivery"
  BY LegsOfColumns
<1>16. \A i \in DOMAIN t :
         \/ i = 1 /\ p = 1 /\ t[i] = CollectionLeg(c)
         \/ i = p + 1 /\ q = 1 /\ t[i] = DepotLeg(c)
         \/ t[i].type = "linehaul" /\ t[i].origin = "depot" /\ DropsThere(t[i].at, t[i].drop)
         \/ i = Len(t) /\ t[i] = DeliveryLeg(c)
  <2> SUFFICES ASSUME NEW i \in DOMAIN t
               PROVE  \/ i = 1 /\ p = 1 /\ t[i] = CollectionLeg(c)
                      \/ i = p + 1 /\ q = 1 /\ t[i] = DepotLeg(c)
                      \/ t[i].type = "linehaul" /\ t[i].origin = "depot" /\ DropsThere(t[i].at, t[i].drop)
                      \/ i = Len(t) /\ t[i] = DeliveryLeg(c)
    OBVIOUS
  <2>1. CASE i \in 1 .. p /\ t[i] = a[i]
    BY <1>13, <2>1
  <2>2. CASE i - p \in 1 .. q /\ t[i] = b[i - p]
    BY <1>12, <1>14, <2>2
  <2>3. CASE i - (p + q) \in 1 .. n /\ t[i] = h[i - (p + q)]
    BY <1>4, <1>11, <2>3
  <2>4. CASE i = p + q + n + 1
    BY <1>12, <2>4
  <2> QED
    BY <1>12, <2>1, <2>2, <2>3, <2>4
<1>17. /\ \A i \in DOMAIN t : t[i].type = "delivery" => i = Len(t)
       /\ Len(t) \in DOMAIN t /\ t[Len(t)] = DeliveryLeg(c)
  BY <1>12, <1>15, <1>16
<1>18. /\ \A i \in DOMAIN t : t[i].type = "collection" => i = 1 /\ Collects(c) /\ t[i] = CollectionLeg(c)
       /\ Collects(c) => 1 \in DOMAIN t /\ t[1] = CollectionLeg(c)
  BY <1>12, <1>13, <1>15, <1>16
<1>19. /\ \A i \in DOMAIN t : t[i].type = "depot" => ~NoDepotLeg(c) /\ t[i] = DepotLeg(c)
       /\ \A i, k \in DOMAIN t : t[i].type = "depot" /\ t[k].type = "depot" => i = k
  BY <1>14, <1>15, <1>16
<1>20. ~NoDepotLeg(c) => \E i \in DOMAIN t : t[i] = DepotLeg(c)
  <2>1. ASSUME ~NoDepotLeg(c) PROVE p + 1 \in DOMAIN t /\ t[p + 1] = DepotLeg(c)
    BY <1>12, <1>14, <2>1
  <2> QED
    BY <2>1
<1>21. \A i \in DOMAIN t :
         t[i].type = "linehaul" => t[i].origin = "depot" /\ DropsThere(t[i].at, t[i].drop)
  BY <1>15, <1>16
<1> QED
  BY <1>6, <1>8, <1>17, <1>18, <1>19, <1>20, <1>21, Zenon DEF Seeds

\* Opened legs have the shape of a chain.
LEMMA SeedsShapely == ASSUME NEW c, Column(c), NEW t, Seeds(t, c) PROVE t \in Seq(Leg) /\ Shapely(t)
<1>1. t \in Seq(Leg) /\ \A i \in DOMAIN t : t[i] \in Leg
  BY LenProperties, ElementOfSeq DEF Seeds
<1>2. \A i, k \in DOMAIN t : t[i].type = "collection" /\ t[k].type = "collection" => k = i
  BY DEF Seeds
<1>3. ASSUME NEW i \in DOMAIN t PROVE StartsThere(t[i], t, i)
  <2>1. t[i].type \in LegTypes
    BY <1>1 DEF Leg
  <2>2. CASE t[i].type = "depot"
    <3>1. t[i] = DepotLeg(c) /\ (t[i].origin # "depot" => t[i].at = Nil)
      <4>1. t[i] = DepotLeg(c)
        BY <2>2 DEF Seeds
      <4>2. c.origin # "depot" => c.depot = Nil
        BY DEF Column
      <4> QED
        BY <4>1, <4>2, LegsOfColumns
    <3>2. \A k \in DOMAIN t : k < i => t[k].type # "depot"
      <4>1. \A k \in DOMAIN t : t[k].type = "depot" => k = i
        BY <2>2 DEF Seeds
      <4>2. i \in Nat
        BY <1>1, LenProperties
      <4> QED
        BY <4>1, <4>2
    <3> QED
      BY <2>2, <3>1, <3>2 DEF StartsThere
  <2>3. CASE t[i].type # "depot"
    <3>1. t[i].origin = "depot"
      BY <2>1, <2>3, LegsOfColumns DEF Seeds, LegTypes
    <3> QED
      BY <3>1 DEF StartsThere
  <2> QED
    BY <2>2, <2>3
<1> QED
  BY <1>1, <1>2, <1>3 DEF Shapely, Seeds

-------------------------------------------------------------------------------
(* Every step                                                              *)

\* A leg for the client's address or Direct is the first depot leg.
LEMMA FirstStands ==
  ASSUME NEW s \in Seq(Leg), Shapely(s), NEW i \in DOMAIN s, s[i].origin # "depot"
  PROVE  i = FirstDepot(s) /\ s[i].at = Nil
<1>1. s[i].type = "depot" /\ s[i].at = Nil /\ \A k \in DOMAIN s : k < i => s[k].type # "depot"
  BY DEF Shapely, StartsThere
<1>2. FirstDepot(s) # 0
  BY <1>1, FirstIsFirst DEF Has
<1>3. /\ FirstDepot(s) \in DOMAIN s /\ s[FirstDepot(s)].type = "depot"
      /\ FirstDepot(s) <= i
  BY <1>1, <1>2, FirstIsFirst
<1>4. ~(FirstDepot(s) < i)
  BY <1>1, <1>3
<1>5. i \in Nat /\ FirstDepot(s) \in Nat
  BY FirstIsFirst, LenProperties
<1> QED
  BY <1>1, <1>3, <1>4, <1>5

\* The strengthened shape implies the one that is checked.
LEMMA ShapelyIsChainShape ==
  ASSUME legs \in Seq(Leg), Shapely(legs) PROVE ChainShape
<1>1. \A i \in DOMAIN legs : legs[i].origin # "depot" => i = FirstDepot(legs) /\ legs[i].at = Nil
  BY FirstStands
<1> QED
  BY <1>1 DEF ChainShape, Shapely, DropsThere

\* A card of another leg of the same type, that does not start the chain elsewhere.
LEMMA CardKept ==
  ASSUME ChainInv, NEW i \in DOMAIN legs, NEW leg \in Leg, leg.type = legs[i].type,
         leg.origin = legs[i].origin, leg.at = legs[i].at \/ leg.type # "depot",
         leg.type = "linehaul" => DropsThere(leg.at, leg.drop),
         legs' = [legs EXCEPT ![i] = leg]
  PROVE  legs' \in Seq(Leg) /\ Shapely(legs')
<1>1. StartsThere(leg, legs, i)
  BY DEF ChainInv, Shapely, StartsThere
<1> QED
  BY <1>1, PatchKept DEF ChainInv

\* A leg of the form.
LEMMA TypedLeg == ASSUME ChainInv, NEW i \in DOMAIN legs
  PROVE /\ legs[i] \in Leg /\ legs[i].type \in LegTypes /\ legs[i].at \in Places /\ legs[i].origin \in Origins
        /\ legs[i].drop \in Places /\ legs[i].info \in Infos
        /\ legs[i].type = "linehaul" => DropsThere(legs[i].at, legs[i].drop)
<1>1. legs[i] \in Leg
  BY LenProperties, ElementOfSeq DEF ChainInv
<1> QED
  BY <1>1 DEF Leg, ChainInv, Shapely

Rest == UNCHANGED <<columns, form>>

\* An edit leaves the stored columns.
LEMMA EditRest == Edit => form # "shut" /\ Rest
  BY DEF Edit, Rest

\* A step of the form that keeps the legs' shape.
LEMMA StepKept ==
  ASSUME ChainInv, Rest, legs' \in Seq(Leg) /\ Shapely(legs'), dropOff' \in Places
  PROVE  ChainInv'
  BY DEF ChainInv, Rest, Column

\* A drop-off that is not touched.
LEMMA KeepsDropOff == ASSUME ChainInv, UNCHANGED dropOff PROVE dropOff' \in Places
  BY DEF ChainInv, Places

\* addLeg.
LEMMA AddKept == ASSUME ChainInv, NEW type \in LegTypes, AddLeg(type) PROVE ChainInv'
<1>1. legs' \in Seq(Leg) /\ Shapely(legs')
  BY AddedKept DEF AddLeg, ChainInv
<1> QED
  BY <1>1, EditRest, StepKept, KeepsDropOff DEF AddLeg

\* removeLeg.
LEMMA RemoveKept == ASSUME ChainInv, NEW i \in DOMAIN legs, RemoveLeg(i) PROVE ChainInv'
<1>1. legs' \in Seq(Leg) /\ Shapely(legs')
  BY RemovedKept DEF RemoveLeg, ChainInv
<1> QED
  BY <1>1, EditRest, StepKept, KeepsDropOff DEF RemoveLeg

\* moveLeg.
LEMMA MoveKept ==
  ASSUME ChainInv, NEW i \in DOMAIN legs, NEW k \in DOMAIN legs, MoveLeg(i, k) PROVE ChainInv'
<1>1. legs' \in Seq(Leg) /\ Shapely(legs')
  BY MovedKept DEF MoveLeg, ChainInv
<1> QED
  BY <1>1, EditRest, StepKept, KeepsDropOff DEF MoveLeg

\* The Depot picker.
LEMMA PickDepotKept ==
  ASSUME ChainInv, NEW i \in DOMAIN legs, NEW d \in Places, NEW origin \in Origins, PickDepot(i, d, origin)
  PROVE  ChainInv'
<1>1. PICK leg : leg = [legs[i] EXCEPT !.at = d, !.origin = origin]
  OBVIOUS
<1>2. leg \in Leg /\ leg.type = "depot" /\ leg.at = d /\ leg.origin = origin
  BY <1>1, TypedLeg DEF PickDepot, Leg
<1>3. legs' = [legs EXCEPT ![i] = leg]
  BY <1>1 DEF PickDepot
<1>4. StartsThere(leg, legs, i)
  <2>1. ASSUME origin # "depot" PROVE d = Nil /\ \A k \in DOMAIN legs : k < i => legs[k].type # "depot"
    <3>1. d = Nil /\ i = FirstDepot(legs) /\ legs \in Seq(Leg) /\ legs[i].type = "depot"
      BY <2>1 DEF PickDepot, ChainInv
    <3>2. FirstDepot(legs) # 0
      BY <3>1, FirstIsFirst DEF Has
    <3>3. \A k \in DOMAIN legs : legs[k].type = "depot" => i <= k
      BY <3>1, <3>2, FirstIsFirst
    <3>4. i \in Nat /\ DOMAIN legs \subseteq Nat
      BY <3>1, LenProperties
    <3> QED
      BY <3>1, <3>3, <3>4
  <2> QED
    BY <1>2, <2>1 DEF StartsThere
<1>5. legs' \in Seq(Leg) /\ Shapely(legs')
  <2>1. legs \in Seq(Leg) /\ Shapely(legs) /\ leg.type = legs[i].type
    BY <1>2 DEF PickDepot, ChainInv
  <2> QED
    BY <1>2, <1>3, <1>4, <2>1, PatchKept
<1>6. dropOff' \in Places
  BY DEF PickDepot, ChainInv, Places
<1> QED
  BY <1>5, <1>6, EditRest, StepKept DEF PickDepot

\* The To depot picker.
LEMMA HaulKept ==
  ASSUME ChainInv, NEW i \in DOMAIN legs, NEW d \in Places, PickHaul(i, d) PROVE ChainInv'
<1>1. PICK leg : leg = HaulTo(legs[i], d)
  OBVIOUS
<1>2. /\ leg \in Leg /\ leg.type = "linehaul" /\ leg.origin = legs[i].origin
      /\ DropsThere(leg.at, leg.drop)
  <2>1. PICK drop : drop = IF legs[i].drop = d THEN legs[i].drop ELSE Nil
    OBVIOUS
  <2>2. leg = [legs[i] EXCEPT !.at = d, !.drop = drop]
    BY <1>1, <2>1 DEF HaulTo
  <2>3. drop \in Places /\ DropsThere(d, drop)
    BY <2>1, TypedLeg DEF Places, DropsThere
  <2> QED
    BY <2>2, <2>3, TypedLeg DEF PickHaul, Leg
<1>3. legs' = [legs EXCEPT ![i] = leg] /\ legs[i].type = "linehaul"
  BY <1>1 DEF PickHaul
<1>4. legs' \in Seq(Leg) /\ Shapely(legs')
  BY <1>2, <1>3, CardKept
<1> QED
  BY <1>4, EditRest, StepKept, KeepsDropOff DEF PickHaul

\* The drop-off of a linehaul.
LEMMA HaulDropKept ==
  ASSUME ChainInv, NEW i \in DOMAIN legs, NEW d \in Places, PickHaulDrop(i, d) PROVE ChainInv'
<1>1. PICK leg : leg = [legs[i] EXCEPT !.drop = d]
  OBVIOUS
<1>2. leg \in Leg /\ leg.type = "linehaul" /\ leg.origin = legs[i].origin /\ leg.at = legs[i].at /\ leg.drop = d
  BY <1>1, TypedLeg DEF PickHaulDrop, Leg
<1>3. DropsThere(leg.at, leg.drop)
  BY <1>2 DEF PickHaulDrop, DropsThere
<1>4. legs' = [legs EXCEPT ![i] = leg] /\ legs[i].type = "linehaul"
  BY <1>1 DEF PickHaulDrop
<1>5. legs' \in Seq(Leg) /\ Shapely(legs')
  BY <1>2, <1>3, <1>4, CardKept
<1> QED
  BY <1>5, EditRest, StepKept, KeepsDropOff DEF PickHaulDrop

\* The Region picker.
LEMMA RegionKept ==
  ASSUME ChainInv, NEW i \in DOMAIN legs, NEW d \in Places, PickRegion(i, d) PROVE ChainInv'
<1>1. PICK leg : leg = [legs[i] EXCEPT !.at = d]
  OBVIOUS
<1>2. leg \in Leg /\ leg.type = "delivery" /\ leg.origin = legs[i].origin
  BY <1>1, TypedLeg DEF PickRegion, Leg
<1>3. legs' = [legs EXCEPT ![i] = leg] /\ legs[i].type = "delivery"
  BY <1>1 DEF PickRegion
<1>4. legs' \in Seq(Leg) /\ Shapely(legs')
  BY <1>2, <1>3, CardKept
<1> QED
  BY <1>4, EditRest, StepKept, KeepsDropOff DEF PickRegion

\* The rest of a card.
LEMMA FillKept == ASSUME ChainInv, NEW i \in DOMAIN legs, NEW type, FillIn(i, type) PROVE ChainInv'
<1>1. PICK info \in Infos : legs' = [legs EXCEPT ![i].info = info]
  BY DEF FillIn, Infos
<1>2. PICK leg : leg = [legs[i] EXCEPT !.info = info]
  OBVIOUS
<1>3. /\ leg \in Leg /\ leg.type = legs[i].type /\ leg.origin = legs[i].origin /\ leg.at = legs[i].at
      /\ leg.drop = legs[i].drop
  BY <1>2, TypedLeg DEF Leg
<1>4. legs' = [legs EXCEPT ![i] = leg]
  BY <1>1, <1>2
<1>5. legs' \in Seq(Leg) /\ Shapely(legs')
  BY <1>3, <1>4, TypedLeg, CardKept
<1> QED
  BY <1>5, EditRest, StepKept, KeepsDropOff DEF FillIn

\* The drop-off of the collection.
LEMMA DropOffKept == ASSUME ChainInv, NEW d \in Places, PickDropOff(d) PROVE ChainInv'
<1>1. legs' \in Seq(Leg) /\ Shapely(legs') /\ dropOff' \in Places
  BY DEF PickDropOff, ChainInv
<1> QED
  BY <1>1, EditRest, StepKept DEF PickDropOff

\* Opening and closing the forms.
LEMMA OpensKept == ASSUME ChainInv, OpenNew \/ OpenDetail \/ Shut PROVE ChainInv'
<1>1. CASE OpenNew \/ Shut
  <2>1. legs' = << >> /\ legs' \in Seq(Leg) /\ Shapely(legs') /\ dropOff' \in Places
    BY <1>1, EmptyShapely DEF OpenNew, Shut, Places
  <2> QED
    BY <1>1, <2>1 DEF ChainInv, OpenNew, Shut, Column
<1>2. CASE OpenDetail
  <2>1. Column(columns) /\ legs' = SeededLegs(columns) /\ dropOff' = columns.dropOff
    BY <1>2 DEF OpenDetail, ChainInv
  <2>2. legs' \in Seq(Leg) /\ Shapely(legs')
    BY <2>1, SeedsOf, SeedsShapely
  <2>3. dropOff' \in Places
    BY <2>1 DEF Column
  <2> QED
    BY <1>2, <2>2, <2>3 DEF ChainInv, OpenDetail, Column
<1> QED
  BY <1>1, <1>2

ColumnNames == {"origin", "depot", "collect", "pickup", "storage", "rows", "region", "deliver", "dropOff"}

\* The rows that a shapely chain gives drop off where they go.
LEMMA RowsTyped == ASSUME NEW s \in Seq(Leg), Shapely(s) PROVE LinehaulRows(s) \in Seq(HaulRow)
<1>1. PICK h \in Seq(Leg) : /\ h = OfType(s, "linehaul")
                            /\ \A n \in DOMAIN h : \E i \in DOMAIN s : s[i].type = "linehaul" /\ h[n] = s[i]
  BY TypedLegs
<1>2. PICK n \in Nat : n = Len(h) /\ DOMAIN h = 1 .. n
  BY LenProperties
<1>3. PICK r : r = LinehaulRows(s)
  OBVIOUS
<1>4. r = [i \in 1 .. n |-> [to |-> h[i].at, drop |-> h[i].drop, info |-> h[i].info]]
  BY <1>1, <1>2, <1>3 DEF LinehaulRows
<1>5. ASSUME NEW i \in 1 .. n PROVE r[i] \in HaulRow
  <2>1. PICK k \in DOMAIN s : s[k].type = "linehaul" /\ h[i] = s[k]
    BY <1>1, <1>2
  <2>2. s[k] \in Leg
    BY LenProperties, ElementOfSeq
  <2>3. h[i].at \in Places /\ h[i].drop \in Places /\ h[i].info \in Infos /\ DropsThere(h[i].at, h[i].drop)
    BY <2>1, <2>2 DEF Leg, Shapely
  <2>4. r[i] = [to |-> h[i].at, drop |-> h[i].drop, info |-> h[i].info]
    BY <1>4
  <2> QED
    BY <2>3, <2>4 DEF HaulRow
<1>6. r = [i \in 1 .. n |-> r[i]]
  BY <1>4
<1>7. r \in [1 .. n -> HaulRow]
  BY <1>5, <1>6, Into, Zenon
<1> QED
  BY <1>3, <1>7, SeqDef

\* The origin and the depot that a shapely chain gives.
LEMMA OriginTyped ==
  ASSUME NEW s \in Seq(Leg), Shapely(s)
  PROVE  /\ OriginOf(s) \in Origins /\ DerivedDepot(s) \in Places
         /\ OriginOf(s) # "depot" => DerivedDepot(s) = Nil
<1>1. OriginOf(s) \in Origins /\ DerivedDepot(s) \in Places
  <2>1. CASE FirstDepot(s) = 0
    BY <2>1 DEF OriginOf, DerivedDepot, Origins, Places
  <2>2. CASE FirstDepot(s) # 0
    <3>1. FirstDepot(s) \in DOMAIN s
      BY <2>2, FirstIsFirst
    <3>2. s[FirstDepot(s)] \in Leg
      BY <3>1, LenProperties, ElementOfSeq
    <3> QED
      BY <2>2, <3>2 DEF OriginOf, DerivedDepot, Leg, Places
  <2> QED
    BY <2>1, <2>2
<1> QED
  BY <1>1 DEF DerivedDepot

\* What a save writes.
LEMMA SavedColumns ==
  ASSUME Submit
  PROVE  /\ DOMAIN columns' = ColumnNames
         /\ columns'.origin = OriginOf(legs) /\ columns'.depot = KeptDepot(Derived(legs))
         /\ columns'.collect = (OriginOf(legs) = "depot" /\ Has(legs, "collection"))
         /\ columns'.pickup = LastOf(legs, "collection").info
         /\ columns'.storage = LastOf(legs, "depot").info
         /\ columns'.rows = KeptRows(SentRows)
         /\ columns'.region = RegionOf(legs)
         /\ columns'.deliver = LastOf(legs, "delivery").info
         /\ columns'.dropOff = dropOff
         /\ columns' = [x \in ColumnNames |-> columns'[x]]
<1>1. PICK d : d = Derived(legs)
  OBVIOUS
<1>2. columns' = [origin |-> d.origin, depot |-> KeptDepot(d), collect |-> d.collect,
                  pickup |-> d.pickup, storage |-> d.storage, rows |-> KeptRows(SentRows),
                  region |-> d.region, deliver |-> d.deliver, dropOff |-> dropOff]
  BY <1>1 DEF Submit
<1>3. /\ d.origin = OriginOf(legs)
      /\ d.collect = (OriginOf(legs) = "depot" /\ Has(legs, "collection"))
      /\ d.pickup = LastOf(legs, "collection").info
      /\ d.storage = LastOf(legs, "depot").info
      /\ d.region = RegionOf(legs)
      /\ d.deliver = LastOf(legs, "delivery").info
  BY <1>1, Zenon DEF Derived
<1> QED
  BY <1>1, <1>2, <1>3 DEF ColumnNames

\* Save stores columns that open as a shapely chain again.
LEMMA SaveKept == ASSUME ChainInv, form # "shut", Submit PROVE ChainInv'
<1>1. legs \in Seq(Leg) /\ Shapely(legs) /\ dropOff \in Places /\ (columns = Nil \/ Column(columns))
  BY DEF ChainInv
<1>2. /\ KeptDepot(Derived(legs)) \in Places
      /\ OriginOf(legs) # "depot" => KeptDepot(Derived(legs)) = Nil
  <2>1. Derived(legs).origin = OriginOf(legs) /\ Derived(legs).depot = DerivedDepot(legs)
    BY DEF Derived
  <2>2. Derived(legs).depot \in Places /\ (OriginOf(legs) # "depot" => Derived(legs).depot = Nil)
    BY <1>1, <2>1, OriginTyped
  <2> QED
    BY <1>1, <2>1, <2>2 DEF KeptDepot, Column
<1>3. KeptRows(SentRows) \in Seq(HaulRow)
  <2>1. LinehaulRows(legs) \in Seq(HaulRow) /\ << >> \in Seq(HaulRow)
    BY <1>1, RowsTyped, EmptySeq
  <2>2. SentRows = Nil \/ SentRows \in Seq(HaulRow)
    BY <2>1 DEF SentRows
  <2>3. columns # Nil => columns.rows \in Seq(HaulRow)
    BY <1>1 DEF Column
  <2> QED
    BY <2>1, <2>2, <2>3 DEF KeptRows
<1>4. LastOf(legs, "delivery").at \in Places /\ \A type : LastOf(legs, type).info \in Infos
  BY <1>1, LastTyped
<1>5. OriginOf(legs) \in Origins
  BY <1>1, OriginTyped
<1>6. PICK c : c = columns'
  OBVIOUS
<1>7. /\ DOMAIN c = ColumnNames
      /\ c.origin \in Origins /\ c.depot \in Places /\ c.collect \in BOOLEAN
      /\ c.pickup \in Infos /\ c.storage \in Infos /\ c.deliver \in Infos
      /\ c.region \in Places /\ c.dropOff \in Places /\ c.rows \in Seq(HaulRow)
      /\ c.origin # "depot" => c.depot = Nil /\ c.collect = FALSE
  <2>1. /\ DOMAIN c = ColumnNames
        /\ c.origin = OriginOf(legs) /\ c.depot = KeptDepot(Derived(legs))
        /\ c.collect = (OriginOf(legs) = "depot" /\ Has(legs, "collection"))
        /\ c.pickup = LastOf(legs, "collection").info
        /\ c.storage = LastOf(legs, "depot").info
        /\ c.rows = KeptRows(SentRows)
        /\ c.region = RegionOf(legs)
        /\ c.deliver = LastOf(legs, "delivery").info
        /\ c.dropOff = dropOff
    BY <1>6, SavedColumns, Zenon
  <2>2. c.region \in Places
    BY <1>4, <2>1 DEF RegionOf
  <2>3. c.collect \in BOOLEAN /\ (c.origin # "depot" => c.collect = FALSE)
    BY <2>1
  <2> QED
    BY <1>1, <1>2, <1>3, <1>4, <1>5, <2>1, <2>2, <2>3
<1>8. Column(columns')
  BY <1>6, <1>7 DEF Column, ColumnNames
<1>9. form' = "shut" /\ legs' = << >> /\ dropOff' = Nil
  BY DEF Submit
<1>10. legs' \in Seq(Leg) /\ Shapely(legs')
  BY <1>9, EmptyShapely
<1> QED
  BY <1>8, <1>9, <1>10 DEF ChainInv, Places, Column

\* The schedules that are there at the start.
LEMMA SampleColumn ==
  ASSUME NEW collect \in BOOLEAN, NEW depot \in ChDepots, NEW rows,
         rows \in {<< >>} \cup {<<[to |-> d, drop |-> Nil, info |-> "typed"]>> : d \in ChDepots}
  PROVE  Column(Sample(collect, depot, rows))
<1>1. (CHOOSE d \in ChDepots : TRUE) \in Places
  BY DEF Places
<1>2. rows \in Seq(HaulRow)
  <2>1. CASE rows = << >>
    BY <2>1, EmptySeq
  <2>2. ASSUME NEW d \in ChDepots, rows = <<[to |-> d, drop |-> Nil, info |-> "typed"]>>
        PROVE  rows \in Seq(HaulRow)
    <3>1. PICK row : row = [to |-> d, drop |-> Nil, info |-> "typed"]
      OBVIOUS
    <3>2. row \in HaulRow
      BY <3>1 DEF HaulRow, Places, Infos, DropsThere
    <3> QED
      BY <2>2, <3>1, <3>2
  <2> QED
    BY <2>1, <2>2
<1> QED
  BY <1>1, <1>2 DEF Column, Sample, Origins, Infos, Places

\* No form is open.
LEMMA ChainStart == ChInit => ChainInv
<1> SUFFICES ASSUME ChInit PROVE ChainInv
  OBVIOUS
<1>1. columns = Nil \/ Column(columns)
  BY SampleColumn DEF ChInit
<1>2. legs = << >> /\ dropOff = Nil /\ form = "shut"
  BY DEF ChInit
<1> QED
  BY <1>1, <1>2, EmptyShapely DEF ChainInv, Places

\* Each step of the two forms.
LEMMA ChainStep == ASSUME ChainInv, [ChNext]_chVars PROVE ChainInv'
<1>1. CASE UNCHANGED chVars
  BY <1>1 DEF chVars, ChainInv, Column
<1>2. CASE OpenNew \/ OpenDetail \/ Shut
  BY <1>2, OpensKept
<1>3. CASE SaveNew \/ SaveDetail
  BY <1>3, SaveKept DEF SaveNew, SaveDetail
<1>4. ASSUME NEW type \in LegTypes, AddLeg(type) PROVE ChainInv'
  BY <1>4, AddKept
<1>5. ASSUME NEW i \in DOMAIN legs, RemoveLeg(i) PROVE ChainInv'
  BY <1>5, RemoveKept
<1>6. ASSUME NEW i \in DOMAIN legs,
             FillCollection(i) \/ FillDepot(i) \/ FillLinehaul(i) \/ FillDelivery(i) \/ TickZone(i)
      PROVE  ChainInv'
  BY <1>6, FillKept DEF FillCollection, FillDepot, FillLinehaul, FillDelivery, TickZone
<1>7. ASSUME NEW i \in DOMAIN legs, NEW k \in DOMAIN legs, MoveLeg(i, k) PROVE ChainInv'
  BY <1>7, MoveKept
<1>8. ASSUME NEW i \in DOMAIN legs, NEW d \in ChDepots \cup {Nil},
             PickHaul(i, d) \/ PickHaulDrop(i, d) \/ PickRegion(i, d)
      PROVE  ChainInv'
  BY <1>8, HaulKept, HaulDropKept, RegionKept DEF Places
<1>9. ASSUME NEW i \in DOMAIN legs, NEW d \in ChDepots \cup {Nil},
             NEW origin \in {"depot", "client", "direct"}, PickDepot(i, d, origin)
      PROVE  ChainInv'
  BY <1>9, PickDepotKept DEF Places, Origins
<1>10. ASSUME NEW d \in ChDepots \cup {Nil}, PickDropOff(d) PROVE ChainInv'
  BY <1>10, DropOffKept DEF Places
<1> QED
  BY <1>1, <1>2, <1>3, <1>4, <1>5, <1>6, <1>7, <1>8, <1>9, <1>10 DEF ChNext

\* For any depots and any edits: the delivery ends the chain, there is one collection at most, only
\* the first depot leg is the client's address or Direct, and a linehaul drops off where it goes.
THEOREM ChainKeepsShape == ChSpec => []ChainShape
<1>1. ChSpec => []ChainInv
  BY ChainStart, ChainStep, PTL DEF ChSpec
<1>2. ChainInv => ChainShape
  BY ShapelyIsChainShape DEF ChainInv
<1> QED
  BY <1>1, <1>2, PTL

\* What the walk over the opened legs finds.
LEMMA SeedsRead ==
  ASSUME NEW c, Column(c), NEW t, Seeds(t, c)
  PROVE  /\ OriginOf(t) = c.origin /\ DerivedDepot(t) = c.depot
         /\ Has(t, "collection") <=> Collects(c)
         /\ LastOf(t, "collection").info = IF Collects(c) THEN c.pickup ELSE "blank"
         /\ LastOf(t, "depot").info = IF NoDepotLeg(c) THEN "blank" ELSE c.storage
         /\ LastOf(t, "delivery").at = c.region /\ LastOf(t, "delivery").info = c.deliver
<1>1. t \in Seq(Leg)
  BY DEF Seeds
<1>2. ASSUME NEW type, ~Has(t, type) PROVE LastOf(t, type) = NewLeg(type)
  BY <1>1, <1>2, TypedLegs DEF LastOf
<1>3. ASSUME NEW i \in DOMAIN t, \A k \in DOMAIN t : t[k].type = t[i].type => k = i
      PROVE  LastOf(t, t[i].type) = t[i]
  <2>1. Has(t, t[i].type)
    BY DEF Has
  <2> QED
    BY <1>1, <1>3, <2>1, TypedLegs DEF LastOf
<1>4. Has(t, "collection") <=> Collects(c)
  BY LegsOfColumns DEF Seeds, Has
<1>5. LastOf(t, "collection").info = IF Collects(c) THEN c.pickup ELSE "blank"
  <2>1. CASE Collects(c)
    <3>1. 1 \in DOMAIN t /\ t[1] = CollectionLeg(c) /\ t[1].type = "collection"
      BY <2>1, LegsOfColumns DEF Seeds
    <3>2. \A k \in DOMAIN t : t[k].type = t[1].type => k = 1
      BY <3>1 DEF Seeds
    <3>3. LastOf(t, "collection") = CollectionLeg(c)
      BY <1>3, <3>1, <3>2
    <3> QED
      BY <2>1, <3>3, LegsOfColumns
  <2>2. CASE ~Collects(c)
    <3>1. LastOf(t, "collection") = NewLeg("collection")
      BY <1>2, <1>4, <2>2
    <3> QED
      BY <2>2, <3>1 DEF NewLeg
  <2> QED
    BY <2>1, <2>2
<1>6. ASSUME ~NoDepotLeg(c)
      PROVE  /\ OriginOf(t) = c.origin /\ DerivedDepot(t) = c.depot
             /\ LastOf(t, "depot").info = IF NoDepotLeg(c) THEN "blank" ELSE c.storage
  <2>1. PICK i \in DOMAIN t : t[i] = DepotLeg(c)
    BY <1>6 DEF Seeds
  <2>2. t[i].type = "depot" /\ \A k \in DOMAIN t : t[k].type = t[i].type => k = i
    BY <2>1, LegsOfColumns DEF Seeds
  <2>3. LastOf(t, "depot") = DepotLeg(c)
    BY <1>3, <2>1, <2>2
  <2>4. FirstDepot(t) = i /\ FirstDepot(t) # 0
    <3>1. FirstDepot(t) # 0
      BY <1>1, <2>2, FirstIsFirst DEF Has
    <3>2. FirstDepot(t) \in DOMAIN t /\ t[FirstDepot(t)].type = "depot"
      BY <1>1, <3>1, FirstIsFirst
    <3> QED
      BY <2>2, <3>1, <3>2
  <2>5. t[FirstDepot(t)].origin = c.origin /\ t[FirstDepot(t)].at = c.depot
    BY <2>1, <2>4, LegsOfColumns
  <2>6. OriginOf(t) = c.origin
    BY <2>4, <2>5 DEF OriginOf
  <2>7. DerivedDepot(t) = c.depot
    BY <2>4, <2>5, <2>6 DEF DerivedDepot, Column
  <2> QED
    BY <1>6, <2>3, <2>6, <2>7, LegsOfColumns
<1>7. ASSUME NoDepotLeg(c)
      PROVE  /\ OriginOf(t) = c.origin /\ DerivedDepot(t) = c.depot
             /\ LastOf(t, "depot").info = IF NoDepotLeg(c) THEN "blank" ELSE c.storage
  <2>1. ~Has(t, "depot")
    BY <1>7 DEF Seeds, Has
  <2>2. FirstDepot(t) = 0 /\ LastOf(t, "depot") = NewLeg("depot")
    BY <1>1, <1>2, <2>1, FirstIsFirst
  <2> QED
    BY <1>7, <2>2 DEF OriginOf, DerivedDepot, NoDepotLeg, NewLeg
<1>8. LastOf(t, "delivery") = DeliveryLeg(c)
  <2>1. Len(t) \in DOMAIN t /\ t[Len(t)] = DeliveryLeg(c) /\ t[Len(t)].type = "delivery"
    BY LegsOfColumns DEF Seeds
  <2>2. \A k \in DOMAIN t : t[k].type = t[Len(t)].type => k = Len(t)
    BY <2>1 DEF Seeds
  <2> QED
    BY <1>3, <2>1, <2>2
<1> QED
  BY <1>4, <1>5, <1>6, <1>7, <1>8, LegsOfColumns

\* A save of the legs as they were opened.
LEMMA UntouchedStep ==
  ASSUME ChainInv, SaveDetail, legs = SeededLegs(columns), dropOff = columns.dropOff
  PROVE  columns' = Shown(columns)
<1>1. PICK c : c = columns /\ Column(c)
  BY DEF ChainInv, SaveDetail
<1>2. Seeds(legs, c)
  BY <1>1, SeedsOf
<1>3. PICK d : d = columns'
  OBVIOUS
<1>4. /\ DOMAIN d = ColumnNames /\ d = [x \in ColumnNames |-> d[x]]
      /\ d.origin = OriginOf(legs) /\ d.depot = KeptDepot(Derived(legs))
      /\ d.collect = (OriginOf(legs) = "depot" /\ Has(legs, "collection"))
      /\ d.pickup = LastOf(legs, "collection").info
      /\ d.storage = LastOf(legs, "depot").info
      /\ d.rows = KeptRows(SentRows)
      /\ d.region = RegionOf(legs)
      /\ d.deliver = LastOf(legs, "delivery").info
      /\ d.dropOff = dropOff
  BY <1>3, SavedColumns, Zenon DEF SaveDetail
<1>5. d.rows = c.rows
  <2>1. SentRows = Nil
    BY DEF SentRows, SaveDetail
  <2> QED
    BY <1>1, <1>4, <2>1 DEF KeptRows, ChainInv, SaveDetail
<1>6. d.depot = c.depot
  <2>1. Derived(legs).origin = OriginOf(legs) /\ Derived(legs).depot = DerivedDepot(legs)
    BY DEF Derived
  <2>2. DerivedDepot(legs) = c.depot
    BY <1>1, <1>2, SeedsRead
  <2> QED
    BY <1>1, <1>4, <2>1, <2>2 DEF KeptDepot
<1>7. d.collect = (c.collect /\ c.depot # Nil)
  <2>1. OriginOf(legs) = c.origin /\ (Has(legs, "collection") <=> Collects(c))
    BY <1>1, <1>2, SeedsRead
  <2>2. c.collect \in BOOLEAN /\ (c.origin # "depot" => c.collect = FALSE)
    BY <1>1 DEF Column
  <2> QED
    BY <1>4, <2>1, <2>2 DEF Collects
<1>8. /\ d.origin = c.origin /\ d.region = c.region /\ d.deliver = c.deliver /\ d.dropOff = c.dropOff
      /\ d.pickup = IF c.collect /\ c.depot # Nil THEN c.pickup ELSE "blank"
      /\ d.storage = IF c.origin = "depot" /\ c.depot = Nil THEN "blank" ELSE c.storage
  BY <1>1, <1>2, <1>4, SeedsRead DEF RegionOf, Collects, NoDepotLeg
<1>9. d = Shown(c)
  BY <1>1, <1>4, <1>5, <1>6, <1>7, <1>8 DEF Shown, Column, ColumnNames
<1> QED
  BY <1>1, <1>3, <1>9

\* The legs that the detail opens carry what the columns hold: a save that finds them as they were
\* stores the same columns, but for what a collection without a depot cannot show.
THEOREM UntouchedChainStays == ChSpec => UntouchedChainKept
<1>1. ChSpec => []ChainInv
  BY ChainStart, ChainStep, PTL DEF ChSpec
<1>2. ASSUME ChainInv
      PROVE  SaveDetail /\ legs = SeededLegs(columns) /\ dropOff = columns.dropOff => columns' = Shown(columns)
  BY <1>2, UntouchedStep
<1> QED
  BY <1>1, <1>2, PTL DEF UntouchedChainKept, ChSpec

-----------------------------------------------------------------------------
(* Types: the map, the chain and the schedule detail                       *)

\* Whatever is bound, asked for and drawn, the map and its requests hold the page's own postcodes
\* and polygons.
THEOREM MapTypesHold == MpSpec => []MpTypeOK
<1>1. MpSpec => []MapInv
  BY MapStart, MapStep, PTL DEF MpSpec
<1>2. MapInv => MpTypeOK
  BY DEF MapInv, MapTypes, Covering, MapRecord, Around, Pills, MpTypeOK
<1> QED
  BY <1>1, <1>2, PTL

\* The edits counted stay within the bound.
LEMMA EditsStep == ASSUME edits \in 0 .. MaxEdits, [ChNext]_chVars PROVE edits' \in 0 .. MaxEdits
<1>1. CASE UNCHANGED edits
  BY <1>1
<1>2. CASE Edit
  BY <1>2, ChAssumption DEF Edit
<1> QED
  BY <1>1, <1>2
     DEF ChNext, chVars, OpenNew, OpenDetail, Shut, SaveNew, SaveDetail, Submit, AddLeg, RemoveLeg, MoveLeg,
         FillCollection, FillDepot, FillLinehaul, FillDelivery, TickZone, FillIn, PickHaul, PickHaulDrop,
         PickRegion, PickDepot, PickDropOff

\* Legs of any number keep their types, places and origins.
THEOREM ChainTypesHold == ChSpec => []ChTypeOK
<1>1. ChInit => edits \in 0 .. MaxEdits
  BY ChAssumption DEF ChInit
<1>2. ChInit => ChainInv
  BY ChainStart
<1>3. ChainInv /\ edits \in 0 .. MaxEdits /\ [ChNext]_chVars => (ChainInv /\ edits \in 0 .. MaxEdits)'
  BY ChainStep, EditsStep
<1>4. ChainInv /\ edits \in 0 .. MaxEdits => ChTypeOK
  <2> SUFFICES ASSUME ChainInv, edits \in 0 .. MaxEdits PROVE ChTypeOK
    OBVIOUS
  <2>1. \A i \in DOMAIN legs : legs[i] \in Leg
    BY TypedLeg
  <2> QED
    BY <2>1 DEF ChTypeOK, ChainInv, Leg, Infos, Origins
<1> QED
  BY <1>1, <1>2, <1>3, <1>4, PTL DEF ChSpec

\* ModalInv with what the modal's type says besides.
ModalTypes ==
  /\ ModalInv
  /\ modal \in {"shut", "base"} \cup SmClients /\ due \subseteq {"detail", "ovs"}
  /\ (fields = NoValue) = (seed = NoValue)
  /\ modal = "shut" => fields = NoValue /\ ov = NoValue
  /\ base # NoValue => Bookable(base.default, base.clients)


\* null is no form.
LEMMA NullForm == \A f \in FormRecord : f # NoValue
<1> SUFFICES ASSUME NEW f \in FormRecord PROVE f # NoValue
  OBVIOUS
<1>1. PICK s : s = [text |-> f.text, zones |-> f.zones, default |-> f.default, clients |-> SmClients]
  OBVIOUS
<1>2. s \in Schedule /\ Fields(s) = f
  BY <1>1 DEF FormRecord, Schedule, Fields
<1> QED
  BY <1>2, NullAssumption

\* Each step of the modal keeps them.
LEMMA ModalTypesStep == ASSUME ModalTypes, [SmNext]_smVars PROVE ModalTypes'
<1>0. ModalInv'
  BY ModalStep DEF ModalTypes
<1> USE <1>0 DEF ModalTypes, smServer, smForms, ResetOnClose
<1>1. CASE UNCHANGED smVars
  BY <1>1 DEF smVars
<1>2. CASE OpenBase \/ \E q \in {"detail", "ovs"} : Refocus(q)
  BY <1>2 DEF OpenBase, Refocus, FetchedOnOpen
<1>16. CASE AnswerDetail
  BY <1>16 DEF AnswerDetail
<1>17. CASE AnswerOverrides
  BY <1>17 DEF AnswerOverrides
<1>3. CASE SeedForm
  BY <1>3 DEF SeedForm
<1>4. CASE SeedOverride
  BY <1>4, SmAssumption DEF SeedOverride
<1>5. CASE CloseModal \/ NotFound
  BY <1>5 DEF CloseModal, NotFound
<1>6. CASE Save
  <2>1. base'.default = fields.default /\ base'.clients = SentClients
    BY <1>6 DEF Save, Upserted
  <2> QED
    BY <1>6, <2>1 DEF Save
<1>7. CASE SaveOverride
  BY <1>7 DEF SaveOverride
<1>8. CASE AnotherOperator
  <2>1. base \in Schedule
    BY <1>8 DEF AnotherOperator, ModalInv
  <2>2. base' # NoValue => Bookable(base'.default, base'.clients)
    BY <1>8, <2>1 DEF AnotherOperator, Schedule
  <2> QED
    BY <1>8, <2>2 DEF AnotherOperator
<1>9. CASE LookUp \/ ChangeTab \/ Confirm \/ \E a \in Addresses : TypeAddress(a)
  BY <1>9 DEF LookUp, ChangeTab, Confirm, TypeAddress
<1>10. ASSUME NEW t \in Texts, TypeText(t) \/ ChangeZones(t) PROVE ModalTypes'
  <2>1. fields \in FormRecord
    BY <1>10 DEF TypeText, ChangeZones, ModalInv, FormRecord
  <2>2. fields' \in FormRecord
    BY <1>10, <2>1 DEF TypeText, ChangeZones, FormRecord
  <2> QED
    BY <1>10, <2>1, <2>2, NullForm DEF TypeText, ChangeZones
<1>11. ASSUME NEW t \in Texts \cup {NoValue}, TypeOverride(t) PROVE ModalTypes'
  BY <1>11, SmAssumption DEF TypeOverride
<1>12. ASSUME NEW d \in BOOLEAN, ChooseWho(d) PROVE ModalTypes'
  <2>1. fields \in FormRecord
    BY <1>12 DEF ChooseWho, ModalInv, FormRecord
  <2>2. fields' \in FormRecord
    BY <1>12, <2>1 DEF ChooseWho, FormRecord
  <2> QED
    BY <1>12, <2>1, <2>2, NullForm DEF ChooseWho
<1>13. ASSUME NEW c \in SmClients, OpenOverride(c) PROVE ModalTypes'
  <2>1. c # "shut"
    BY SmAssumption
  <2>2. FetchedOnOpen => due' \subseteq {"detail", "ovs"}
    BY DEF FetchedOnOpen
  <2>3. due' \subseteq {"detail", "ovs"}
    BY <1>13, <2>2 DEF OpenOverride
  <2> QED
    BY <1>13, <2>1, <2>3 DEF OpenOverride
<1>14. ASSUME NEW c \in SmClients, Attach(c) \/ Detach(c) PROVE ModalTypes'
  <2>1. base \in Schedule
    BY <1>14 DEF Attach, Detach, ModalInv
  <2>2. Bookable(base'.default, base'.clients)
    BY <1>14, <2>1 DEF Attach, Detach, Schedule, Bookable
  <2> QED
    BY <1>14, <2>2 DEF Attach, Detach
<1>15. ASSUME NEW c \in SmClients, RemoveOverride(c) PROVE ModalTypes'
  BY <1>15 DEF RemoveOverride
<1> QED
  BY <1>1, <1>2, <1>3, <1>4, <1>5, <1>6, <1>7, <1>8, <1>9, <1>10, <1>11, <1>12, <1>13, <1>14, <1>15, <1>16,
     <1>17
     DEF SmNext, TypeHeader, TypeOccurrences, ChangeDays, ChangeAdvanced, ChangeCoverage,
         TypeRouteOverride, TypeDaysOverride, TypeHeaderOverride

\* Whoever writes meanwhile, no schedule is left that nobody can book, and a shut modal holds nothing.
THEOREM ModalTypesHold == SmSpec => []SmTypeOK
<1>1. SmInit => ModalTypes
  BY ModalInit DEF SmInit, ModalTypes
<1>2. ModalTypes => SmTypeOK
  BY DEF ModalTypes, ModalInv, SmTypeOK
<1> QED
  BY <1>1, <1>2, ModalTypesStep, PTL DEF SmSpec

-----------------------------------------------------------------------------
(* Types: the recurring routes                                             *)

OnePerDay(roster) == \A e, f \in roster : e.slot = f.slot => e = f

\* No roster of the table t grew.
RostersKept(t) ==
  \A id \in DOMAIN t : t[id].roster = {} \/ (id \in DOMAIN srRoutes /\ t[id].roster \subseteq srRoutes[id].roster)

RosterInv == SrInv /\ \A id \in DOMAIN srRoutes : OnePerDay(srRoutes[id].roster)

\* Fewer entries clash no more.
LEMMA FewerEntries ==
  ASSUME RosterInv, NEW t, RostersKept(t) PROVE \A id \in DOMAIN t : OnePerDay(t[id].roster)
  BY DEF RosterInv, RostersKept, OnePerDay

\* A row keeps its roster whatever else is written over it.
LEMMA RosterOfRow ==
  ASSUME NEW row \in RouteRow
  PROVE  /\ \A body : RouteUpserted(row, body).roster = row.roster
         /\ \A x : /\ [row EXCEPT !.active = x].roster = row.roster
                   /\ [row EXCEPT !.jobs = x].roster = row.roster
                   /\ [row EXCEPT !.zips = x].roster = row.roster
                   /\ [row EXCEPT !.master = x].roster = row.roster
                   /\ [row EXCEPT !.roster = x].roster = x
  BY DEF RouteRow, RouteUpserted, ApplyDirection

\* The master booking is moved on rows that keep their rosters.
LEMMA RosterOfMastered ==
  ASSUME NEW t \in RouteTables, NEW id, NEW body
  PROVE  LET m == MasterApplied(t, id, body) IN DOMAIN m = DOMAIN t /\ \A i \in DOMAIN t : m[i].roster = t[i].roster
<1>1. CASE body.master = {}
  BY <1>1 DEF MasterApplied
<1>2. CASE body.master # {}
  <2>1. \A i \in DOMAIN t : t[i] \in RouteRow
    BY TableRows
  <2>2. MasterApplied(t, id, body) =
          [i \in DOMAIN t |->
             [t[i] EXCEPT !.master = IF i = id THEN CHOOSE b \in body.master : TRUE
                                     ELSE IF @ \in body.master THEN 0 ELSE @]]
    BY <1>2 DEF MasterApplied
  <2>3. ASSUME NEW i \in DOMAIN t PROVE MasterApplied(t, id, body)[i].roster = t[i].roster
    <3>1. MasterApplied(t, id, body)[i] =
            [t[i] EXCEPT !.master = IF i = id THEN CHOOSE b \in body.master : TRUE
                                    ELSE IF t[i].master \in body.master THEN 0 ELSE t[i].master]
      BY <2>2
    <3>2. t[i] \in RouteRow
      BY <2>1
    <3> QED
      BY <3>1, <3>2, RosterOfRow
  <2> QED
    BY <2>2, <2>3
<1> QED
  BY <1>1, <1>2

\* What a served request leaves of the rosters.
LEMMA ServedRosters ==
  ASSUME RosterInv, NEW c \in srCalls, Serve(c)
  PROVE  \A id \in DOMAIN srRoutes' : OnePerDay(srRoutes'[id].roster)
<1>0. SrInv /\ srRoutes \in FitTables /\ c \in SrCallRecord /\ CallFits(c)
  BY DEF RosterInv, SrInv, SrTypes
<1>r. \A i \in DOMAIN srRoutes : srRoutes[i] \in RouteRow
  BY <1>0, TableRows
<1>b. BlankRoute \in RouteRow /\ BlankRoute.roster = {}
  BY Constants DEF BlankRoute
<1>1. CASE UNCHANGED srRoutes
  BY <1>1 DEF RosterInv
<1>2. CASE ServeCreateHalfway(c)
  <2>1. RostersKept(srRoutes')
    BY <1>2, <1>r, <1>b, RosterOfRow DEF ServeCreateHalfway, RostersKept
  <2> QED
    BY <2>1, FewerEntries
<1>3. CASE (c.id = 0 \/ c.id \in DOMAIN srRoutes) /\ ServeUpsert(c)
  <2>1. PICK id : /\ c.id # 0 => id \in DOMAIN srRoutes
                  /\ id \in SrIds
                  /\ Became(c, MasterApplied([i \in DOMAIN srRoutes \cup {id} |->
                       IF i = id THEN RouteUpserted(IF c.id = 0 THEN BlankRoute ELSE srRoutes[id], c.body)
                       ELSE srRoutes[i]], id, c.body))
    <3>1. c.id \in SrIds \cup {0}
      BY <1>0 DEF SrCallRecord
    <3> QED
      BY <1>3, <3>1 DEF ServeUpsert
  <2>2. PICK row : row = (IF c.id = 0 THEN BlankRoute ELSE srRoutes[id])
    OBVIOUS
  <2>3. row \in RouteRow /\ (row.roster = {} \/ (id \in DOMAIN srRoutes /\ row.roster = srRoutes[id].roster))
    BY <2>1, <2>2, <1>r, <1>b
  <2>4. PICK t : t = [i \in DOMAIN srRoutes \cup {id} |-> IF i = id THEN RouteUpserted(row, c.body) ELSE srRoutes[i]]
    OBVIOUS
  <2>5. srRoutes' = MasterApplied(t, id, c.body)
    BY <2>1, <2>2, <2>4 DEF Became
  <2>6. t \in RouteTables
    <3>1. c.body \in RouteBody /\ (c.body.final => c.body.depot \/ c.body.point)
      BY <1>0 DEF SrCallRecord, CallFits
    <3>2. RouteUpserted(row, c.body) \in FitRows
      BY <3>1, <2>3, UpsertFits
    <3> QED
      BY <1>0, <2>1, <2>4, <3>2, RowPut, TableRows
  <2>7. RostersKept(t)
    BY <2>3, <2>4, RosterOfRow DEF RostersKept
  <2>8. RostersKept(srRoutes')
    BY <2>5, <2>6, <2>7, RosterOfMastered DEF RostersKept
  <2> QED
    BY <2>8, FewerEntries
<1>4. CASE (c.id = 0 \/ c.id \in DOMAIN srRoutes) /\ ServeCopy(c)
  <2>1. PICK id, clone : /\ clone.roster = {}
                         /\ srRoutes' = [i \in DOMAIN srRoutes \cup {id} |-> IF i = id THEN clone ELSE srRoutes[i]]
    <3>0. PICK source : source = srRoutes[c.id]
      OBVIOUS
    <3>1. PICK clone : clone = [BlankRoute EXCEPT !.final = source.final, !.depot = source.depot,
                                                   !.point = source.point, !.zips = source.zips]
      OBVIOUS
    <3>2. clone.roster = {}
      BY <1>b, <3>1 DEF RouteRow
    <3>3. PICK id \in SrIds \ DOMAIN srRoutes :
            /\ srRoutes' = [i \in DOMAIN srRoutes \cup {id} |-> IF i = id THEN clone ELSE srRoutes[i]]
            /\ RouteAnswered(c, "done", [OpenNothing EXCEPT !.id = id, !.row = clone])
      BY <1>4, <3>0, <3>1, Zenon DEF ServeCopy
    <3> QED
      BY <3>2, <3>3
  <2>2. RostersKept(srRoutes')
    BY <2>1 DEF RostersKept
  <2> QED
    BY <2>2, FewerEntries
<1>5. CASE (c.id = 0 \/ c.id \in DOMAIN srRoutes) /\ (ServeDeactivate(c) \/ ServeHardDelete(c))
  <2>0. c.id \in DOMAIN srRoutes
    BY <1>0, <1>5 DEF CallFits, ServeDeactivate, ServeHardDelete
  <2>1. PICK row \in RouteRow : row = srRoutes[c.id]
    BY <1>r, <2>0
  <2>2. ASSUME ServeDeactivate(c) PROVE RostersKept(srRoutes')
    <3>1. srRoutes' = [srRoutes EXCEPT ![c.id] = [row EXCEPT !.active = FALSE]]
      BY <2>1, <2>2 DEF ServeDeactivate, Became
    <3>2. [row EXCEPT !.active = FALSE].roster = row.roster
      BY RosterOfRow
    <3> QED
      BY <2>1, <3>1, <3>2 DEF RostersKept
  <2>3. ASSUME ServeHardDelete(c) PROVE RostersKept(srRoutes')
    <3>1. srRoutes' = [i \in DOMAIN srRoutes \ {c.id} |-> srRoutes[i]] \/ srRoutes' = srRoutes
      BY <2>3 DEF ServeHardDelete, Became
    <3> QED
      BY <3>1 DEF RostersKept
  <2>4. RostersKept(srRoutes')
    BY <1>5, <2>2, <2>3
  <2> QED
    BY <2>4, FewerEntries
<1>6. CASE (c.id = 0 \/ c.id \in DOMAIN srRoutes) /\ (ServeRoster(c) \/ ServeUnroster(c))
  <2>0. c.id \in DOMAIN srRoutes
    BY <1>0, <1>6 DEF CallFits, ServeRoster, ServeUnroster
  <2>1. PICK row \in RouteRow : row = srRoutes[c.id]
    BY <1>r, <2>0
  <2>2. OnePerDay(row.roster)
    BY <2>0, <2>1 DEF RosterInv
  <2>3. PICK roster : OnePerDay(roster) /\ srRoutes' = [srRoutes EXCEPT ![c.id] = [row EXCEPT !.roster = roster]]
    <3>1. CASE ServeRoster(c)
      <4>1. OnePerDay({e \in row.roster : e.slot # c.entry.slot} \cup {c.entry})
        BY <2>2 DEF OnePerDay
      <4>2. srRoutes' = [srRoutes EXCEPT ![c.id] =
              [row EXCEPT !.roster = {e \in row.roster : e.slot # c.entry.slot} \cup {c.entry}]]
        BY <2>1, <3>1 DEF ServeRoster, Became
      <4> QED
        BY <4>1, <4>2, Zenon
    <3>2. CASE ServeUnroster(c)
      <4>1. OnePerDay(row.roster \ {c.entry})
        BY <2>2 DEF OnePerDay
      <4>2. srRoutes' = [srRoutes EXCEPT ![c.id] = [row EXCEPT !.roster = row.roster \ {c.entry}]]
        BY <2>1, <3>2 DEF ServeUnroster, Became
      <4> QED
        BY <4>1, <4>2, Zenon
    <3> QED
      BY <1>6, <3>1, <3>2
  <2>4. [row EXCEPT !.roster = roster].roster = roster
    BY RosterOfRow
  <2> QED
    BY <2>0, <2>3, <2>4 DEF RosterInv
<1>7. CASE ServeMissing(c) \/ ServeCount(c)
  BY <1>1, <1>7 DEF ServeMissing, ServeCount
<1> QED
  BY <1>2, <1>3, <1>4, <1>5, <1>6, <1>7, Zenon DEF Serve

\* Each step of the tab keeps one entry for a day.
LEMMA RosterStep == ASSUME RosterInv, [SrNext]_srVars PROVE RosterInv'
<1>1. SrInv'
  BY SrKept DEF RosterInv
<1>2. CASE UNCHANGED srRoutes
  BY <1>1, <1>2 DEF RosterInv
<1>3. ASSUME NEW c \in srCalls, Serve(c) PROVE RosterInv'
  BY <1>1, <1>3, ServedRosters DEF RosterInv
<1>4. ASSUME NEW id \in SrIds, OthersStamp(id) PROVE RosterInv'
  <2>1. \A i \in DOMAIN srRoutes : srRoutes[i] \in RouteRow
    BY TableRows DEF RosterInv, SrInv, SrTypes
  <2>2. id \in DOMAIN srRoutes
    BY <1>4 DEF OthersStamp
  <2>3. PICK row \in RouteRow : row = srRoutes[id]
    BY <2>1, <2>2
  <2>4. PICK new : new.roster = row.roster /\ srRoutes' = [srRoutes EXCEPT ![id] = new]
    <3>1. CASE srRoutes' = [srRoutes EXCEPT ![id].jobs = TRUE]
      BY <2>3, <3>1, RosterOfRow
    <3>2. CASE srRoutes' = [srRoutes EXCEPT ![id].zips = ~@]
      <4>1. srRoutes' = [srRoutes EXCEPT ![id] = [row EXCEPT !.zips = ~row.zips]]
        BY <2>3, <3>2
      <4> QED
        BY <4>1, RosterOfRow
    <3> QED
      BY <1>4, <3>1, <3>2 DEF OthersStamp
  <2>5. RostersKept(srRoutes')
    BY <2>3, <2>4 DEF RostersKept
  <2> QED
    BY <1>1, <2>5, FewerEntries DEF RosterInv
<1>5. CASE EditorNext
  BY <1>2, <1>5
     DEF EditorNext, EditZips, EditPolygons, Locate, CloseAttempt, Commit, SetDirection, PickOriginDepot, Suggest,
         Located, CloseAnswered, SetOriginKind, PickMaster, EditForm
<1> QED
  BY <1>2, <1>3, <1>4, <1>5
     DEF SrNext, srVars, ReadRoutes, AnswerRoutes, AnswerRoster, AnswerRequest, OpenEditor, OpenRoster, TogglePause,
         CopyRoute, Deactivate, HardDelete, RequestOnRow, CloseRoster, AddRoster, RemoveRoster

\* Whatever is copied, stamped and rostered, no day of a route's roster has two entries, and the
\* tables, the page and the requests keep their types.
THEOREM RouteTypesHold == SrSpec => []SrTypeOK
<1>1. SrInit => RosterInv
  <2> SUFFICES ASSUME SrInit PROVE RosterInv
    OBVIOUS
  <2>1. PICK id \in SrIds, row \in SrStored : srRoutes = [i \in {id} |-> row]
    BY DEF SrInit
  <2>2. \A r \in SrStored : r.roster = {}
    <3>1. PICK blank \in RouteRow : blank = BlankRoute /\ blank.roster = {}
      BY Constants DEF BlankRoute
    <3>2. /\ [blank EXCEPT !.zips = TRUE].roster = {}
          /\ [blank EXCEPT !.final = TRUE, !.point = TRUE, !.polys = TRUE].roster = {}
          /\ \A b : [blank EXCEPT !.final = TRUE, !.depot = TRUE, !.master = b].roster = {}
      BY <3>1 DEF RouteRow
    <3> QED
      BY <3>1, <3>2 DEF SrStored
  <2> QED
    BY <2>1, <2>2, SrStarted DEF RosterInv, OnePerDay
<1>2. RosterInv => SrTypeOK
  <2> SUFFICES ASSUME RosterInv PROVE SrTypeOK
    OBVIOUS
  <2>1. DOMAIN srRoutes \subseteq SrIds /\ \A id \in DOMAIN srRoutes : srRoutes[id] \in RouteRow
    BY TableRows DEF RosterInv, SrInv, SrTypes
  <2>2. srForm.target \in SrIds \cup {0} /\ srForm.kind \in {"none", "depot", "address"}
    BY DEF RosterInv, SrInv, SrTypes, SrFormRecord, NoForm
  <2>3. \A c \in srCalls : c.body \in RouteBody /\ c.phase \in {"sent", "counted", "done", "refused"}
    BY DEF RosterInv, SrInv, SrTypes, SrCallRecord
  <2> QED
    BY <2>1, <2>2, <2>3 DEF RosterInv, SrInv, SrTypes, SrPageRecord, SrTypeOK, OnePerDay
<1> QED
  BY <1>1, <1>2, RosterStep, PTL DEF SrSpec

-----------------------------------------------------------------------------
(* Types: the list of schedules                                            *)

\* A product grows with its factor.
LEMMA TimesGrows == ASSUME NEW a \in Nat, NEW b \in Nat, NEW p \in Nat, a <= b PROVE a * p <= b * p
<1>1. PICK d \in Nat : b = a + d
  BY b - a \in Nat
<1>2. (a + d) * p = a * p + d * p /\ d * p >= 0
  BY Z3
<1>3. a * p \in Nat /\ d * p \in Nat
  BY Z3
<1> QED
  BY <1>1, <1>2, <1>3

\* The last page of n rows starts before the end.
LEMMA LastPageHasRows ==
  ASSUME NEW n \in Nat \ {0} PROVE PageCount(n) - 1 \in Nat /\ (PageCount(n) - 1) * PerPage < n
<1> DEFINE q == (n + PerPage - 1) \div PerPage
<1>1. PerPage \in Nat \ {0}
  BY SlAssumption
<1>2. q \in Nat /\ q >= 1 /\ q * PerPage <= n + PerPage - 1
  BY <1>1, Z3
<1>3. PageCount(n) = q
  BY DEF PageCount
<1> HIDE DEF q
<1>4. (q - 1) * PerPage = q * PerPage - PerPage
  BY <1>1, <1>2, Z3
<1>5. q * PerPage \in Int /\ (q - 1) * PerPage \in Int
  BY <1>1, <1>2
<1>6. (q - 1) * PerPage <= n - 1
  BY <1>1, <1>2, <1>4, <1>5
<1> QED
  BY <1>2, <1>3, <1>5, <1>6

\* The page of routes that is drawn has rows, if there are any.
LEMMA RoutePageHasRows ==
  ASSUME slLook \in LookRecord, slLook.routes # {}
  PROVE  BoundedPage * PerPage < Cardinality(slLook.routes)
<1> DEFINE n == Cardinality(slLook.routes)  last == PageCount(n) - 1
<1>1. slLook.routes \subseteq RouteRows /\ slLook.routePage \in Nat
  BY DEF LookRecord
<1>2. IsFiniteSet(slLook.routes)
  BY <1>1, FS_Subset, SlAssumption
<1>3. n \in Nat /\ n # 0
  BY <1>2, FS_CardinalityType, FS_EmptySet
<1>4. last \in Nat /\ last * PerPage < n
  BY <1>3, LastPageHasRows
<1>5. BoundedPage \in Nat /\ BoundedPage <= last
  BY <1>1, <1>4 DEF BoundedPage
<1> HIDE DEF n, last
<1>6. PerPage \in Nat
  BY SlAssumption
<1>7. BoundedPage * PerPage <= last * PerPage
  BY <1>4, <1>5, <1>6, TimesGrows
<1>8. BoundedPage * PerPage \in Int /\ last * PerPage \in Int
  BY <1>4, <1>5, <1>6
<1>9. BoundedPage * PerPage < n
  BY <1>3, <1>4, <1>7, <1>8
<1> QED
  BY <1>9 DEF n

\* Calls are numbered in their order.
CallNumbered(c) == c.n \in Nat /\ c.n < slUsed /\ c.on \in BOOLEAN

\* The pending id of a kind is that of its newest call.
LatestIs(w, id) ==
  \E c \in slCalls : c.what = w /\ c.id = id /\ \A d \in slCalls : d.what = w => d.n <= c.n

\* What the queries and the calls hold apart from the lists.
QueriesTyped == slStale \subseteq ListKeys /\ slAsked \subseteq ListKeys /\ slMissed \subseteq MissedByAll

RowsTypedNow == DOMAIN slRows \subseteq SlIds /\ \A id \in DOMAIN slRows : slRows[id] \in SlRow

CallsTyped ==
  /\ slUsed \in Nat /\ \A c \in slCalls : CallNumbered(c)
  /\ DOMAIN slLatest = Switches
  /\ \A w \in Switches : slLatest[w] # 0 => LatestIs(w, slLatest[w])

ListTyped == ListInv /\ QueriesTyped /\ RowsTypedNow /\ CallsTyped

\* A call that begins is the newest.
LEMMA CallBegins ==
  ASSUME CallsTyped, NEW call, call.n = slUsed, call.on \in BOOLEAN, slUsed' = slUsed + 1,
         slCalls' = slCalls \cup {call},
         \/ call.what \notin Switches /\ slLatest' = slLatest
         \/ call.what \in Switches /\ slLatest' = [slLatest EXCEPT ![call.what] = call.id]
  PROVE  CallsTyped'
<1>1. slUsed' \in Nat /\ \A c \in slCalls' : CallNumbered(c)'
  BY DEF CallsTyped, CallNumbered
<1>2. DOMAIN slLatest' = Switches
  BY DEF CallsTyped
<1>3. ASSUME NEW w \in Switches, slLatest'[w] # 0 PROVE LatestIs(w, slLatest[w])'
  <2>1. CASE call.what = w
    <3>1. slLatest'[w] = call.id
      BY <2>1 DEF CallsTyped
    <3>2. \A d \in slCalls' : d.n <= call.n
      BY DEF CallsTyped, CallNumbered
    <3> QED
      BY <2>1, <3>1, <3>2 DEF LatestIs
  <2>2. CASE call.what # w
    <3>1. slLatest'[w] = slLatest[w]
      BY <2>2 DEF CallsTyped
    <3>2. LatestIs(w, slLatest[w])
      BY <1>3, <3>1 DEF CallsTyped
    <3> QED
      BY <2>2, <3>1, <3>2 DEF LatestIs
  <2> QED
    BY <2>1, <2>2
<1> QED
  BY <1>1, <1>2, <1>3 DEF CallsTyped

\* A call that settles leaves the id of a newer one.
LEMMA CallsLeft ==
  ASSUME CallsTyped, NEW call \in slCalls, CallSettled(call)
  PROVE  CallsTyped'
<1>1. slUsed' = slUsed /\ slCalls' = slCalls \ {call}
  BY DEF CallSettled
<1>2. slUsed' \in Nat /\ \A c \in slCalls' : CallNumbered(c)'
  BY <1>1 DEF CallsTyped, CallNumbered
<1>3. DOMAIN slLatest' = Switches
  BY DEF CallsTyped, CallSettled
<1>4. ASSUME NEW w \in Switches, slLatest'[w] # 0 PROVE LatestIs(w, slLatest[w])'
  <2>1. slLatest'[w] = slLatest[w] /\ ~(call.what = w /\ \A c \in slCalls : c.what = w => c.n <= call.n)
    BY <1>4 DEF CallsTyped, CallSettled
  <2>2. PICK c \in slCalls : c.what = w /\ c.id = slLatest[w] /\ \A d \in slCalls : d.what = w => d.n <= c.n
    BY <1>4, <2>1 DEF CallsTyped, LatestIs
  <2>3. c # call
    BY <2>1, <2>2
  <2> QED
    BY <1>1, <2>1, <2>2, <2>3 DEF LatestIs
<1> QED
  BY <1>2, <1>3, <1>4 DEF CallsTyped

\* A reply changes neither number nor aim of its call.
LEMMA CallReplied ==
  ASSUME CallsTyped, NEW call \in slCalls, CallRecord(call), NEW new, NEW r, new = [call EXCEPT !.reply = r],
         slCalls' = (slCalls \ {call}) \cup {new}, UNCHANGED <<slUsed, slLatest>>
  PROVE  CallsTyped'
<1>1. new.n = call.n /\ new.what = call.what /\ new.id = call.id /\ new.on = call.on
  BY DEF CallRecord
<1>2. slUsed' \in Nat /\ \A c \in slCalls' : CallNumbered(c)'
  BY <1>1 DEF CallsTyped, CallNumbered
<1>3. ASSUME NEW w \in Switches, slLatest[w] # 0 PROVE LatestIs(w, slLatest[w])'
  <2>1. PICK c \in slCalls : c.what = w /\ c.id = slLatest[w] /\ \A d \in slCalls : d.what = w => d.n <= c.n
    BY <1>3 DEF CallsTyped, LatestIs
  <2>2. CASE c = call
    <3>1. new.n \in Nat /\ new.what = w /\ new.id = slLatest'[w]
      BY <1>1, <2>1, <2>2 DEF CallsTyped, CallNumbered
    <3>2. \A d \in slCalls' : d.what = w => d.n <= new.n
      BY <1>1, <2>1, <2>2, <3>1
    <3> QED
      BY <3>1, <3>2 DEF LatestIs
  <2>3. CASE c # call
    <3>1. c \in slCalls' /\ \A d \in slCalls' : d.what = w => d.n <= c.n
      BY <1>1, <2>1, <2>3
    <3> QED
      BY <2>1, <3>1 DEF LatestIs
  <2> QED
    BY <2>2, <2>3
<1> QED
  BY <1>2, <1>3 DEF CallsTyped

\* The server takes a call or refuses it.
LEMMA ServedTyped ==
  ASSUME ListTyped, NEW call \in slCalls, ServeCall(call)
  PROVE  RowsTypedNow' /\ CallsTyped'
<1>1. CallRecord(call) /\ CallNumbered(call)
  BY DEF ListTyped, ListInv, ListTypes, CallsTyped
<1>2. CallsTyped'
  BY <1>1, CallReplied DEF ListTyped, ServeCall
<1>3. CASE call.id \notin DOMAIN slRows
  BY <1>2, <1>3 DEF ServeCall, ListTyped, RowsTypedNow
<1>4. CASE call.id \in DOMAIN slRows
  <2>1. PICK row \in SlRow : row = slRows[call.id]
    BY <1>4 DEF ListTyped, RowsTypedNow
  <2>2. slRows' \in RowsAfter(call)
    BY <1>4 DEF ServeCall
  <2>3. CASE call.what = "auto"
    <3>1. slRows' = [slRows EXCEPT ![call.id] = [row EXCEPT !.autoBook = ~row.autoBook]]
      BY <2>1, <2>2, <2>3 DEF RowsAfter
    <3>2. [row EXCEPT !.autoBook = ~row.autoBook] \in SlRow
      BY DEF SlRow
    <3> QED
      BY <1>2, <1>4, <3>1, <3>2 DEF ListTyped, RowsTypedNow
  <2>4. CASE call.what = "active"
    <3>1. slRows' = [slRows EXCEPT ![call.id] = [row EXCEPT !.isActive = call.on]]
      BY <2>1, <2>2, <2>4 DEF RowsAfter
    <3>2. [row EXCEPT !.isActive = call.on] \in SlRow
      BY <1>1 DEF SlRow, CallNumbered
    <3> QED
      BY <1>2, <1>4, <3>1, <3>2 DEF ListTyped, RowsTypedNow
  <2>5. CASE call.what = "retire"
    <3>1. slRows' = [id \in DOMAIN slRows \ {call.id} |-> slRows[id]]
      BY <2>2, <2>5 DEF RowsAfter
    <3> QED
      BY <1>2, <3>1 DEF ListTyped, RowsTypedNow
  <2>6. CASE call.what = "copy"
    <3>1. PICK new \in SlIds : slRows' = [id \in DOMAIN slRows \cup {new} |-> IF id = new THEN slRows[call.id] ELSE slRows[id]]
      BY <2>2, <2>6 DEF RowsAfter
    <3> QED
      BY <1>2, <2>1, <3>1 DEF ListTyped, RowsTypedNow
  <2> QED
    BY <1>1, <2>3, <2>4, <2>5, <2>6 DEF CallRecord, Switches
<1> QED
  BY <1>3, <1>4

\* Lists are invalidated under keys of theirs.
LEMMA InvalidatedTyped == ASSUME ListTyped, ListsInvalidated PROVE QueriesTyped'
<1>1. ShownKey \in ListKeys
  BY ShownListed DEF ListTyped, ListInv, ListTypes
<1> QED
  BY <1>1 DEF ListTyped, QueriesTyped, ListsInvalidated, MissedByAll

\* A key that is observed is asked for.
LEMMA ObservedTyped ==
  ASSUME ListTyped, NEW look, ObserveKey(look), slLook' \in LookRecord
  PROVE  ListTyped' \/ (QueriesTyped' /\ UNCHANGED <<slRows, slCalls, slUsed, slLatest>>)
<1>1. <<look.filter, look.page>> \in ListKeys
  BY DEF ObserveKey, LookRecord, ListKeys
<1> QED
  BY <1>1 DEF ObserveKey, ListTyped, QueriesTyped, slServer, slMutations

\* A switch is flipped ahead.
LEMMA FlipTyped ==
  ASSUME ListTyped, NEW id \in SlIds, ToggleAutoBook(id) \/ ToggleIsActive(id)
  PROVE  QueriesTyped' /\ RowsTypedNow' /\ CallsTyped'
<1>1. PICK call : /\ call.n = slUsed /\ call.on \in BOOLEAN /\ call.what \in Switches /\ FlipEverywhere(call)
                  /\ slUsed' = slUsed + 1 /\ slLatest' = [slLatest EXCEPT ![call.what] = call.id]
  <2>1. CASE ToggleAutoBook(id)
    <3>1. PICK call : call = [n |-> slUsed, what |-> "auto", id |-> id, on |-> TRUE,
                              before |-> slCache, reply |-> "none"]
      OBVIOUS
    <3>2. FlipEverywhere(call) /\ slUsed' = slUsed + 1 /\ slLatest' = [slLatest EXCEPT !["auto"] = id]
      BY <2>1, <3>1 DEF ToggleAutoBook, OneMore
    <3>3. call.n = slUsed /\ call.on \in BOOLEAN /\ call.what \in Switches
      BY <3>1 DEF Switches
    <3>4. slLatest' = [slLatest EXCEPT ![call.what] = call.id]
      BY <3>1, <3>2
    <3> QED
      BY <3>2, <3>3, <3>4, Zenon
  <2>2. CASE ToggleIsActive(id)
    <3>1. PICK on \in BOOLEAN : on = ~slCache[ShownKey].rows[id].isActive
      OBVIOUS
    <3>2. PICK call : call = [n |-> slUsed, what |-> "active", id |-> id, on |-> on,
                              before |-> slCache, reply |-> "none"]
      OBVIOUS
    <3>3. FlipEverywhere(call) /\ slUsed' = slUsed + 1 /\ slLatest' = [slLatest EXCEPT !["active"] = id]
      BY <2>2, <3>1, <3>2 DEF ToggleIsActive, OneMore
    <3>4. call.n = slUsed /\ call.on \in BOOLEAN /\ call.what \in Switches
      BY <3>2 DEF Switches
    <3>5. slLatest' = [slLatest EXCEPT ![call.what] = call.id]
      BY <3>2, <3>3
    <3> QED
      BY <3>3, <3>4, <3>5, Zenon
  <2> QED
    BY <2>1, <2>2
<1>2. CallsTyped'
  BY <1>1, CallBegins DEF FlipEverywhere, ListTyped
<1>3. QueriesTyped'
  BY <1>1 DEF FlipEverywhere, ListTyped, QueriesTyped
<1> QED
  BY <1>1, <1>2, <1>3 DEF FlipEverywhere, ListTyped, RowsTypedNow, slServer

\* Each step of the list.
LEMMA ListTypedStep == ASSUME ListTyped, [SlNext]_slVars PROVE ListTyped'
<1>1. ListInv' /\ slLook' \in LookRecord
  BY ListStep DEF ListTyped, ListInv, ListTypes
<1>2. ASSUME UNCHANGED <<slRows, slCalls, slUsed, slLatest>> PROVE RowsTypedNow' /\ CallsTyped'
  BY <1>2 DEF ListTyped, RowsTypedNow, CallsTyped, CallNumbered, LatestIs
<1>3. CASE UNCHANGED slVars
  BY <1>1, <1>2, <1>3 DEF slVars, slServer, slQueries, slMutations, ListTyped, QueriesTyped
<1>4. ASSUME NEW look, ObserveKey(look) PROVE ListTyped'
  BY <1>1, <1>2, <1>4, ObservedTyped DEF ListTyped
<1>5. CASE LeaveTab
  <2>1. CallsTyped'
    BY <1>5 DEF LeaveTab, ListTyped, CallsTyped, CallNumbered, NonePending, Switches
  <2> QED
    BY <1>1, <1>5, <2>1 DEF LeaveTab, ListTyped, QueriesTyped, RowsTypedNow, slServer, slQueries
<1>6. CASE RefocusList
  <2>1. ShownKey \in ListKeys
    BY ShownListed DEF ListTyped, ListInv, ListTypes
  <2>2. QueriesTyped'
    BY <1>6, <2>1 DEF RefocusList, ListTyped, QueriesTyped
  <2> QED
    BY <1>1, <1>2, <1>6, <2>2 DEF RefocusList, ListTyped, slServer, slMutations
<1>7. ASSUME NEW k \in ListKeys, ReadList(k) \/ AnswerList(k) PROVE ListTyped'
  <2>1. QueriesTyped'
    BY <1>7 DEF ReadList, AnswerList, ListTyped, QueriesTyped, MissedByAll
  <2> QED
    BY <1>1, <1>2, <1>7, <2>1 DEF ReadList, AnswerList, ListTyped, slServer, slMutations
<1>8. ASSUME NEW id \in SlIds, ToggleAutoBook(id) \/ ToggleIsActive(id) PROVE ListTyped'
  BY <1>1, <1>8, FlipTyped DEF ListTyped
<1>9. ASSUME NEW id \in SlIds, RetireSchedule(id) \/ CopySchedule(id) PROVE ListTyped'
  <2>1. PICK what \in {"retire", "copy"} : CallFor(what, id)
    BY <1>9 DEF RetireSchedule, CopySchedule
  <2>2. CallsTyped'
    BY <2>1, CallBegins DEF CallFor, OneMore, ListTyped, Switches
  <2> QED
    BY <1>1, <2>1, <2>2 DEF CallFor, ListTyped, QueriesTyped, RowsTypedNow, slServer, slQueries
<1>10. ASSUME NEW c \in slCalls, ServeCall(c) PROVE ListTyped'
  BY <1>1, <1>10, ServedTyped DEF ServeCall, slQueries, ListTyped, QueriesTyped
<1>11. ASSUME NEW c \in slCalls, CallSucceeds(c) \/ SwitchFails(c) PROVE ListTyped'
  <2>1. CallsTyped' /\ QueriesTyped'
    BY <1>11, CallsLeft, InvalidatedTyped DEF CallSucceeds, SwitchFails, ListTyped
  <2> QED
    BY <1>1, <1>11, <2>1 DEF CallSucceeds, SwitchFails, CallSettled, ListTyped, RowsTypedNow, slServer
<1>12. ASSUME NEW c \in slCalls, CallFails(c) PROVE ListTyped'
  <2>1. CallsTyped' /\ QueriesTyped'
    BY <1>12, CallsLeft DEF CallFails, ListTyped, QueriesTyped
  <2> QED
    BY <1>1, <1>12, <2>1 DEF CallFails, CallSettled, ListTyped, RowsTypedNow, slServer
<1>13. CASE OthersWrite
  <2>1. RowsTypedNow'
    BY <1>13 DEF OthersWrite, ListTyped, RowsTypedNow
  <2>2. CallsTyped'
    BY <1>13 DEF OthersWrite, OneMore, ListTyped, CallsTyped, CallNumbered, LatestIs
  <2> QED
    BY <1>1, <1>13, <2>1, <2>2 DEF OthersWrite, ListTyped, QueriesTyped
<1>14. CASE (\E rows \in SUBSET RouteRows : LoadRoutes(rows)) \/ \E p : ShowRoutePage(p)
  BY <1>1, <1>2, <1>14 DEF LoadRoutes, ShowRoutePage, ListTyped, QueriesTyped, slServer, slQueries, slMutations
<1> QED
  BY <1>3, <1>4, <1>5, <1>6, <1>7, <1>8, <1>9, <1>10, <1>11, <1>12, <1>13, <1>14, Zenon
     DEF SlNext, SetFilter, SetDepotFilter, ShowPage, BackToTab

\* Whatever is flipped, retired, copied and read late: a pending id is that of a call under way, and
\* the routes tab shows a page with rows if it has any.
THEOREM ListTypesHold == SlSpec => []SlTypeOK
<1>1. SlInit => ListTyped
  <2> SUFFICES ASSUME SlInit PROVE ListTyped
    OBVIOUS
  <2>1. <<SlIds, 0>> \in ListKeys
    BY AtLeastOnePage, SlAssumption DEF ListKeys
  <2>2. QueriesTyped
    BY <2>1 DEF SlInit, QueriesTyped
  <2>3. RowsTypedNow
    BY DEF SlInit, RowsTypedNow, SlRow
  <2>4. CallsTyped
    BY DEF SlInit, CallsTyped, NonePending, Switches
  <2> QED
    BY <2>2, <2>3, <2>4, ListStart DEF ListTyped
<1>2. ListTyped => SlTypeOK
  <2> SUFFICES ASSUME ListTyped PROVE SlTypeOK
    OBVIOUS
  <2>1. slLook \in LookRecord
    BY DEF ListTyped, ListInv, ListTypes
  <2>2. slLook.filter \in SlFilters /\ slLook.page \in SlPages
    BY <2>1 DEF LookRecord
  <2>3. slLook.routes # {} => BoundedPage * PerPage < Cardinality(slLook.routes)
    BY <2>1, RoutePageHasRows
  <2>4. \A w \in DOMAIN slLatest : slLatest[w] # 0 => \E c \in slCalls : c.what = w /\ c.id = slLatest[w]
    BY DEF ListTyped, CallsTyped, LatestIs
  <2> QED
    BY <2>2, <2>3, <2>4 DEF ListTyped, QueriesTyped, RowsTypedNow, SlTypeOK
<1> QED
  BY <1>1, <1>2, ListTypedStep, PTL DEF SlSpec
===============================================================================
