-------------------------------- MODULE RouteMap --------------------------------
(****************************************************************************)
(* The coverage of a recurring route in its editor: the postcodes and       *)
(* polygons bound to the form, their shapes, fetched as they are bound, and *)
(* the map beside them, which also shows the postcodes of its viewport as   *)
(* pills and outlines to be clicked.  The form, the two stores of shapes    *)
(* and the objects on the map change in different effects and callbacks.    *)
(****************************************************************************)
EXTENDS Naturals, FiniteSets

CONSTANTS
  MpZips,    \* postcodes with a centroid
  MpCoverage \* coverage polygons

VARIABLES
  mpForm,   \* zips and bulkPolygonIds of the form
  mpShapes, \* zipShapes and bulkPolygonShapes: what has been fetched
  mpAsked,  \* shape requests not answered
  mpMap,    \* the map: ready, centroidsReady, zoomed in, and what is drawn on it
  mpAround  \* unboundShapes, the batches in flight, failedUnboundRef

mpVars == <<mpForm, mpShapes, mpAsked, mpMap, mpAround>>

NoMap == [ready |-> FALSE, centroids |-> FALSE, zoomed |-> FALSE,
          bound |-> {}, polygons |-> {}, around |-> {}, pills |-> << >>]

MpInit ==
  /\ \E z \in SUBSET MpZips, p \in SUBSET MpCoverage :
       /\ mpForm = [zips |-> z, polygons |-> p]
       /\ mpAsked = {[zips |-> z, polygons |-> {}], [zips |-> {}, polygons |-> p]}
                      \ {[zips |-> {}, polygons |-> {}]}
  /\ mpShapes = [zips |-> {}, polygons |-> {}] /\ mpMap = NoMap
  /\ mpAround = [known |-> {}, flying |-> {}, failed |-> {}]

-----------------------------------------------------------------------------
\* Mutant: a shape that arrives is drawn whether or not its postcode has been bound meanwhile.
AroundAll(form, known) == known

\* The outlines of postcodes that are around but not bound.
AroundDrawn(form, known) == known \ form.zips

\* The effects of a render of the editor: drawn is what its form and shapes say, pills take the
\* colour of bound or not.  None draws before there is a map.
Rendered(form, shapes) ==
  mpMap' = IF ~mpMap.ready THEN mpMap
           ELSE [mpMap EXCEPT !.bound = form.zips \cap shapes.zips,
                              !.polygons = form.polygons \cap shapes.polygons,
                              !.around = AroundDrawn(form, mpAround.known),
                              !.pills = [z \in DOMAIN @ |-> z \in form.zips]]

\* Shapes the form needs and does not have are asked for whenever it changes.
Missing(form) ==
  {[zips |-> form.zips \ mpShapes.zips, polygons |-> {}] : z \in {form.zips} \ {mpForm.zips}}
  \cup {[zips |-> {}, polygons |-> form.polygons \ mpShapes.polygons] :
          p \in {form.polygons} \ {mpForm.polygons}}

Covers(form) ==
  /\ mpForm' = form /\ form # mpForm
  /\ mpAsked' = (mpAsked \cup Missing(form)) \ {[zips |-> {}, polygons |-> {}]}
  /\ Rendered(form, mpShapes)
  /\ UNCHANGED <<mpShapes, mpAround>>

\* addZip and removeZip, from the search, the chips, Clear zips and the map.
AddZip(z) == Covers([mpForm EXCEPT !.zips = @ \cup {z}])

RemoveZip(z) == Covers([mpForm EXCEPT !.zips = @ \ {z}])

ClearZips == Covers([mpForm EXCEPT !.zips = {}])

AddCoverage(p) == Covers([mpForm EXCEPT !.polygons = @ \cup {p}])

RemoveBulkPolygon(p) == Covers([mpForm EXCEPT !.polygons = @ \ {p}])

ClearCoverage == Covers([mpForm EXCEPT !.polygons = {}])

\* getPolygonShapes, and bulkPolygonService.get one polygon after the other: those that cannot be
\* had are skipped.
ShapesAnswered(request) ==
  /\ request \in mpAsked /\ mpAsked' = mpAsked \ {request}
  /\ \E got \in SUBSET request.polygons :
       /\ request.polygons # {} => got # {}
       /\ mpShapes' = [zips |-> mpShapes.zips \cup request.zips, polygons |-> mpShapes.polygons \cup got]
  /\ Rendered(mpForm, mpShapes')
  /\ UNCHANGED <<mpForm, mpAround>>

ShapesFailed(request) ==
  /\ request \in mpAsked /\ mpAsked' = mpAsked \ {request}
  /\ UNCHANGED <<mpForm, mpShapes, mpMap, mpAround>>

-----------------------------------------------------------------------------
\* The script has loaded: the map is made, empty; the effects that draw on it do not run again.
MapReady ==
  /\ ~mpMap.ready /\ mpMap' = [mpMap EXCEPT !.ready = TRUE]
  /\ UNCHANGED <<mpForm, mpShapes, mpAsked, mpAround>>

CentroidsReady ==
  /\ ~mpMap.centroids /\ mpMap' = [mpMap EXCEPT !.centroids = TRUE]
  /\ UNCHANGED <<mpForm, mpShapes, mpAsked, mpAround>>

\* syncCentroidsToViewport, once the map rests or the centroids have come: a pill for each
\* postcode of the viewport and, zoomed in, a batch for the outlines not under way.  It reads
\* unboundShapes as they were when the map was made, empty, so known ones are asked for again.
SyncViewport(sample, zoomed) ==
  /\ mpMap.ready
  /\ LET seen == IF mpMap.centroids THEN sample ELSE {}
         wanted == seen \ (mpForm.zips \cup mpAround.failed \cup UNION mpAround.flying)
     IN  /\ mpMap' = [mpMap EXCEPT !.zoomed = zoomed, !.pills = [z \in seen |-> z \in mpForm.zips]]
         /\ mpAround' = [mpAround EXCEPT !.flying = @ \cup (IF zoomed THEN {wanted} \ {{}} ELSE {})]
  /\ UNCHANGED <<mpForm, mpShapes, mpAsked>>

AroundAnswered(batch) ==
  /\ batch \in mpAround.flying
  /\ LET known == mpAround.known \cup batch IN
     /\ mpAround' = [mpAround EXCEPT !.flying = @ \ {batch}, !.known = known]
     /\ mpMap' = [mpMap EXCEPT !.around = AroundDrawn(mpForm, known)]
  /\ UNCHANGED <<mpForm, mpShapes, mpAsked>>

AroundFailed(batch) ==
  /\ batch \in mpAround.flying
  /\ mpAround' = [mpAround EXCEPT !.flying = @ \ {batch}, !.failed = @ \cup batch]
  /\ UNCHANGED <<mpForm, mpShapes, mpAsked, mpMap>>

\* A click on a pill binds or unbinds, one on an outline binds.
ClickPill(z) ==
  z \in DOMAIN mpMap.pills /\ IF z \in mpForm.zips THEN RemoveZip(z) ELSE AddZip(z)

ClickOutline(z) == z \in mpMap.around /\ AddZip(z)

MpNext ==
  \/ \E z \in MpZips : AddZip(z) \/ RemoveZip(z) \/ ClickPill(z) \/ ClickOutline(z)
  \/ \E p \in MpCoverage : AddCoverage(p) \/ RemoveBulkPolygon(p)
  \/ ClearZips \/ ClearCoverage \/ MapReady \/ CentroidsReady
  \/ \E request \in mpAsked : ShapesAnswered(request) \/ ShapesFailed(request)
  \/ \E sample \in SUBSET MpZips, zoomed \in BOOLEAN : SyncViewport(sample, zoomed)
  \/ \E batch \in mpAround.flying : AroundAnswered(batch) \/ AroundFailed(batch)

MpSpec == MpInit /\ [][MpNext]_mpVars

-----------------------------------------------------------------------------
MpTypeOK ==
  /\ mpForm \in [zips : SUBSET MpZips, polygons : SUBSET MpCoverage]
  /\ mpShapes \in [zips : SUBSET MpZips, polygons : SUBSET MpCoverage]
  /\ \A r \in mpAsked : r \in [zips : SUBSET MpZips, polygons : SUBSET MpCoverage]
  /\ mpMap.pills \in UNION {[s -> BOOLEAN] : s \in SUBSET MpZips}
  /\ mpAround \in [known : SUBSET MpZips, flying : SUBSET (SUBSET MpZips), failed : SUBSET MpZips]

\* The map tells bound from not bound: whatever answers late, and however often a postcode or a
\* polygon is bound and unbound meanwhile, no shape of an unbound one is drawn as bound, none of a
\* bound one as merely around, and a pill's colour, which decides what a click does, is right.
MapTellsBound ==
  /\ mpMap.bound \subseteq mpForm.zips /\ mpMap.polygons \subseteq mpForm.polygons
  /\ mpMap.around \cap mpForm.zips = {}
  /\ \A z \in DOMAIN mpMap.pills : mpMap.pills[z] = (z \in mpForm.zips)
=================================================================================
