----------------------------- MODULE ChainBuilder -----------------------------
(***************************************************************************)
(* The route of a schedule, edited as a chain of legs by the New Schedule   *)
(* form and the Route tab of the schedule detail, and kept as flat columns: *)
(* the origin, the pickup depot, whether a collection is booked, the        *)
(* linehaul rows, the region and the drop-off.  Opening the form builds the *)
(* legs from the columns, saving derives the columns from the legs, and     *)
(* linehaul rows are sent only if the operator changed them.                *)
(*                                                                          *)
(* A depot has one drop-off location, which goes by the depot's name.  The  *)
(* rest of what a card asks (speeds, zones, charges, days, storage) is one  *)
(* value, blank or typed.  The origin region and the open card are left     *)
(* out; what the server checks of them may refuse a save.                   *)
(***************************************************************************)
EXTENDS Naturals, Sequences, FiniteSets, SequencesExt

CONSTANTS
  ChDepots,  \* lookups.depots
  Nil,       \* null
  MaxLegs,   \* bound: legs of a chain
  MaxEdits   \* bound: edits, all openings of the form together

ASSUME ChAssumption == Nil \notin ChDepots /\ MaxEdits \in Nat

VARIABLES
  columns, \* server: the schedule's columns, Nil before it is created
  form,    \* "shut", "new" (NewScheduleModal) or "detail" (ScheduleDetailModal)
  legs,    \* legs, formLegs
  dropOff, \* dropOffLocationId, formDropOffLocationId
  edits    \* edits so far

chVars == <<columns, form, legs, dropOff, edits>>

LegTypes == {"collection", "depot", "linehaul", "delivery"}

\* NEW_LEG; at is depotId, toDepotId or regionId, origin the two flags of a depot leg, info the
\* rest of the card.
NewLeg(type) == [type |-> type, at |-> Nil, origin |-> "depot", drop |-> Nil, info |-> "blank"]

\* The legs of a type, in their order.
OfType(chain, type) ==
  LET all == {i \in DOMAIN chain : chain[i].type = type}
      Before(i) == Cardinality({k \in all : k < i})
  IN  [n \in 1 .. Cardinality(all) |-> chain[CHOOSE i \in all : Before(i) = n - 1]]

\* The walk over the legs, one copy in each modal, keeps what the last one of a type says.
LastOf(chain, type) ==
  IF OfType(chain, type) = <<>> THEN NewLeg(type) ELSE Last(OfType(chain, type))

Has(chain, type) == \E i \in DOMAIN chain : chain[i].type = type

\* firstDepotIndex; 0 if there is none.
FirstDepot(chain) == SelectInSeq(chain, LAMBDA leg : leg.type = "depot")

\* deriveOriginFromLegs.
OriginOf(chain) ==
  IF FirstDepot(chain) = 0 THEN "depot" ELSE chain[FirstDepot(chain)].origin

LinehaulRows(chain) ==
  LET hauls == OfType(chain, "linehaul")
  IN  [i \in DOMAIN hauls |-> [to |-> hauls[i].at, drop |-> hauls[i].drop, info |-> hauls[i].info]]

\* BookPickup is sent for a depot origin only; the depot is sent whether a collection is booked or not.
DerivedDepot(chain) ==
  IF OriginOf(chain) = "depot" /\ FirstDepot(chain) # 0 THEN chain[FirstDepot(chain)].at ELSE Nil

RegionOf(chain) == LastOf(chain, "delivery").at

\* deriveFromLegs.
Derived(chain) ==
  [origin  |-> OriginOf(chain),
   depot   |-> DerivedDepot(chain),
   collect |-> OriginOf(chain) = "depot" /\ Has(chain, "collection"),
   pickup  |-> LastOf(chain, "collection").info,
   storage |-> LastOf(chain, "depot").info,
   rows    |-> LinehaulRows(chain),
   region  |-> RegionOf(chain),
   deliver |-> LastOf(chain, "delivery").info]

\* Mutant: every schedule with a depot shows a collection.
CollectionAlways(c) ==
  IF c.depot # Nil THEN <<[NewLeg("collection") EXCEPT !.info = c.pickup]>> ELSE <<>>

CollectionLegs(c) ==
  IF c.collect /\ c.depot # Nil THEN <<[NewLeg("collection") EXCEPT !.info = c.pickup]>> ELSE <<>>

\* seedLegsFromDto.
SeededLegs(c) ==
  CollectionLegs(c)
  \o (IF c.origin = "depot" /\ c.depot = Nil THEN <<>>
      ELSE <<[NewLeg("depot") EXCEPT !.origin = c.origin, !.info = c.storage,
                                     !.at = IF c.origin = "depot" THEN c.depot ELSE Nil]>>)
  \o [i \in DOMAIN c.rows |-> [NewLeg("linehaul") EXCEPT !.at = c.rows[i].to, !.drop = c.rows[i].drop,
                                                         !.info = c.rows[i].info]]
  \o <<[NewLeg("delivery") EXCEPT !.at = c.region, !.info = c.deliver]>>

Sample(collect, depot, rows) ==
  [origin |-> "depot", depot |-> depot, collect |-> collect, rows |-> rows,
   region |-> CHOOSE d \in ChDepots : TRUE, dropOff |-> Nil,
   pickup |-> IF collect THEN "typed" ELSE "blank", storage |-> "typed", deliver |-> "typed"]

\* No schedule yet, or one of any kind that was set up before.
ChInit ==
  /\ \/ columns = Nil
     \/ \E collect \in BOOLEAN, depot \in ChDepots,
          rows \in {<<>>} \cup {<<[to |-> d, drop |-> Nil, info |-> "typed"]>> : d \in ChDepots} :
            columns = Sample(collect, depot, rows)
  /\ form = "shut" /\ legs = <<>> /\ dropOff = Nil /\ edits = 0

-----------------------------------------------------------------------------
OpenNew ==
  /\ form = "shut" /\ columns = Nil
  /\ form' = "new" /\ legs' = <<>> /\ dropOff' = Nil
  /\ UNCHANGED <<columns, edits>>

OpenDetail ==
  /\ form = "shut" /\ columns # Nil
  /\ form' = "detail" /\ legs' = SeededLegs(columns) /\ dropOff' = columns.dropOff
  /\ UNCHANGED <<columns, edits>>

\* resetAndClose, onClose: what was typed is gone.
Shut ==
  /\ form # "shut"
  /\ form' = "shut" /\ legs' = <<>> /\ dropOff' = Nil
  /\ UNCHANGED <<columns, edits>>

Edit ==
  /\ form # "shut" /\ edits < MaxEdits /\ edits' = edits + 1
  /\ UNCHANGED <<columns, form>>

TerminalDelivery(chain) == chain # <<>> /\ Last(chain).type = "delivery"

\* addLeg and the chooser's disabled buttons.
MayAdd(chain, type) ==
  /\ type = "delivery" => ~Has(chain, "delivery")
  /\ type = "collection" => ~Has(chain, "collection") /\ OriginOf(chain) # "client"
  /\ type \in {"collection", "linehaul"} => OriginOf(chain) # "direct"

\* Mutant: always at the end.
AppendedLast(chain, leg) == Append(chain, leg)

WithLeg(chain, leg) ==
  IF TerminalDelivery(chain) THEN InsertAt(chain, Len(chain), leg) ELSE Append(chain, leg)

AddLeg(type) ==
  /\ Edit /\ Len(legs) < MaxLegs /\ MayAdd(legs, type)
  /\ legs' = WithLeg(legs, NewLeg(type))
  /\ UNCHANGED dropOff

RemoveLeg(i) ==
  /\ Edit
  /\ legs' = RemoveAt(legs, i)
  /\ UNCHANGED dropOff

\* moveLeg, by a drag or the arrows: only a linehaul, only into another's slot.
MoveLeg(i, k) ==
  /\ Edit /\ i # k /\ legs[i].type = "linehaul" /\ legs[k].type = "linehaul"
  /\ legs' = InsertAt(RemoveAt(legs, i), k, legs[i])
  /\ UNCHANGED dropOff

\* The Depot picker: a depot, or nothing; the first depot leg may be the client's address or Direct.
\* patchLeg drops the schedule's drop-off when the first depot leg moves away from it.
PickDepot(i, depot, origin) ==
  /\ Edit /\ legs[i].type = "depot"
  /\ origin # "depot" => i = FirstDepot(legs) /\ depot = Nil
  /\ legs' = [legs EXCEPT ![i].at = depot, ![i].origin = origin]
  /\ dropOff' = IF i = FirstDepot(legs) /\ dropOff # depot THEN Nil ELSE dropOff

\* The drop-off of the collection, from those of the origin's depot, or all if it has none.
PickDropOff(d) ==
  /\ Edit /\ Has(legs, "collection")
  /\ FirstDepot(legs) # 0 /\ legs[FirstDepot(legs)].at # Nil => d \in {Nil, legs[FirstDepot(legs)].at}
  /\ dropOff' = d /\ UNCHANGED legs

\* patchLeg with toDepotId: a drop-off that is not the new depot's goes.
HaulTo(leg, to) == [leg EXCEPT !.at = to, !.drop = IF leg.drop = to THEN leg.drop ELSE Nil]

\* The To depot picker, or a linehaul run that has one.
PickHaul(i, to) ==
  /\ Edit /\ legs[i].type = "linehaul"
  /\ legs' = [legs EXCEPT ![i] = HaulTo(legs[i], to)]
  /\ UNCHANGED dropOff

PickHaulDrop(i, d) ==
  /\ Edit /\ legs[i].type = "linehaul"
  /\ legs[i].at # Nil => d \in {Nil, legs[i].at}
  /\ legs' = [legs EXCEPT ![i].drop = d]
  /\ UNCHANGED dropOff

PickRegion(i, region) ==
  /\ Edit /\ legs[i].type = "delivery"
  /\ legs' = [legs EXCEPT ![i].at = region]
  /\ UNCHANGED dropOff

FillIn(i, type) ==
  /\ Edit /\ legs[i].type = type
  /\ \E info \in {"blank", "typed"} : legs' = [legs EXCEPT ![i].info = info]
  /\ UNCHANGED dropOff

\* The speed and the zone group of the collection; its zones.
FillCollection(i) == FillIn(i, "collection")

FillDepot(i) == FillIn(i, "depot")

\* Day offset, transit and speed, charges, flags and days.
FillLinehaul(i) == FillIn(i, "linehaul")

FillDelivery(i) == FillIn(i, "delivery")

\* A zone's chip on the collection or the delivery card.
TickZone(i) == legs[i].type \in {"collection", "delivery"} /\ FillIn(i, legs[i].type)

\* The linehauls of the request: Nil tells the server to leave the rows alone.
SentRows ==
  LET rows == LinehaulRows(legs)
  IN  IF form = "new" THEN IF rows = <<>> THEN Nil ELSE rows
      ELSE IF rows = LinehaulRows(SeededLegs(columns)) THEN Nil ELSE rows

\* UpsertAsync and ValidateLinehauls on the request.
Accepted(rows, d) ==
  /\ rows # Nil => \A i \in DOMAIN rows : rows[i].to # Nil
  /\ d.origin = "direct" => ~d.collect /\ rows \in {Nil, <<>>}

\* ApplyTo: a depot origin keeps its depot when the request has none.
KeptDepot(d) ==
  IF columns # Nil /\ d.origin = "depot" /\ d.depot = Nil THEN columns.depot ELSE d.depot

\* Rows that are not sent stay.
KeptRows(rows) == IF rows # Nil THEN rows ELSE IF columns = Nil THEN <<>> ELSE columns.rows

Submit ==
  /\ RegionOf(legs) # Nil
  /\ LET d == Derived(legs)
     IN  /\ Accepted(SentRows, d)
         /\ columns' = [origin |-> d.origin, depot |-> KeptDepot(d), collect |-> d.collect,
                        pickup |-> d.pickup, storage |-> d.storage, rows |-> KeptRows(SentRows),
                        region |-> d.region, deliver |-> d.deliver, dropOff |-> dropOff]
  /\ form' = "shut" /\ legs' = <<>> /\ dropOff' = Nil
  /\ UNCHANGED edits

SaveNew == form = "new" /\ Submit

SaveDetail == form = "detail" /\ Submit

ChNext ==
  \/ OpenNew \/ OpenDetail \/ Shut \/ SaveNew \/ SaveDetail
  \/ \E type \in LegTypes : AddLeg(type)
  \/ \E i \in DOMAIN legs :
       \/ RemoveLeg(i)
       \/ FillCollection(i) \/ FillDepot(i) \/ FillLinehaul(i) \/ FillDelivery(i) \/ TickZone(i)
       \/ \E k \in DOMAIN legs : MoveLeg(i, k)
       \/ \E d \in ChDepots \cup {Nil} :
            \/ PickHaul(i, d) \/ PickHaulDrop(i, d) \/ PickRegion(i, d)
            \/ \E origin \in {"depot", "client", "direct"} : PickDepot(i, d, origin)
  \/ \E d \in ChDepots \cup {Nil} : PickDropOff(d)

ChSpec == ChInit /\ [][ChNext]_chVars

-----------------------------------------------------------------------------
Places == ChDepots \cup {Nil}

ChTypeOK ==
  /\ form \in {"shut", "new", "detail"} /\ dropOff \in Places /\ edits \in 0 .. MaxEdits
  /\ \A i \in DOMAIN legs :
       /\ legs[i].type \in LegTypes /\ legs[i].at \in Places /\ legs[i].drop \in Places
       /\ legs[i].origin \in {"depot", "client", "direct"} /\ legs[i].info \in {"blank", "typed"}

\* However legs are added, moved, removed and reopened, the delivery ends the chain, there is one
\* collection at most, only the first depot leg stands for the client's address or Direct, which
\* have no depot, and a linehaul drops off at the depot it goes to.
ChainShape ==
  \A i \in DOMAIN legs :
    /\ legs[i].type = "delivery" => i = Len(legs)
    /\ legs[i].type = "collection" => \A k \in DOMAIN legs : legs[k].type = "collection" => k = i
    /\ legs[i].origin # "depot" => i = FirstDepot(legs) /\ legs[i].at = Nil
    /\ legs[i].type = "linehaul" /\ Nil \notin {legs[i].at, legs[i].drop} => legs[i].drop = legs[i].at

\* What the legs cannot show: a collection or a storage state without a depot.
Shown(c) ==
  [c EXCEPT !.collect = c.collect /\ c.depot # Nil,
            !.pickup  = IF c.collect /\ c.depot # Nil THEN c.pickup ELSE "blank",
            !.storage = IF c.origin = "depot" /\ c.depot = Nil THEN "blank" ELSE c.storage]

\* Opening a schedule and saving it with the chain as it was (after another change, without which
\* Save is off) keeps where it starts, what it books and what is typed on its cards: the legs
\* carry all that the columns hold (F24), but for a collection that was saved without a depot.
UntouchedChainKept ==
  [][SaveDetail /\ legs = SeededLegs(columns) /\ dropOff = columns.dropOff
       => columns' = Shown(columns)]_chVars

\* "Direct origin: no Collection leg and no linehaul legs, both blocked in the chooser and rejected
\* server-side" (ScheduleDetailModal.tsx).
DirectHasNoLinehauls ==
  columns # Nil /\ columns.origin = "direct" => columns.rows = <<>>
===============================================================================
