----------------------------- MODULE ImportWizard -----------------------------
(***************************************************************************)
(* The bulk import wizard (NewImportWizard.tsx) over one file, from upload *)
(* to summary.  Its reducer state is wiz; the accumulators kept in refs    *)
(* are tally.  A request remembers the reducer state of the render that    *)
(* made it: its reply decides by that copy (a closure) and dispatches onto *)
(* the state of the moment.                                                *)
(*                                                                         *)
(* A depot bucket is named by its depot, in display order; the cursor      *)
(* (currentDepotIndex) is the depot it points at.  Rows that match no      *)
(* depot, or one without service, are Unmatched.  Columns, corrections and *)
(* templates are left out but for the depot they give a row.               *)
(***************************************************************************)
EXTENDS Integers, FiniteSets, FiniteSetsExt

CONSTANTS
  Rows,        \* rows of the file
  Depots,      \* depot ids, in display order
  CoverageOnly,\* the "Valid ZIP - Rate By Distance" bucket, or NoDepot
  BookDates,   \* book dates the operator may pick
  Trucks,      \* whether truck rows are in play
  Numbered,    \* rows carry job numbers, which the first pass holds against the table
  Careful,     \* the operator leaves neither a call under way nor a started import
  MaxCopies    \* bound: copies of one row the server takes on one date

ASSUME DepotsAssumption ==
  Depots \subseteq Nat \ {0} /\ IsFiniteSet(Depots) /\ CoverageOnly \in Depots \cup {0}

ASSUME RowsAssumption == IsFiniteSet(Rows) /\ BookDates # {}

NoDepot == 0

Unmatched == 0

NoCall == [pass |-> "none"]

VARIABLES
  opened,  \* the wizard is on the screen
  wiz,     \* WizardState
  tally,   \* perDepotResultsRef, summed, and failedImportJobsRef
  request, \* the request under way: its kind and the state its closure holds
  landed   \* tblBulkJob: how often a row is there, by date, since the wizard opened

wizVars == <<opened, wiz, tally, request, landed>>

Steps == {"newImport", "mapColumns", "fixZips", "fixAddresses", "selectRegions", "schedulePicker",
          "truckPreview", "rateByDistance", "kmRatedReview", "bookPickup", "summary"}

\* initialWizardState; the book date is the default of tomorrow.
Fresh ==
  [step |-> "newImport", group |-> [r \in Rows |-> Unmatched], depots |-> [d \in Depots |-> {}],
   selected |-> {}, cursor |-> NoDepot, completed |-> {}, date |-> CHOOSE d \in BookDates : TRUE,
   picked |-> FALSE, km |-> {}, kmSelected |-> {}, failed |-> {}, pickup |-> FALSE]

NoResults == [imported |-> 0, failed |-> 0, rows |-> {}]

WizInit ==
  /\ opened = FALSE
  /\ wiz = Fresh
  /\ tally = NoResults
  /\ request = NoCall
  /\ landed = [r \in Rows |-> [d \in BookDates |-> 0]]

IsIn(r) == \E d \in BookDates : landed[r][d] > 0

-------------------------------------------------------------------------------
(* The reducer                                                             *)

\* includedDepotBuckets: ticked buckets with rows.
Included(s) == {d \in Depots : s.depots[d] # {} /\ d \in s.selected}

Bucket(s) == IF s.cursor \in Included(s) THEN s.cursor ELSE NoDepot

\* nextPendingDepotIndex from the bucket after d.
NextPending(s, d) ==
  LET pending == {x \in Included(s) \ s.completed : x > d}
  IN  IF pending = {} THEN NoDepot ELSE Min(pending)

\* SET_CURRENT_DEPOT and START_PENDING_DEPOT: the picks are those of one depot.
AtDepot(s, d) == [s EXCEPT !.cursor = d, !.picked = FALSE]

\* seedDepotSelection: buckets not listed before are ticked, listed ones keep their tick.
SeedSelection(s, depots) ==
  {d \in Depots : depots[d] # {} /\ (s.depots[d] = {} \/ d \in s.selected \/ d \in s.completed)}

\* SEED_DEPOTS, with the buckets the rows fall into.
Seeded(s) ==
  LET depots == [d \in Depots |-> {r \in Rows : s.group[r] = d}]
  IN  [s EXCEPT !.depots = depots, !.selected = SeedSelection(s, depots)]

\* Mutant of KmRated: the ticks of the last review stay.
KmRatedKeepTicks(s, rows) == [s EXCEPT !.km = rows]

\* SET_KMRATED: every row is ticked at first.
KmRated(s, rows) == [s EXCEPT !.km = rows, !.kmSelected = rows]

Goto(s, step) == [s EXCEPT !.step = step]

-------------------------------------------------------------------------------
(* Steps of the operator                                                   *)

At(step) == opened /\ wiz.step = step

Idle == request = NoCall

Move(s) == wiz' = s /\ UNCHANGED <<opened, tally, request, landed>>

OpenWizard ==
  /\ ~opened
  /\ opened' = TRUE
  /\ landed' = [r \in Rows |-> [d \in BookDates |-> 0]]
  /\ UNCHANGED <<wiz, tally, request>>

\* handleClose, by Cancel, Escape or a click beside the dialog, which a request under way
\* does not disable.
CloseWizard ==
  /\ opened
  /\ Careful => Idle
  /\ opened' = FALSE
  /\ wiz' = Fresh
  /\ tally' = NoResults
  /\ UNCHANGED <<request, landed>>

\* handleUpload of NewImportModal; group is where the file's own columns put each row.
Upload(group) == At("newImport") /\ Idle /\ Move([Goto(wiz, "mapColumns") EXCEPT !.group = group])

\* A mapping, a replaced zip or the geocoder's postcode puts a row elsewhere.
Correct(r, d) ==
  /\ At("mapColumns") \/ At("fixZips") \/ At("fixAddresses")
  /\ wiz.group[r] # d
  /\ Move([wiz EXCEPT !.group[r] = d])

\* SET_CLIENT to another client, on the first step: the refs keep their results.
SwitchClient == At("newImport") /\ Idle /\ wiz # Fresh /\ Move(Fresh)

NextStep ==
  \/ At("mapColumns") /\ Move(Goto(wiz, "fixZips"))
  \/ At("fixZips") /\ Move(Goto(wiz, "fixAddresses"))
  \/ At("fixAddresses") /\ Move(Seeded(Goto(wiz, "selectRegions")))

\* Next of SelectRegionsModal: START_PENDING_DEPOT.
StartDepots ==
  /\ At("selectRegions")
  /\ NextPending(wiz, 0) # NoDepot
  /\ Move(Goto(AtDepot(wiz, NextPending(wiz, 0)), "schedulePicker"))

Back ==
  /\ Idle
  /\ \/ At("mapColumns") /\ Move(Goto(wiz, "newImport"))
     \/ At("fixZips") /\ Move(Goto(wiz, "mapColumns"))
     \/ At("fixAddresses") /\ Move(Goto(wiz, "fixZips"))
     \/ At("selectRegions") /\ (Careful => wiz.completed = {}) /\ Move(Goto(wiz, "fixAddresses"))
     \/ At("schedulePicker") /\ Move(Seeded(Goto(wiz, "selectRegions")))
     \/ At("truckPreview") /\ Move(Goto(wiz, "schedulePicker"))
     \/ At("rateByDistance") /\ Move(Goto(wiz, "schedulePicker"))

\* TOGGLE_REGION; the box of an imported depot is locked.
ToggleDepot(d) ==
  /\ At("selectRegions")
  /\ wiz.depots[d] # {} /\ d \notin wiz.completed
  /\ Move([wiz EXCEPT !.selected = IF d \in @ THEN @ \ {d} ELSE @ \cup {d}])

\* Book date, service and schedule of the depot, picked or preselected.
Pick(date) == At("schedulePicker") /\ Idle /\ Move([wiz EXCEPT !.date = date, !.picked = TRUE])

ToggleKmRow(r) ==
  /\ At("kmRatedReview") /\ Idle
  /\ r \in wiz.km
  /\ Move([wiz EXCEPT !.kmSelected = IF r \in @ THEN @ \ {r} ELSE @ \cup {r}])

-------------------------------------------------------------------------------
(* The import requests                                                     *)

\* The belt and braces test of fireImportForCurrentDepot.
AlreadyImported(s) == Bucket(s) \in s.completed

Call(pass) == request' = [pass |-> pass, seen |-> wiz]

\* afterSchedulePicker, showTruckPrices.
SubmitPicks ==
  /\ At("schedulePicker") /\ Idle
  /\ wiz.picked
  /\ IF Bucket(wiz) = CoverageOnly /\ CoverageOnly # NoDepot
     THEN Move(Goto(wiz, "rateByDistance"))
     ELSE /\ ~AlreadyImported(wiz)
          /\ Call(IF Trucks THEN "preview" ELSE "first")
          /\ UNCHANGED <<opened, wiz, tally, landed>>

\* The Import button of the price list, and afterRateByDistance.
ConfirmImport ==
  /\ At("truckPreview") \/ At("rateByDistance")
  /\ Idle
  /\ ~AlreadyImported(wiz)
  /\ Call("first")
  /\ UNCHANGED <<opened, wiz, tally, landed>>

\* onKmRatedUpload: the rows left out count as failed before the call is made.
UploadKmRows ==
  /\ At("kmRatedReview") /\ Idle
  /\ wiz.kmSelected # {}
  /\ LET left == tally.rows \cup (wiz.km \ wiz.kmSelected)
     IN  /\ tally' = [tally EXCEPT !.rows = left]
         /\ wiz' = [wiz EXCEPT !.failed = IF wiz.km = wiz.kmSelected THEN @ ELSE left]
  /\ Call("km")
  /\ UNCHANGED <<opened, landed>>

\* buildDepotPayload: with no bucket at the cursor, every row.
Payload(c) ==
  IF c.pass = "km" THEN c.seen.kmSelected
  ELSE IF Bucket(c.seen) = NoDepot THEN Rows ELSE c.seen.depots[Bucket(c.seen)]

\* Mutant of Counted: the failed rows of a pass replace those of the passes before.
CountedAfresh(t, imported, failed, rows) ==
  [imported |-> t.imported + imported, failed |-> t.failed + failed, rows |-> rows]

\* One result added to both accumulators.
Counted(t, imported, failed, rows) ==
  [imported |-> t.imported + imported, failed |-> t.failed + failed, rows |-> t.rows \cup rows]

\* Mutant of FirstResult: the detour to the review forgets what already went in.
FirstResultLost(t, n, refused) == t

\* The result of a first pass that goes on to the km-rated review.
FirstResult(t, n, refused) == Counted(t, n, Cardinality(refused), refused)

\* Mutant of MarkDone: a depot that was sent stays pending.
NotMarked(s, d) == s

MarkDone(s, d) == IF d = NoDepot THEN s ELSE [s EXCEPT !.completed = @ \cup {d}]

FollowingDepot(s) == NextPending(s, s.cursor)

\* advanceOrFinish, called with the closure's state seen: the next pending depot, the
\* pickup, the summary, or the end.  now and t are what the replies dispatched so far.
AdvanceOrFinish(seen, now, t, pickup) ==
  IF FollowingDepot(seen) # NoDepot
  THEN /\ wiz' = Goto(KmRated(AtDepot(now, FollowingDepot(seen)), {}), "schedulePicker")
       /\ tally' = t
       /\ UNCHANGED opened
  ELSE IF pickup \/ t.failed > 0 \/ seen.failed # {}
  THEN /\ wiz' = Goto(now, IF pickup THEN "bookPickup" ELSE "summary")
       /\ tally' = t
       /\ UNCHANGED opened
  ELSE /\ wiz' = Fresh
       /\ tally' = NoResults
       /\ opened' = FALSE

\* onKmRatedSkip.
SkipKmRows ==
  /\ At("kmRatedReview") /\ Idle
  /\ LET t == Counted(tally, 0, Cardinality(wiz.km), wiz.km)
     IN  AdvanceOrFinish(wiz, [wiz EXCEPT !.failed = t.rows], t, wiz.pickup)
  /\ UNCHANGED <<request, landed>>

-------------------------------------------------------------------------------
(* The server and its replies                                              *)

Land(rows, date) == landed' = [r \in Rows |-> IF r \in rows THEN [landed[r] EXCEPT ![date] = @ + 1]
                                                   ELSE landed[r]]

\* ProcessRoutedJobs, first pass: no job number of the request is there on the date; what needs
\* a distance rate or is a refused truck row is returned, the others are inserted.
FirstPass(c, returned) ==
  /\ \A r \in Payload(c), d \in BookDates : landed[r][d] < MaxCopies
  /\ Numbered => \A r \in Payload(c) : landed[r][c.seen.date] = 0
  /\ Land(Payload(c) \ returned, c.seen.date)

\* The second pass inserts without that test.
KmPass(c, returned) ==
  /\ \A r \in Payload(c), d \in BookDates : landed[r][d] < MaxCopies
  /\ Land(Payload(c) \ returned, c.seen.date)

\* The reply: rows returned for review, truck rows refused, and whether a pickup came back.
Imported(review, refused, pickup) ==
  LET c == request
      returned == review \cup refused
      n == Cardinality(Payload(c) \ returned)
      now == [MarkDone(wiz, Bucket(c.seen)) EXCEPT !.pickup = @ \/ pickup]
  IN  /\ c.pass \in {"first", "km"}
      /\ returned \subseteq Payload(c) /\ review \cap refused = {}
      /\ refused # {} => Trucks
      /\ returned # Payload(c) \/ (c.pass = "first" /\ review # {})
      /\ IF c.pass = "km" THEN KmPass(c, returned) ELSE FirstPass(c, returned)
      /\ request' = NoCall
      /\ IF c.pass = "first" /\ review # {}
         THEN LET t == FirstResult(tally, n, refused)
              IN  /\ tally' = t
                  /\ wiz' = Goto(KmRated([now EXCEPT !.failed = IF refused = {} THEN @ ELSE t.rows],
                                         review), "kmRatedReview")
                  /\ UNCHANGED opened
         ELSE LET t == Counted(tally, n, Cardinality(returned), returned)
              IN  AdvanceOrFinish(c.seen, [now EXCEPT !.failed = IF returned = {} THEN @ ELSE t.rows],
                                  t, c.seen.pickup \/ pickup)

\* Nothing landed and truck rows were refused: that is the outcome.
AllRefused ==
  LET c == request
      t == Counted(tally, 0, Cardinality(Payload(c)), Payload(c))
  IN  /\ c.pass \in {"first", "km"}
      /\ Trucks
      /\ request' = NoCall
      /\ AdvanceOrFinish(c.seen, [MarkDone(wiz, Bucket(c.seen)) EXCEPT !.failed = t.rows], t,
                         c.seen.pickup)
      /\ UNCHANGED landed

\* The request is rejected, or fails: importError, and the operator stays on the step.
Rejected ==
  /\ request # NoCall
  /\ request' = NoCall
  /\ UNCHANGED <<opened, wiz, tally, landed>>

\* previewTruckRows: a price list, or no truck row after all and the import goes out with
\* the same closure.
Previewed(hasTrucks) ==
  /\ request # NoCall /\ request.pass = "preview"
  /\ IF hasTrucks
     THEN wiz' = Goto(wiz, "truckPreview") /\ request' = NoCall
     ELSE request' = [request EXCEPT !.pass = "first"] /\ UNCHANGED wiz
  /\ UNCHANGED <<opened, tally, landed>>

\* onBooked of BookPickupModal.
FinishPickup ==
  /\ At("bookPickup")
  /\ IF wiz.failed # {} \/ tally.failed > 0
     THEN Move(Goto(wiz, "summary"))
     ELSE /\ opened' = FALSE
          /\ wiz' = Fresh
          /\ tally' = NoResults
          /\ UNCHANGED <<request, landed>>

-------------------------------------------------------------------------------
Prepare ==
  \/ OpenWizard \/ CloseWizard \/ SwitchClient \/ NextStep \/ Back \/ StartDepots
  \/ \E group \in [Rows -> Depots \cup {Unmatched}] : Upload(group)
  \/ \E r \in Rows, d \in Depots \cup {Unmatched} : Correct(r, d)
  \/ \E d \in Depots : ToggleDepot(d)
  \/ \E date \in BookDates : Pick(date)
  \/ \E r \in Rows : ToggleKmRow(r)

Send == SubmitPicks \/ ConfirmImport \/ UploadKmRows \/ SkipKmRows \/ FinishPickup

Reply ==
  \/ \E review, refused \in SUBSET Rows, pickup \in BOOLEAN : Imported(review, refused, pickup)
  \/ AllRefused
  \/ Rejected
  \/ \E hasTrucks \in BOOLEAN : Previewed(hasTrucks)

WizNext == Prepare \/ Send \/ Reply

WizSpec == WizInit /\ [][WizNext]_wizVars

-------------------------------------------------------------------------------
(* Properties                                                              *)

WizState ==
  [step : Steps, group : [Rows -> Depots \cup {Unmatched}], depots : [Depots -> SUBSET Rows],
   selected : SUBSET Depots, cursor : Depots \cup {NoDepot}, completed : SUBSET Depots,
   date : BookDates, picked : BOOLEAN, km : SUBSET Rows, kmSelected : SUBSET Rows,
   failed : SUBSET Rows, pickup : BOOLEAN]

\* The wizard's state is well formed, and ticks are on rows under review.
WizTypeOK ==
  /\ wiz.kmSelected \subseteq wiz.km
  /\ opened \in BOOLEAN
  /\ wiz \in WizState
  /\ tally \in [imported : Nat, failed : Nat, rows : SUBSET Rows]
  /\ request \in [pass : {"preview", "first", "km"}, seen : WizState] \cup {NoCall}
  /\ landed \in [Rows -> [BookDates -> Nat]]

\* No row of the file reaches tblBulkJob twice, on whatever dates, however the operator
\* goes back and forth between depots, retries and km-rated reviews.
NoRowTwice ==
  \A r \in Rows : \A d, e \in BookDates :
    landed[r][d] > 0 /\ landed[r][e] > 0 => d = e /\ landed[r][d] = 1

\* The count the closing toast and the summary give is what the server took.
Taken == UNION {{<<r, d, n>> : n \in 1 .. landed[r][d]} : r \in Rows, d \in BookDates}

TallyIsWhatLanded == opened => tally.imported = Cardinality(Taken)

\* The wizard closes by itself: no summary is to be shown.
ClosesItself == opened /\ ~opened' /\ (FinishPickup \/ SkipKmRows \/ Reply)

\* Every row of a ticked depot that did not reach the server is listed when the wizard comes to its
\* summary, whether it was refused, skipped or left out of a km-rated upload, and when it closes
\* without one there is no such row, but for those unticked in the review just answered:
\* advanceOrFinish has not seen them, against the comment of KmRatedReviewModal.tsx.
SummaryListsTheRest ==
  [][LET rest == {r \in UNION {wiz.depots[d] : d \in Included(wiz)} : ~IsIn(r)'}
     IN  /\ At("summary")' => rest \subseteq wiz'.failed
         /\ ClosesItself => rest \subseteq (IF request # NoCall /\ request.pass = "km"
                                          THEN request.seen.km \ request.seen.kmSelected ELSE {})]_wizVars
===============================================================================
