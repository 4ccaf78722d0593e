-------------------------------- MODULE ShiftPage --------------------------------
(****************************************************************************)
(* The /driver-scheduling page: the schedules and slots of the chosen date, *)
(* by location, the couriers of the chosen schedule, the dialogs over them  *)
(* and the requests they send.  Feeds are cached by date and by schedule,   *)
(* polled, and fetched again after each write; a fetch is read and shown in *)
(* one step.  The service's rules are those of DriverScheduling: here a     *)
(* request does what it asks or is refused, and others do the same.         *)
(****************************************************************************)
EXTENDS Naturals, FiniteSets

CONSTANTS
  ShSchedules, \* ids of CourierSchedule, each with one courier
  ShSlots,     \* ids of CourierScheduleTimeSlot
  ShDayOf,     \* the date of a schedule or slot
  ShPlaceOf,   \* and its location, numbered in the order of their names
  MaxSh        \* bound: requests, and writes of others

ASSUME ShAssumption ==
  /\ DOMAIN ShDayOf = ShSchedules \cup ShSlots /\ DOMAIN ShPlaceOf = DOMAIN ShDayOf
  /\ DOMAIN ShDayOf \subseteq Nat \ {0} /\ ShSchedules \cap ShSlots = {}
  /\ \A i \in DOMAIN ShPlaceOf : ShPlaceOf[i] \in Nat \ {0}
  /\ MaxSh \in Nat

VARIABLES
  shTable, \* server: the rows there are, the notified ones, answers and places on slots
  shFeeds, \* what each query of the page shows, as shTable was when it was read
  shLook,  \* bookDate, selectedLocation, selectedScheduleId, responseTab
  shOpen,  \* the dialog over the page, addTimeSlotOpen apart
  shCalls, \* requests not answered
  shCount  \* requests and writes of others so far

shVars == <<shTable, shFeeds, shLook, shOpen, shCalls, shCount>>

ShDates == {ShDayOf[i] : i \in DOMAIN ShDayOf}

NoOne == [rows |-> {}, notified |-> {}, answer |-> [s \in ShSchedules |-> 0],
          place |-> [s \in ShSchedules |-> 0]]

ShTables ==
  [rows : SUBSET DOMAIN ShDayOf, notified : SUBSET ShSchedules,
   answer : [ShSchedules -> {0, 1, 3}], place : [ShSchedules -> ShSlots \cup {0}]]

FeedKeys == {<<"summaries", d>> : d \in ShDates} \cup {<<"couriers", s>> : s \in ShSchedules}
              \cup {<<"pending", 0>>}

ShClosed == [what |-> "none", id |-> 0, ids |-> {}]

ShInit ==
  /\ \E rows \in SUBSET DOMAIN ShDayOf, answer \in [ShSchedules -> {0, 1, 3}] :
       \E notified \in SUBSET (rows \cap ShSchedules) :
         /\ \A s \in ShSchedules : answer[s] # 0 => s \in notified
         /\ shTable = [NoOne EXCEPT !.rows = rows, !.notified = notified, !.answer = answer]
  /\ shFeeds = [k \in FeedKeys |-> NoOne]
  /\ \E d \in ShDates : shLook = [day |-> d, place |-> 0, sel |-> 0, tab |-> 0, adding |-> FALSE]
  /\ shOpen = ShClosed /\ shCalls = {} /\ shCount = 0

-----------------------------------------------------------------------------
OfDay(i) == ShDayOf[i] = shLook.day

Summaries == shFeeds[<<"summaries", shLook.day>>]

\* The locations that have a schedule on the date.
ShPlaces == {ShPlaceOf[s] : s \in {x \in ShSchedules \cap Summaries.rows : OfDay(x)}}

\* effectiveLocation: the chosen one, else the first of the summaries, whichever that is by now.
EffectiveLocation ==
  IF shLook.place # 0 THEN shLook.place
  ELSE IF ShPlaces = {} THEN 0 ELSE CHOOSE l \in ShPlaces : \A k \in ShPlaces : l <= k

\* currentLocationSummary: the cards and slots of the location, if the summaries have it.
ShShown ==
  IF EffectiveLocation \notin ShPlaces THEN {}
  ELSE {i \in Summaries.rows : OfDay(i) /\ ShPlaceOf[i] = EffectiveLocation}

\* The row of the chosen schedule's courier, once it was notified.
ShRow == shFeeds[<<"couriers", shLook.sel>>]

HasRow == shLook.sel # 0 /\ shLook.sel \in ShRow.notified

\* The Pending tab has the row without an answer, the others those of their status.
RowListed == HasRow /\ ShRow.answer[shLook.sel] = shLook.tab

\* The queries in use: the summaries of the date, the chosen schedule's couriers, notifications.
InUse == {<<"summaries", shLook.day>>, <<"pending", 0>>}
           \cup (IF shLook.sel = 0 THEN {} ELSE {<<"couriers", shLook.sel>>})

\* A mount, poll, Refresh or invalidation; couriers of a deleted schedule cannot be had.
FetchFeed(k) ==
  /\ k \in InUse /\ (k[1] = "couriers" => k[2] \in shTable.rows)
  /\ shFeeds' = [shFeeds EXCEPT ![k] = shTable]
  /\ UNCHANGED <<shTable, shLook, shOpen, shCalls, shCount>>

-----------------------------------------------------------------------------
\* A dialog covers the page; the one for a new slot is there while there is a location.
ShCovered == shOpen # ShClosed \/ (shLook.adding /\ EffectiveLocation # 0)

ShLookAt(look) ==
  /\ ~ShCovered /\ shLook' = look
  /\ UNCHANGED <<shTable, shFeeds, shOpen, shCalls, shCount>>

\* Mutant: another date keeps the chosen location and schedule.
DateOnly(look, d) == [look EXCEPT !.day = d]

\* setBookDate and the effect after it.
OnDate(look, d) == [look EXCEPT !.day = d, !.place = 0, !.sel = 0]

ChooseDate(d) == d # shLook.day /\ ShLookAt(OnDate(shLook, d))

ChooseLocation(l) == l \in ShPlaces /\ ShLookAt([shLook EXCEPT !.place = l, !.sel = 0])

\* A click on a card; the couriers stay when the location under them changes by itself.
ChooseSchedule(s) == s \in ShShown \cap ShSchedules /\ ShLookAt([shLook EXCEPT !.sel = s])

ChooseTab(answer) == ShLookAt([shLook EXCEPT !.tab = answer])

OpenAddTimeSlot == EffectiveLocation # 0 /\ ShLookAt([shLook EXCEPT !.adding = TRUE])

ShOpenDialog(what, id, ids) ==
  /\ ~ShCovered /\ shOpen' = [what |-> what, id |-> id, ids |-> ids]
  /\ UNCHANGED <<shTable, shFeeds, shLook, shCalls, shCount>>

OpenCreateOrCopy(what) == what \in {"create", "copy"} /\ ShOpenDialog(what, 0, {})

\* openBulkNotify: the picker ticks what is pending when it opens, and lists what is pending later.
OpenBulkNotify ==
  LET feed == shFeeds[<<"pending", 0>>]
      pending == (feed.rows \cap ShSchedules) \ feed.notified
  IN  pending # {} /\ ShOpenDialog("picker", 0, pending)

TogglePicked(s) ==
  /\ shOpen.what = "picker"
  /\ LET feed == shFeeds[<<"pending", 0>>] IN s \in (feed.rows \cap ShSchedules) \ feed.notified
  /\ shOpen' = [shOpen EXCEPT !.ids = IF s \in @ THEN @ \ {s} ELSE @ \cup {s}]
  /\ UNCHANGED <<shTable, shFeeds, shLook, shCalls, shCount>>

\* The confirmations of Delete and Send reminders, on a card, and of a slot's deletion.
AskCard(what, s) ==
  /\ what = (IF s \in Summaries.notified THEN "remind" ELSE "delete")
  /\ s \in ShShown \cap ShSchedules /\ ShOpenDialog(what, s, {})

AskSlot(what, t) ==
  what \in {"deleteSlot", "editSlot"} /\ t \in ShShown \cap ShSlots /\ ShOpenDialog(what, t, {})

OpenAssign == RowListed /\ shLook.tab = 1 /\ ShOpenDialog("assign", shLook.sel, {})

\* The replies to a dialog that is gone find it unmounted.
Unmount(what) == {[c EXCEPT !.mounted = @ /\ c.what # what] : c \in shCalls}

\* Cancel, Escape or a click beside the dialog, which works while it is submitting too.
CloseDialog ==
  /\ ShCovered
  /\ shOpen' = ShClosed
  /\ shLook' = [shLook EXCEPT !.adding = @ /\ shOpen # ShClosed]
  /\ shCalls' = Unmount(IF shOpen = ShClosed THEN "addSlot" ELSE shOpen.what)
  /\ UNCHANGED <<shTable, shFeeds, shCount>>

-----------------------------------------------------------------------------
\* A request; day is bookDate when it is sent.
ShAsk(what, id, ids, value) ==
  /\ shCount < MaxSh /\ shCount' = shCount + 1
  /\ shCalls' = shCalls \cup {[n |-> shCount, what |-> what, id |-> id, ids |-> ids,
                              value |-> value, day |-> shLook.day, from |-> shLook.sel,
                              mounted |-> TRUE, phase |-> "sent"]}
  /\ UNCHANGED <<shTable, shFeeds, shLook>>

NotifyCard(s) ==
  /\ ~ShCovered /\ s \in (ShShown \cap ShSchedules) \ Summaries.notified
  /\ ShAsk("notify", s, {s}, 0) /\ UNCHANGED shOpen

\* toggleAvailability, of a courier that has answered.
ToggleAvailability(answer) ==
  /\ ~ShCovered /\ RowListed /\ shLook.tab # 0 /\ answer \in {1, 3} \ {shLook.tab}
  /\ ShAsk("status", shLook.sel, {}, answer) /\ UNCHANGED shOpen

\* The confirmed calls: the dialog is gone when they are sent.
ShConfirm ==
  /\ shOpen.what \in {"delete", "remind", "deleteSlot"} /\ shOpen' = ShClosed
  /\ ShAsk(shOpen.what, shOpen.id, {}, 0)

SendPicked ==
  /\ shOpen.what = "picker" /\ shOpen.ids # {}
  /\ ShAsk("picker", 0, shOpen.ids, 0) /\ UNCHANGED shOpen

\* submitting, of a dialog since it was opened.
Submitting(what) == \E c \in shCalls : c.what = what /\ c.mounted

\* Submit of the other dialogs, disabled while one is under way; a slot is drawn up or moved on
\* the date of the page, whatever the dialog was opened on.
SubmitDialog ==
  /\ shOpen.what \in {"create", "copy", "editSlot"} /\ ~Submitting(shOpen.what)
  /\ ShAsk(shOpen.what, shOpen.id, {}, 0) /\ UNCHANGED shOpen

SubmitTimeSlot ==
  /\ shOpen = ShClosed /\ shLook.adding /\ EffectiveLocation # 0 /\ ~Submitting("addSlot")
  /\ ShAsk("addSlot", EffectiveLocation, {}, 0) /\ UNCHANGED shOpen

\* A slot of the location shown by now, or reserve.
SubmitAssign(t) ==
  /\ shOpen.what = "assign" /\ ~Submitting("assign") /\ EffectiveLocation \in ShPlaces
  /\ t = 0 \/ t \in ShShown \cap ShSlots
  /\ ShAsk("assign", shOpen.id, {}, t) /\ UNCHANGED shOpen

-----------------------------------------------------------------------------
\* What a request leaves in the tables when it is not refused.
ShDone(c) ==
  CASE c.what \in {"notify", "picker"} ->
         {[shTable EXCEPT !.notified = @ \cup (c.ids \cap shTable.rows)]}
    [] c.what = "delete" -> {[shTable EXCEPT !.rows = @ \ {c.id}] : s \in {c.id} \ shTable.notified}
    [] c.what = "deleteSlot" ->
         {[shTable EXCEPT !.rows = @ \ {c.id},
                          !.place = [s \in ShSchedules |-> IF @[s] = c.id THEN 0 ELSE @[s]]]}
    [] c.what = "status" ->
         {[shTable EXCEPT !.answer[c.id] = c.value, !.place[c.id] = IF c.value = 3 THEN 0 ELSE @]}
    [] c.what = "assign" ->
         {[shTable EXCEPT !.place[c.id] = c.value] :
            s \in {x \in {c.id} : shTable.answer[x] = 1 /\ (c.value = 0 \/
                     (c.value \in shTable.rows /\ ShDayOf[c.value] = ShDayOf[x]))}}
    [] c.what = "create" -> {[shTable EXCEPT !.rows = @ \cup {s}] : s \in
                               {x \in ShSchedules \ shTable.rows : ShDayOf[x] = c.day}}
    [] c.what = "addSlot" -> {[shTable EXCEPT !.rows = @ \cup {t}] : t \in
                               {x \in ShSlots \ shTable.rows :
                                  ShDayOf[x] = c.day /\ ShPlaceOf[x] = c.id}}
    [] c.what = "copy" -> {[shTable EXCEPT !.rows = @ \cup {s}] : s \in
                               {x \in ShSchedules \ shTable.rows : ShDayOf[x] # c.day}}
    [] OTHER -> {shTable}

ServeShift(c) ==
  /\ c \in shCalls /\ c.phase = "sent"
  /\ \E reply \in {"done", "refused"} :
       /\ IF reply = "done" THEN shTable' \in ShDone(c) ELSE UNCHANGED shTable
       /\ shCalls' = (shCalls \ {c}) \cup {[c EXCEPT !.phase = reply]}
  /\ UNCHANGED <<shFeeds, shLook, shOpen, shCount>>

\* The dialog a reply closes: whichever of its kind is open by then.
ClosedBy(c) ==
  IF c.what \notin {"create", "copy", "picker", "editSlot", "assign"} THEN shOpen
  ELSE IF shOpen.what = c.what THEN ShClosed ELSE shOpen

\* doDelete lets the schedule go that was chosen when it was clicked.
AnswerShift(c) ==
  /\ c \in shCalls /\ c.phase \in {"done", "refused"}
  /\ IF c.phase = "refused" THEN shCalls' = shCalls \ {c} /\ UNCHANGED <<shLook, shOpen>>
     ELSE /\ shCalls' = {x \in Unmount(c.what) : x.n # c.n}
          /\ shOpen' = ClosedBy(c)
          /\ shLook' = [shLook EXCEPT !.adding = @ /\ c.what # "addSlot",
                                      !.sel = IF c.what = "delete" /\ c.from = c.id THEN 0 ELSE @]
  /\ UNCHANGED <<shTable, shFeeds, shCount>>

\* Another operator, or the courier who answers through the portal.
OthersShift ==
  /\ shCount < MaxSh /\ shCount' = shCount + 1
  /\ \/ \E i \in DOMAIN ShDayOf \ shTable.rows : shTable' = [shTable EXCEPT !.rows = @ \cup {i}]
     \/ \E i \in shTable.rows \ shTable.notified :
          /\ \A s \in ShSchedules : shTable.place[s] # i
          /\ shTable' = [shTable EXCEPT !.rows = @ \ {i}]
     \/ \E s \in shTable.notified, answer \in {1, 3} :
          shTable.answer[s] = 0 /\ shTable' = [shTable EXCEPT !.answer[s] = answer]
  /\ UNCHANGED <<shFeeds, shLook, shOpen, shCalls>>

ShNext ==
  \/ \E k \in FeedKeys : FetchFeed(k)
  \/ \E d \in ShDates : ChooseDate(d)
  \/ \E l \in ShPlaces : ChooseLocation(l)
  \/ \E a \in {0, 1, 3} : ChooseTab(a) \/ ToggleAvailability(a)
  \/ \E s \in ShSchedules : ChooseSchedule(s) \/ NotifyCard(s) \/ TogglePicked(s)
  \/ \E s \in ShSchedules, what \in {"delete", "remind"} : AskCard(what, s)
  \/ \E t \in ShSlots, what \in {"deleteSlot", "editSlot"} : AskSlot(what, t)
  \/ \E what \in {"create", "copy"} : OpenCreateOrCopy(what)
  \/ \E t \in ShSlots \cup {0} : SubmitAssign(t)
  \/ OpenAddTimeSlot \/ OpenBulkNotify \/ OpenAssign \/ CloseDialog
  \/ ShConfirm \/ SendPicked \/ SubmitDialog \/ SubmitTimeSlot
  \/ \E c \in shCalls : ServeShift(c) \/ AnswerShift(c)
  \/ OthersShift

ShSpec == ShInit /\ [][ShNext]_shVars

-----------------------------------------------------------------------------
ShTypeOK ==
  /\ shTable \in ShTables /\ \A k \in FeedKeys : shFeeds[k] \in ShTables
  /\ shTable.notified \subseteq shTable.rows
  /\ shLook \in [day : ShDates, place : {ShPlaceOf[i] : i \in DOMAIN ShPlaceOf} \cup {0},
                 sel : ShSchedules \cup {0}, tab : {0, 1, 3}, adding : BOOLEAN]
  /\ shOpen.ids \subseteq ShSchedules
  /\ \A c \in shCalls : c.phase \in {"sent", "done", "refused"}

\* The effect on bookDate is there so that nothing chosen on one date is acted upon under
\* another: whatever is polled, closed or answered late meanwhile, a request about a schedule, an
\* answer or a slot was sent from the page of its date, and an edited slot stays on its day.
ActsOnItsDate ==
  \A c \in shCalls : c.id \in DOMAIN ShDayOf /\ c.what # "addSlot" => ShDayOf[c.id] = c.day
=================================================================================
