------------------------- MODULE DriverSchedulingProofs -------------------------
(***************************************************************************)
(* DriverSchedulingService for any schedules, slots, couriers and days:    *)
(* no courier is available twice at once, no place is left on a slot       *)
(* without an available courier, no answered schedule goes, and no slot    *)
(* that gains a courier is over its limit.                                 *)
(***************************************************************************)
EXTENDS DriverScheduling, FiniteSetTheorems, TLAPS

\* The inductive invariant: a status turned back to Available finds its slot given up already
\* (PlaceHeldByAvailable), and the windows of answered schedules no longer change
\* (AnsweredScheduleStays).
Inv == TypeOK /\ PlaceHeldByAvailable /\ AnsweredScheduleStays /\ NoDoubleBooking

-------------------------------------------------------------------------------
(* Time                                                                    *)

\* Every instant is its day's first tick and a time of day.
LEMMA DayAndTime ==
  ASSUME NEW i \in Nat
  PROVE  /\ i = DateOf(i) * Ticks + (i % Ticks)
         /\ DateOf(i) \in Nat /\ i % Ticks \in 0 .. Ticks - 1
  BY TimeAssumption DEF DateOf

\* Days are disjoint intervals of ticks.
LEMMA MulLe ==
  ASSUME NEW a \in Int, NEW b \in Int, a + 1 <= b
  PROVE  a * Ticks + Ticks <= b * Ticks
<1>1. \A t \in Nat, x \in Int, y \in Int : x + 1 <= y => x * t + t <= y * t
  OBVIOUS
<1> QED
  BY <1>1, TimeAssumption

\* A later instant is not of an earlier day.
LEMMA DatesInOrder ==
  ASSUME NEW i \in Nat, NEW j \in Nat, i <= j
  PROVE  DateOf(i) <= DateOf(j)
<1>1. /\ i = DateOf(i) * Ticks + (i % Ticks) /\ j = DateOf(j) * Ticks + (j % Ticks)
      /\ DateOf(i) \in Nat /\ DateOf(j) \in Nat
      /\ i % Ticks \in 0 .. Ticks - 1 /\ j % Ticks \in 0 .. Ticks - 1
  BY DayAndTime
<1> QED
  BY <1>1, MulLe, TimeAssumption

\* A tick of a day is of that day.
LEMMA TickOfDay ==
  ASSUME NEW d \in Nat, NEW r \in 0 .. Ticks - 1
  PROVE  DateOf(d * Ticks + r) = d
<1>1. \A t \in Nat \ {0}, x \in Nat, y \in Nat : y < t => (x * t + y) \div t = x
  OBVIOUS
<1> QED
  BY <1>1, TimeAssumption DEF DateOf

\* A moved instant is an instant of the new day.
LEMMA MovedInDay ==
  ASSUME NEW i \in Nat, NEW d \in Dates
  PROVE  /\ Moved(i, d) \in Instants /\ DateOf(Moved(i, d)) = d
         /\ Moved(i, d) = d * Ticks + (i % Ticks)
<1>1. i % Ticks \in 0 .. Ticks - 1 /\ d \in Nat /\ d + 1 <= Days
  BY DayAndTime, TimeAssumption DEF Dates
<1>2. d * Ticks + Ticks <= Days * Ticks
  BY <1>1, MulLe, TimeAssumption
<1>3. d * Ticks \in Nat
  BY <1>1, TimeAssumption
<1> QED
  BY <1>1, <1>2, <1>3, TickOfDay, TimeAssumption DEF Moved, Instants

\* A moved window is a window: a copy that starts before it ends does so on its own day.
LEMMA MovedIsWindow ==
  ASSUME NEW w \in Windows, NEW d \in Dates
  PROVE  MovedWindow(w, d) \in Windows
<1> DEFINE a == w[1]
           z == w[2] - 1
<1>1. a \in Nat /\ z \in Nat /\ a <= z /\ DateOf(a) = DateOf(z)
  BY TimeAssumption DEF Windows, Instants
<1> HIDE DEF a, z
<1>2. a = DateOf(a) * Ticks + (a % Ticks) /\ z = DateOf(a) * Ticks + (z % Ticks)
      /\ a % Ticks \in Nat /\ z % Ticks \in Nat /\ DateOf(a) * Ticks \in Nat
  <2>1. a = DateOf(a) * Ticks + (a % Ticks) /\ DateOf(a) \in Nat /\ a % Ticks \in 0 .. Ticks - 1
    BY <1>1, DayAndTime
  <2>2. z = DateOf(z) * Ticks + (z % Ticks) /\ z % Ticks \in 0 .. Ticks - 1
    BY <1>1, DayAndTime
  <2> QED
    BY <1>1, <2>1, <2>2, TimeAssumption
<1>3. a % Ticks <= z % Ticks
  BY <1>1, <1>2
<1>4. /\ Moved(a, d) \in Instants /\ Moved(z, d) \in Instants
      /\ DateOf(Moved(a, d)) = DateOf(Moved(z, d))
      /\ Moved(a, d) = d * Ticks + (a % Ticks) /\ Moved(z, d) = d * Ticks + (z % Ticks)
  BY <1>1, MovedInDay
<1>5. d * Ticks \in Nat
  BY TimeAssumption DEF Dates
<1>6. Moved(a, d) <= Moved(z, d)
  BY <1>2, <1>3, <1>4, <1>5
<1>7. Moved(z, d) + 1 \in 1 .. Days * Ticks /\ Moved(z, d) + 1 - 1 = Moved(z, d)
  BY <1>4, TimeAssumption DEF Instants
<1>8. MovedWindow(w, d) = <<Moved(a, d), Moved(z, d) + 1>>
  BY DEF MovedWindow, a, z
<1> QED
  BY <1>4, <1>6, <1>7, <1>8 DEF Windows, Instants

\* Windows that share an instant are of one day, and the test of HasConflictingSchedule sees it.
LEMMA SharedIsSeen ==
  ASSUME NEW w \in Windows, NEW v \in Windows, NEW i \in Instants, Within(i, w), Within(i, v)
  PROVE  DateOf(w[1]) = DateOf(v[1]) /\ Overlaps(w, v) /\ Overlaps(v, w)
<1>1. ASSUME NEW u \in Windows, Within(i, u) PROVE DateOf(u[1]) = DateOf(i)
  <2>1. u[1] \in Nat /\ u[2] - 1 \in Nat /\ i \in Nat /\ u[1] <= i /\ i <= u[2] - 1
        /\ DateOf(u[1]) = DateOf(u[2] - 1)
    BY <1>1, TimeAssumption DEF Windows, Instants, Within
  <2>2. DateOf(u[1]) <= DateOf(i) /\ DateOf(i) <= DateOf(u[2] - 1)
    BY <2>1, DatesInOrder
  <2>3. DateOf(u[1]) \in Nat /\ DateOf(i) \in Nat
    BY <2>1, DayAndTime
  <2> QED
    BY <2>1, <2>2, <2>3
<1>2. Overlaps(w, v) /\ Overlaps(v, w)
  <2>1. w[1] \in Int /\ w[2] \in Int /\ v[1] \in Int /\ v[2] \in Int /\ i \in Int
    BY TimeAssumption DEF Windows, Instants
  <2>2. w[1] <= i /\ i < w[2] /\ v[1] <= i /\ i < v[2]
    BY DEF Within
  <2> QED
    BY <2>1, <2>2 DEF Overlaps
<1> QED
  BY <1>1, <1>2

-------------------------------------------------------------------------------
(* The steps                                                               *)

\* The columns of the rows that are there.
LEMMA Typed == ASSUME Inv
  PROVE /\ schedule \in [Schedules -> ScheduleRow \cup {Absent}]
        /\ slot \in [Slots -> SlotRow \cup {Absent}]
        /\ response \in [Schedules \X Couriers -> ResponseRow \cup {Absent}]
        /\ active \subseteq Couriers /\ now \in Instants
        /\ \A s \in Scheduled : schedule[s] \in ScheduleRow
        /\ \A t \in Slotted : slot[t] \in SlotRow
        /\ \A p \in Answered : response[p] \in ResponseRow
  BY DEF Inv, TypeOK, Scheduled, Slotted, Answered

\* There are no schedules, slots and answers at the start.
LEMMA Empty == Init => Inv
<1> SUFFICES ASSUME Init PROVE Inv
  OBVIOUS
<1>1. 0 \in Instants
  <2>1. 0 * Ticks + Ticks <= Days * Ticks
    BY MulLe, TimeAssumption
  <2> QED
    BY <2>1, TimeAssumption DEF Instants
<1>2. Answered = {} /\ Scheduled = {}
  BY DEF Init, Answered, Scheduled
<1> QED
  BY <1>1, <1>2 DEF Init, Inv, TypeOK, PlaceHeldByAvailable, AnsweredScheduleStays, NoDoubleBooking,
     AvailableOn

\* A step that leaves the answers, the answered schedules and the slots that are there.
LEMMA AnswersLeft ==
  ASSUME Inv, TypeOK', UNCHANGED response, Slotted \subseteq Slotted',
         \A p \in Answered : schedule'[p[1]] = schedule[p[1]]
  PROVE  Inv'
<1>1. Answered' = Answered
  BY DEF Answered
<1>2. PlaceHeldByAvailable'
  BY <1>1 DEF Inv, PlaceHeldByAvailable
<1>3. \A p \in Answered : p \in Schedules \X Couriers
  BY DEF Answered
<1>4. AnsweredScheduleStays'
  BY <1>1, <1>3 DEF Inv, AnsweredScheduleStays, Scheduled
<1>5. \A c \in Couriers : AvailableOn(c)' = AvailableOn(c)
  BY <1>1, <1>3 DEF Inv, AnsweredScheduleStays, AvailableOn, Scheduled
<1>6. \A c \in Couriers : \A s \in AvailableOn(c) : schedule'[s] = schedule[s]
  BY DEF AvailableOn
<1>7. NoDoubleBooking'
  BY <1>5, <1>6 DEF Inv, NoDoubleBooking
<1> QED
  BY <1>2, <1>4, <1>7 DEF Inv

\* A step of responses that makes nobody available who was not.
LEMMA NobodyMore ==
  ASSUME Inv, TypeOK', UNCHANGED schedule, PlaceHeldByAvailable',
         \A p \in Answered' : p \in Answered /\ (response'[p].status = Available => response[p].status = Available)
  PROVE  Inv'
<1>1. AnsweredScheduleStays'
  BY DEF Inv, AnsweredScheduleStays, Scheduled
<1>2. \A c \in Couriers : AvailableOn(c)' \subseteq AvailableOn(c)
  BY DEF AvailableOn, Scheduled
<1>3. NoDoubleBooking'
  BY <1>2 DEF Inv, NoDoubleBooking
<1> QED
  BY <1>1, <1>3 DEF Inv

\* New schedules have no answers yet.
LEMMA StepCreate ==
  ASSUME Inv, NEW new \in SUBSET (Schedules \ Scheduled), NEW batch \in [new -> NewSchedules],
         Create(batch)
  PROVE  Inv'
<1>1. schedule' = [s \in Schedules |-> IF s \in new THEN batch[s] ELSE schedule[s]]
      /\ UNCHANGED <<slot, response, active, now>>
  BY DEF Create
<1>2. NewSchedules \subseteq ScheduleRow
  BY DEF NewSchedules, ScheduleRow
<1>3. TypeOK'
  BY <1>1, <1>2, Typed DEF TypeOK
<1>4. \A p \in Answered : p[1] \in Schedules /\ p[1] \notin new
  BY DEF Inv, AnsweredScheduleStays, Answered
<1> QED
  BY <1>1, <1>3, <1>4, AnswersLeft DEF Slotted

\* A schedule that was notified, as one with answers was, is not deleted.
LEMMA StepDelete ==
  ASSUME Inv, NEW s \in Schedules, Delete(s)
  PROVE  Inv'
<1>1. schedule' = [schedule EXCEPT ![s] = Absent] /\ ~schedule[s].notified
      /\ UNCHANGED <<slot, response, active, now>>
  BY DEF Delete
<1>2. TypeOK'
  BY <1>1, Typed DEF TypeOK
<1>3. \A p \in Answered : p[1] # s
  BY <1>1 DEF Inv, AnsweredScheduleStays
<1> QED
  BY <1>1, <1>2, <1>3, Typed, AnswersLeft DEF Slotted

\* Sending notifications marks schedules as notified and changes no answer.
LEMMA StepNotify ==
  ASSUME Inv, NEW ids \in SUBSET Schedules, SendNotifications(ids)
  PROVE  Inv'
<1> DEFINE new == {s \in ids \cap Scheduled : ~Started(s) /\ ~schedule[s].notified}
<1>1. schedule' = [s \in Schedules |->
                     IF s \in new THEN [schedule[s] EXCEPT !.notified = TRUE] ELSE schedule[s]]
      /\ UNCHANGED <<slot, response, active, now>>
  BY DEF SendNotifications
<1>2. \A s \in new : s \in Scheduled /\ ~schedule[s].notified
  OBVIOUS
<1> HIDE DEF new
<1>3. ASSUME NEW s \in new PROVE [schedule[s] EXCEPT !.notified = TRUE] \in ScheduleRow
  BY <1>2, Typed DEF ScheduleRow
<1>4. TypeOK'
  BY <1>1, <1>3, Typed DEF TypeOK
<1>5. \A p \in Answered : p[1] \in Schedules /\ p[1] \notin new
  BY <1>2 DEF Inv, AnsweredScheduleStays, Answered
<1> QED
  BY <1>1, <1>4, <1>5, AnswersLeft DEF Slotted

\* A copy takes its schedules and slots to another day, without their answers.
LEMMA StepCopy ==
  ASSUME Inv, NEW from \in Dates, NEW to \in Dates, NEW locs \in SUBSET Locations,
         NEW news \in Injections(Scheduled, Schedules \ Scheduled),
         NEW newt \in Injections(Slotted, Slots \ Slotted), Copy(from, to, locs, news, newt)
  PROVE  Inv'
<1> DEFINE source == {s \in Scheduled : Date(s) = from /\ schedule[s].loc \in locs}
           slots == {t \in Slotted : DateOf(slot[t].at) = from /\ slot[t].loc \in locs}
           copied(n) == [schedule[CHOOSE s \in source : news[s] = n]
                           EXCEPT !.window = MovedWindow(@, to), !.notified = FALSE]
           copiedSlot(n) == [slot[CHOOSE t \in slots : newt[t] = n] EXCEPT !.at = Moved(@, to)]
<1>1. /\ schedule' = [n \in Schedules |-> IF \E s \in source : news[s] = n THEN copied(n) ELSE schedule[n]]
      /\ slot' = [n \in Slots |-> IF \E t \in slots : newt[t] = n THEN copiedSlot(n) ELSE slot[n]]
      /\ DOMAIN news = source /\ DOMAIN newt = slots
      /\ UNCHANGED <<response, active, now>>
  BY Zenon DEF Copy
<1>2. (\A s \in DOMAIN news : news[s] \in Schedules \ Scheduled)
      /\ (\A t \in DOMAIN newt : newt[t] \in Slots \ Slotted)
  BY DEF Injections
<1>3. source \subseteq Scheduled /\ slots \subseteq Slotted
  OBVIOUS
<1>4. ASSUME NEW n, \E s \in source : news[s] = n PROVE copied(n) \in ScheduleRow
  <2> DEFINE s == CHOOSE s \in source : news[s] = n
  <2>1. s \in source
    BY <1>4
  <2> HIDE DEF source, s
  <2>2. schedule[s] \in ScheduleRow
    BY <1>3, <2>1, Typed
  <2>3. MovedWindow(schedule[s].window, to) \in Windows
    BY <2>2, MovedIsWindow DEF ScheduleRow
  <2>4. [schedule[s] EXCEPT !.window = MovedWindow(@, to), !.notified = FALSE] \in ScheduleRow
    BY <2>2, <2>3 DEF ScheduleRow
  <2> QED
    BY <2>4 DEF s
<1>5. ASSUME NEW n, \E t \in slots : newt[t] = n PROVE copiedSlot(n) \in SlotRow
  <2> DEFINE t == CHOOSE t \in slots : newt[t] = n
  <2>1. t \in slots
    BY <1>5
  <2> HIDE DEF slots, t
  <2>2. slot[t] \in SlotRow
    BY <1>3, <2>1, Typed
  <2>3. slot[t].at \in Nat
    BY <2>2, TimeAssumption DEF SlotRow, Instants
  <2>4. Moved(slot[t].at, to) \in Instants
    BY <2>3, MovedInDay
  <2>5. [slot[t] EXCEPT !.at = Moved(@, to)] \in SlotRow
    BY <2>2, <2>4 DEF SlotRow
  <2> QED
    BY <2>5 DEF t
<1> HIDE DEF source, slots, copied, copiedSlot
<1>6. TypeOK'
  BY <1>1, <1>4, <1>5, Typed DEF TypeOK
<1>7. \A s \in Scheduled : schedule'[s] = schedule[s]
  BY <1>1, <1>2 DEF Scheduled
<1>8. \A t \in Slotted : slot'[t] = slot[t]
  BY <1>1, <1>2 DEF Slotted
<1>9. Slotted \subseteq Slotted'
  BY <1>8 DEF Slotted
<1> QED
  BY <1>1, <1>6, <1>7, <1>9, AnswersLeft DEF Inv, AnsweredScheduleStays

\* A slot is added or changed.
LEMMA StepSlotChange ==
  ASSUME Inv, NEW t \in Slots, NEW row \in SlotRow, NEW i \in Instants, NEW wanted \in Caps,
         TimeSlotCreate(t, row) \/ TimeSlotUpdate(t, i, wanted)
  PROVE  Inv'
<1>1. UNCHANGED <<schedule, response, active, now>>
  BY DEF TimeSlotCreate, TimeSlotUpdate
<1>2. PICK new \in SlotRow : slot' = [slot EXCEPT ![t] = new]
  <2>1. CASE TimeSlotCreate(t, row)
    BY <2>1 DEF TimeSlotCreate
  <2>2. CASE TimeSlotUpdate(t, i, wanted)
    <3>1. slot[t] \in SlotRow
      BY <2>2, Typed DEF TimeSlotUpdate
    <3>2. [slot[t] EXCEPT !.at = i, !.wanted = wanted] \in SlotRow
      BY <3>1 DEF SlotRow
    <3>3. slot' = [slot EXCEPT ![t] = [slot[t] EXCEPT !.at = i, !.wanted = wanted]]
      BY <2>2, Typed DEF TimeSlotUpdate
    <3> QED
      BY <3>2, <3>3
  <2> QED
    BY <2>1, <2>2
<1>3. TypeOK'
  BY <1>1, <1>2, Typed DEF TypeOK
<1>4. Slotted \subseteq Slotted'
  BY <1>2, Typed, AbsentAssumption DEF Slotted
<1> QED
  BY <1>1, <1>3, <1>4, AnswersLeft

\* A slot goes, and the places on it with it.
LEMMA StepSlotDelete ==
  ASSUME Inv, NEW t \in Slots, TimeSlotDelete(t)
  PROVE  Inv'
<1>1. slot' = [slot EXCEPT ![t] = Absent] /\ UNCHANGED <<schedule, active, now>>
      /\ response' = [p \in Schedules \X Couriers |->
           IF p \in Answered /\ response[p].slot = t THEN [response[p] EXCEPT !.slot = Absent]
           ELSE response[p]]
  BY DEF TimeSlotDelete, OnReserve
<1>2. ASSUME NEW p \in Answered
      PROVE [response[p] EXCEPT !.slot = Absent]
              = [status |-> response[p].status, slot |-> Absent]
            /\ [status |-> response[p].status, slot |-> Absent] \in ResponseRow
  BY Typed DEF ResponseRow
<1>3. TypeOK'
  <2>1. slot' \in [Slots -> SlotRow \cup {Absent}]
    BY <1>1, Typed
  <2>2. ASSUME NEW p \in Schedules \X Couriers PROVE response'[p] \in ResponseRow \cup {Absent}
    <3>1. CASE p \in Answered
      BY <1>1, <1>2, <3>1, Typed
    <3>2. CASE p \notin Answered
      BY <1>1, <3>2, Typed
    <3> QED
      BY <3>1, <3>2
  <2>3. response' \in [Schedules \X Couriers -> ResponseRow \cup {Absent}]
    BY <1>1, <2>2
  <2> QED
    BY <1>1, <2>1, <2>3, Typed DEF TypeOK
<1>4. ASSUME NEW p \in Answered'
      PROVE  /\ p \in Answered /\ response'[p].status = response[p].status
             /\ response'[p].slot = IF response[p].slot = t THEN Absent ELSE response[p].slot
  <2>1. p \in Schedules \X Couriers /\ response'[p] # Absent
    BY DEF Answered
  <2>2. p \in Answered
    BY <1>1, <2>1 DEF Answered
  <2> QED
    BY <1>1, <1>2, <2>1, <2>2
<1>5. PlaceHeldByAvailable'
  BY <1>1, <1>4, Typed DEF Inv, PlaceHeldByAvailable, Slotted
<1> QED
  BY <1>1, <1>3, <1>4, <1>5, NobodyMore

\* An operator puts a courier on a schedule, with a slot or none.
LEMMA StepAssign ==
  ASSUME Inv, NEW s \in Schedules, NEW c \in Couriers, NEW t \in Slots \cup {Absent}, Assign(s, c, t)
  PROVE  Inv'
<1> DEFINE p == <<s, c>>
<1>1. /\ p \in Answered /\ response[p].status = Available /\ (t # Absent => t \in Slotted)
      /\ response' = [response EXCEPT ![p] = [response[p] EXCEPT !.slot = t]]
      /\ UNCHANGED <<schedule, slot, active, now>>
  BY Typed DEF Assign
<1>2. [response[p] EXCEPT !.slot = t] = [status |-> Available, slot |-> t]
      /\ [status |-> Available, slot |-> t] \in ResponseRow
  BY <1>1, Typed DEF ResponseRow
<1> HIDE DEF p
<1>3. TypeOK'
  BY <1>1, <1>2, Typed DEF TypeOK
<1>4. \A q \in Answered' : /\ q \in Answered /\ response'[q].status = response[q].status
                           /\ response'[q].slot = IF q = p THEN t ELSE response[q].slot
  BY <1>1, <1>2, Typed DEF Answered
<1>5. PlaceHeldByAvailable'
  BY <1>1, <1>4 DEF Inv, PlaceHeldByAvailable, Slotted
<1> QED
  BY <1>1, <1>3, <1>4, <1>5, NobodyMore

\* One courier's schedules after some of them, which nothing conflicts with, became available.
LEMMA NoneTwice ==
  ASSUME Inv, TypeOK', UNCHANGED schedule, NEW c \in Couriers, NEW s \in AvailableOn(c)',
         NEW x \in AvailableOn(c)', NEW i \in Instants, s # x,
         Within(i, schedule[s].window), Within(i, schedule[x].window), NEW others,
         AvailableOn(c)' \subseteq others,
         s \notin AvailableOn(c) => ~HasConflictingSchedule(s, others),
         x \notin AvailableOn(c) => ~HasConflictingSchedule(x, others)
  PROVE  FALSE
<1>1. s \in Scheduled /\ x \in Scheduled
  BY DEF AvailableOn, Scheduled
<1>2. schedule[s].window \in Windows /\ schedule[x].window \in Windows
  BY <1>1, Typed DEF ScheduleRow
<1>3. Date(s) = Date(x) /\ Overlaps(schedule[s].window, schedule[x].window)
        /\ Overlaps(schedule[x].window, schedule[s].window)
  BY <1>2, SharedIsSeen DEF Date
<1>4. s \in AvailableOn(c) /\ x \in AvailableOn(c)
  BY <1>3 DEF HasConflictingSchedule
<1> QED
  BY <1>4 DEF Inv, NoDoubleBooking

\* An operator sets the status of answers.
LEMMA StepStatus ==
  ASSUME Inv, NEW ids \in SUBSET (Schedules \X Couriers), NEW status \in {Available, Unavailable},
         StatusUpdate(ids, status)
  PROVE  Inv'
<1>1. /\ ids \subseteq Answered
      /\ response' = [p \in Schedules \X Couriers |->
            IF p \notin ids \/ response[p].status = status THEN response[p]
            ELSE [response[p] EXCEPT !.status = status,
                                     !.slot = IF status = Unavailable THEN Absent ELSE @]]
      /\ UNCHANGED <<schedule, slot, active, now>>
  BY DEF StatusUpdate
<1> DEFINE place(p) == IF status = Unavailable THEN Absent ELSE response[p].slot
<1>2. ASSUME NEW p \in Answered
      PROVE  LET row == [response[p] EXCEPT !.status = status,
                                            !.slot = IF status = Unavailable THEN Absent ELSE @]
             IN  row \in ResponseRow /\ row.status = status /\ row.slot = place(p)
  <2>1. response[p] \in ResponseRow
    BY Typed
  <2>2. place(p) \in Slots \cup {Absent}
    BY <2>1 DEF ResponseRow
  <2> QED
    BY <2>1, <2>2 DEF ResponseRow
<1>3. TypeOK'
  <2>1. ASSUME NEW p \in Schedules \X Couriers PROVE response'[p] \in ResponseRow \cup {Absent}
    <3>1. CASE p \notin ids \/ response[p].status = status
      BY <1>1, <3>1, Typed
    <3>2. CASE p \in ids /\ response[p].status # status
      <4>1. p \in Answered
        BY <1>1, <3>2
      <4> QED
        BY <1>1, <1>2, <3>2, <4>1
    <3> QED
      BY <3>1, <3>2
  <2>2. response' \in [Schedules \X Couriers -> ResponseRow \cup {Absent}]
    BY <1>1, <2>1
  <2> QED
    BY <1>1, <2>2, Typed DEF TypeOK
<1>4. \A p \in Answered' : p \in Answered /\ p \in Schedules \X Couriers
  BY <1>1 DEF Answered
<1>5. \A p \in Answered' :
        IF p \notin ids \/ response[p].status = status THEN response'[p] = response[p]
        ELSE response'[p].status = status /\ response'[p].slot = place(p)
  BY <1>1, <1>2, <1>4
<1>6. PlaceHeldByAvailable'
  <2>1. \A p \in Answered : response[p].status = Unavailable => response[p].slot = Absent
    BY DEF Inv, PlaceHeldByAvailable, Available, Unavailable
  <2>2. \A p \in Answered : response[p].status \in {Available, Unavailable}
    BY Typed DEF ResponseRow
  <2> QED
    BY <1>1, <1>4, <1>5, <2>1, <2>2 DEF Inv, PlaceHeldByAvailable, Slotted, Available, Unavailable
<1>7. AnsweredScheduleStays'
  BY <1>1, <1>4 DEF Inv, AnsweredScheduleStays, Scheduled
<1>8. NoDoubleBooking'
  <2> SUFFICES ASSUME NEW c \in Couriers, NEW s \in AvailableOn(c)', NEW x \in AvailableOn(c)', s # x,
                      NEW i \in Instants, Within(i, schedule[s].window), Within(i, schedule[x].window)
               PROVE  FALSE
    BY <1>1 DEF NoDoubleBooking
  <2> DEFINE others == AvailableOn(c) \cup Peers(ids, c)
  <2>1. ASSUME NEW y \in AvailableOn(c)'
        PROVE  /\ y \in Scheduled /\ <<y, c>> \in Answered /\ schedule[y].notified
               /\ \/ response[<<y, c>>].status = Available
                  \/ /\ <<y, c>> \in ids /\ response[<<y, c>>].status # Available /\ status = Available
    <3>1. y \in Scheduled /\ <<y, c>> \in Answered' /\ response'[<<y, c>>].status = Available
          /\ schedule[y].notified
      BY <1>1, <2>1 DEF AvailableOn, Scheduled
    <3> QED
      BY <1>4, <1>5, <3>1
  <2>2. AvailableOn(c)' \subseteq others
    BY <2>1 DEF AvailableOn, Peers
  <2>3. ASSUME NEW y \in AvailableOn(c)', y \notin AvailableOn(c)
        PROVE  ~HasConflictingSchedule(y, others)
    <3>1. <<y, c>> \in ids /\ response[<<y, c>>].status # Available /\ status = Available
      BY <2>1, <2>3 DEF AvailableOn
    <3>2. ~HasConflictingSchedule(<<y, c>>[1], AvailableOn(<<y, c>>[2]) \cup Peers(ids, <<y, c>>[2]))
      BY <3>1 DEF StatusUpdate
    <3> QED
      BY <3>2
  <2> HIDE DEF others
  <2> QED
    BY <1>1, <1>3, <2>2, <2>3, NoneTwice
<1> QED
  BY <1>3, <1>6, <1>7, <1>8 DEF Inv

\* A courier answers, and is refused what overlaps.
LEMMA StepRespond ==
  ASSUME Inv, NEW s \in Schedules, NEW c \in Couriers, NEW status \in {Available, Unavailable},
         Respond(s, c, status)
  PROVE  Inv'
<1> DEFINE p == <<s, c>>
           row == [status |-> status, slot |-> Absent]
<1>1. /\ s \in Scheduled /\ p \notin Answered /\ schedule[s].notified
      /\ status = Available => ~HasConflictingSchedule(s, AvailableOn(c))
      /\ response' = [response EXCEPT ![p] = row] /\ UNCHANGED <<schedule, slot, active, now>>
  BY DEF Respond
<1>2. row \in ResponseRow /\ row.status = status /\ row.slot = Absent
  BY DEF ResponseRow
<1> HIDE DEF p, row
<1>3. p \in Schedules \X Couriers /\ p[1] = s /\ p[2] = c
  BY DEF p
<1>4. TypeOK'
  BY <1>1, <1>2, <1>3, Typed DEF TypeOK
<1>5. Answered' = Answered \cup {p} /\ response'[p] = row
      /\ \A q \in Answered : response'[q] = response[q]
  BY <1>1, <1>2, <1>3, Typed, AbsentAssumption DEF Answered
<1>6. PlaceHeldByAvailable'
  BY <1>1, <1>2, <1>5 DEF Inv, PlaceHeldByAvailable, Slotted
<1>7. AnsweredScheduleStays'
  BY <1>1, <1>3, <1>5 DEF Inv, AnsweredScheduleStays, Scheduled
<1>8. \A d \in Couriers \ {c} : AvailableOn(d)' = AvailableOn(d)
  <2>1. \A d \in Couriers \ {c}, y \in Schedules : <<y, d>> # p
    BY DEF p
  <2> QED
    BY <1>1, <1>5, <2>1 DEF AvailableOn, Scheduled, Answered
<1>9. AvailableOn(c)' \subseteq AvailableOn(c) \cup (IF status = Available THEN {s} ELSE {})
  <2>1. \A y \in Schedules \ {s} : <<y, c>> # p
    BY DEF p
  <2>2. ASSUME NEW y \in AvailableOn(c)', y # s PROVE y \in AvailableOn(c)
    BY <1>1, <1>5, <2>1, <2>2 DEF AvailableOn, Scheduled
  <2>3. ASSUME s \in AvailableOn(c)' PROVE status = Available
    BY <1>2, <1>5, <2>3 DEF AvailableOn, p
  <2> QED
    BY <2>2, <2>3
<1>10. NoDoubleBooking'
  <2> SUFFICES ASSUME NEW d \in Couriers, NEW y \in AvailableOn(d)', NEW x \in AvailableOn(d)', y # x,
                      NEW i \in Instants, Within(i, schedule[y].window), Within(i, schedule[x].window)
               PROVE  FALSE
    BY <1>1 DEF NoDoubleBooking
  <2>1. CASE d # c
    BY <1>8, <2>1 DEF Inv, NoDoubleBooking
  <2>2. CASE d = c
    <3> DEFINE others == AvailableOn(c) \cup {s}
    <3>1. \A u \in AvailableOn(c)' : u \notin AvailableOn(c) => u = s /\ status = Available
      BY <1>9
    <3>2. status = Available => ~HasConflictingSchedule(s, others)
      BY <1>1 DEF HasConflictingSchedule
    <3>3. AvailableOn(c)' \subseteq others
      BY <1>9
    <3> HIDE DEF others
    <3> QED
      BY <1>1, <1>4, <2>2, <3>1, <3>2, <3>3, NoneTwice
  <2> QED
    BY <2>1, <2>2
<1> QED
  BY <1>4, <1>6, <1>7, <1>10 DEF Inv

\* Every step keeps the invariant.
LEMMA ShiftStep == Inv /\ [Next]_vars => Inv'
<1> SUFFICES ASSUME Inv, [Next]_vars PROVE Inv'
  OBVIOUS
<1>1. CASE UNCHANGED vars
  <2>1. TypeOK'
    BY <1>1 DEF vars, Inv, TypeOK
  <2> QED
    BY <1>1, <2>1, AnswersLeft DEF vars, Slotted
<1>2. CASE ScheduleRequest
  BY <1>2, StepCreate, StepDelete, StepNotify, StepCopy DEF ScheduleRequest
<1>3. CASE SlotRequest
  <2>1. NoCap \in Caps /\ 0 \in Instants
    BY MulLe, TimeAssumption, <1>3, Typed DEF Caps, Instants
  <2>2. ASSUME NEW t \in Slots, NEW row \in SlotRow, TimeSlotCreate(t, row) PROVE Inv'
    BY <2>1, <2>2, StepSlotChange
  <2>3. ASSUME NEW t \in Slots, NEW i \in Instants, NEW wanted \in Caps, TimeSlotUpdate(t, i, wanted)
        PROVE  Inv'
    <3>1. slot[t] \in SlotRow
      BY <2>3, Typed DEF TimeSlotUpdate
    <3> QED
      BY <2>3, <3>1, StepSlotChange
  <2> QED
    BY <1>3, <2>2, <2>3, StepSlotDelete DEF SlotRequest
<1>4. CASE ResponseRequest
  BY <1>4, StepAssign, StepStatus, StepRespond DEF ResponseRequest
<1>5. CASE Tick \/ \E c \in Couriers : SetActive(c)
  <2>1. TypeOK'
    BY <1>5 DEF Tick, SetActive, Inv, TypeOK
  <2> QED
    BY <1>5, <2>1, AnswersLeft DEF Tick, SetActive, Slotted
<1> QED
  BY <1>1, <1>2, <1>3, <1>4, <1>5 DEF Next

\* The invariant holds throughout.
LEMMA ShiftAlways == Spec => []Inv
  BY Empty, ShiftStep, PTL DEF Spec

\* The tables keep their columns: a copied window stays within its new day.
THEOREM ShiftTypes == Spec => []TypeOK
<1>1. Inv => TypeOK
  BY DEF Inv
<1> QED
  BY <1>1, ShiftAlways, PTL

\* No courier is ever available for two schedules that share an instant.
THEOREM NeverTwice == Spec => []NoDoubleBooking
<1>1. Inv => NoDoubleBooking
  BY DEF Inv
<1> QED
  BY <1>1, ShiftAlways, PTL

\* A place on a slot is held by an available courier, and the slot is there.
THEOREM PlacesHeld == Spec => []PlaceHeldByAvailable
<1>1. Inv => PlaceHeldByAvailable
  BY DEF Inv
<1> QED
  BY <1>1, ShiftAlways, PTL

\* A schedule that was answered stays, and stays notified.
THEOREM AnsweredStay == Spec => []AnsweredScheduleStays
<1>1. Inv => AnsweredScheduleStays
  BY DEF Inv
<1> QED
  BY <1>1, ShiftAlways, PTL

-------------------------------------------------------------------------------
(* The limit of a slot                                                     *)

\* The couriers on a slot can be counted.
LEMMA BookedFinite == ASSUME NEW t PROVE IsFiniteSet(Booked(t))
<1>1. IsFiniteSet(Schedules \X Couriers)
  BY FS_Product, FiniteAssumption
<1>2. Booked(t) \subseteq Schedules \X Couriers
  BY DEF Booked, Answered
<1> QED
  BY <1>1, <1>2, FS_Subset

\* A finite set with one element more, at most.
LEMMA OneMore ==
  ASSUME NEW S, NEW x, NEW Z, IsFiniteSet(S), Z \subseteq S \cup {x}
  PROVE  /\ Cardinality(Z) \in Nat /\ Cardinality(S) \in Nat
         /\ Cardinality(Z) <= Cardinality(S) + 1
<1>1. IsFiniteSet(S \cup {x})
  BY FS_AddElement
<1>2. Cardinality(S \cup {x}) = IF x \in S THEN Cardinality(S) ELSE Cardinality(S) + 1
  BY FS_AddElement
<1>3. IsFiniteSet(Z) /\ Cardinality(Z) <= Cardinality(S \cup {x})
  BY <1>1, FS_Subset
<1>4. Cardinality(Z) \in Nat /\ Cardinality(S) \in Nat /\ Cardinality(S \cup {x}) \in Nat
  BY <1>1, <1>3, FS_CardinalityType
<1> QED
  BY <1>2, <1>3, <1>4

\* A slot gains a courier only by an assignment that the trigger let through.
LEMMA GainsByAssign ==
  ASSUME Inv, [Next]_vars, NEW t \in Slotted, ~(Booked(t)' \subseteq Booked(t)), slot'[t] # Absent
  PROVE  slot'[t].wanted = NoCap \/ Cardinality(Booked(t)') <= slot'[t].wanted
<1>0. t \in Slots /\ t # Absent
  BY AbsentAssumption DEF Slotted
<1>1. ~UNCHANGED response
  BY DEF Booked, Answered
<1>2. PICK p \in Answered' : /\ response'[p].status = Available /\ response'[p].slot = t
                             /\ ~(p \in Answered /\ response[p].status = Available /\ response[p].slot = t)
  BY DEF Booked
<1>3. ASSUME NEW u \in Slots, TimeSlotDelete(u) PROVE FALSE
  <2>1. response' = [q \in Schedules \X Couriers |->
           IF q \in Answered /\ response[q].slot = u THEN [response[q] EXCEPT !.slot = Absent]
           ELSE response[q]]
    BY <1>3 DEF TimeSlotDelete, OnReserve
  <2>2. p \in Schedules \X Couriers /\ response'[p] # Absent
    BY DEF Answered
  <2>3. CASE p \in Answered /\ response[p].slot = u
    <3>1. [response[p] EXCEPT !.slot = Absent].slot = Absent
      BY <2>3, Typed DEF ResponseRow
    <3> QED
      BY <1>0, <1>2, <2>1, <2>2, <2>3, <3>1
  <2>4. CASE ~(p \in Answered /\ response[p].slot = u)
    BY <1>2, <2>1, <2>2, <2>4 DEF Answered
  <2> QED
    BY <2>3, <2>4
<1>4. ASSUME NEW ids \in SUBSET (Schedules \X Couriers), NEW status \in {Available, Unavailable},
             StatusUpdate(ids, status)
      PROVE  FALSE
  <2>1. /\ ids \subseteq Answered
        /\ response' = [q \in Schedules \X Couriers |->
              IF q \notin ids \/ response[q].status = status THEN response[q]
              ELSE [response[q] EXCEPT !.status = status,
                                       !.slot = IF status = Unavailable THEN Absent ELSE @]]
    BY <1>4 DEF StatusUpdate
  <2>2. p \in Schedules \X Couriers /\ response'[p] # Absent
    BY DEF Answered
  <2>3. CASE p \notin ids \/ response[p].status = status
    BY <1>2, <2>1, <2>2, <2>3 DEF Answered
  <2>4. CASE p \in ids /\ response[p].status # status
    <3>1. response[p] \in ResponseRow /\ p \in Answered
      BY <2>1, <2>4, Typed
    <3>2. response'[p].status = status
          /\ response'[p].slot = IF status = Unavailable THEN Absent ELSE response[p].slot
      BY <2>1, <2>2, <2>4, <3>1 DEF ResponseRow
    <3>3. response[p].status = Unavailable /\ response[p].slot = t
      BY <1>0, <1>2, <2>4, <3>1, <3>2 DEF ResponseRow, Available, Unavailable
    <3> QED
      BY <1>0, <3>1, <3>3 DEF Inv, PlaceHeldByAvailable, Available, Unavailable
  <2> QED
    BY <2>3, <2>4
<1>5. ASSUME NEW s \in Schedules, NEW c \in Couriers, NEW status \in {Available, Unavailable},
             Respond(s, c, status)
      PROVE  FALSE
  <2>1. response' = [response EXCEPT ![<<s, c>>] = [status |-> status, slot |-> Absent]]
    BY <1>5 DEF Respond
  <2>2. p \in Schedules \X Couriers /\ response'[p] # Absent
    BY DEF Answered
  <2>3. CASE p = <<s, c>>
    <3>1. response'[p] = [status |-> status, slot |-> Absent]
      BY <2>1, <2>2, <2>3, Typed
    <3> QED
      BY <1>0, <1>2, <3>1
  <2>4. CASE p # <<s, c>>
    <3>1. response'[p] = response[p]
      BY <2>1, <2>2, <2>4, Typed
    <3> QED
      BY <1>2, <2>2, <3>1 DEF Answered
  <2> QED
    BY <2>3, <2>4
<1>6. PICK s \in Schedules, c \in Couriers, u \in Slots \cup {Absent} : Assign(s, c, u)
  <2>1. ASSUME ScheduleRequest PROVE FALSE
    <3>1. ASSUME NEW batch, Create(batch) PROVE FALSE
      BY <1>1, <3>1 DEF Create
    <3>2. ASSUME NEW x, Delete(x) \/ SendNotifications(x) PROVE FALSE
      BY <1>1, <3>2 DEF Delete, SendNotifications
    <3>3. ASSUME NEW from, NEW to, NEW locs, NEW news, NEW newt, Copy(from, to, locs, news, newt)
          PROVE  FALSE
      BY <1>1, <3>3, Zenon DEF Copy
    <3> QED
      BY <2>1, <3>1, <3>2, <3>3, Zenon DEF ScheduleRequest
  <2>2. ASSUME SlotRequest PROVE FALSE
    BY <1>1, <1>3, <2>2, Zenon DEF SlotRequest, TimeSlotCreate, TimeSlotUpdate
  <2>3. ResponseRequest
    BY <1>1, <2>1, <2>2 DEF vars, Next, SetActive, Tick
  <2> QED
    BY <2>3, <1>4, <1>5 DEF ResponseRequest
<1> DEFINE q == <<s, c>>
<1>7. /\ q \in Answered /\ q \in Schedules \X Couriers
      /\ response' = [response EXCEPT ![q] = [response[q] EXCEPT !.slot = u]]
      /\ UNCHANGED slot
  BY <1>6, Typed DEF Assign
<1>8. [response[q] EXCEPT !.slot = u].slot = u
      /\ [response[q] EXCEPT !.slot = u].status = response[q].status
  BY <1>7, Typed DEF ResponseRow
<1> HIDE DEF q
<1>9. p = q /\ u = t
  BY <1>2, <1>7, <1>8, Typed DEF Answered
<1>10. slot[t].wanted = NoCap \/ Cardinality(Booked(t)) < slot[t].wanted
  BY <1>0, <1>6, <1>9 DEF Assign, HasRoom
<1>11. Booked(t)' \subseteq Booked(t) \cup {q}
  <2> SUFFICES ASSUME NEW x \in Answered', response'[x].status = Available, response'[x].slot = t, x # q
               PROVE  x \in Booked(t)
    BY DEF Booked
  <2>1. x \in Schedules \X Couriers /\ response'[x] = response[x]
    BY <1>7, Typed DEF Answered
  <2> QED
    BY <2>1 DEF Answered, Booked
<1>12. /\ Cardinality(Booked(t)') \in Nat /\ Cardinality(Booked(t)) \in Nat
       /\ Cardinality(Booked(t)') <= Cardinality(Booked(t)) + 1
  <2>1. IsFiniteSet(Booked(t))
    BY BookedFinite
  <2> HIDE DEF q
  <2> QED
    BY <1>11, <2>1, OneMore
<1>13. slot[t].wanted \in Nat \cup {NoCap}
  BY Typed, LimitsAssumption DEF SlotRow, Caps
<1> QED
  BY <1>7, <1>10, <1>12, <1>13 DEF NoCap

\* A slot that gains a courier is not over its Wanted afterwards.
THEOREM OnlyFreePlaces == Spec => FillsOnlyFreePlaces
<1>1. Inv /\ [Next]_vars =>
        [\A t \in Slotted :
           /\ ~(Booked(t)' \subseteq Booked(t))
           /\ slot'[t] # Absent
           => slot'[t].wanted = NoCap \/ Cardinality(Booked(t)') <= slot'[t].wanted]_vars
  BY GainsByAssign
<1> QED
  BY <1>1, ShiftAlways, PTL DEF Spec, FillsOnlyFreePlaces
===============================================================================
