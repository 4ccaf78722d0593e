--------------------------- MODULE DriverScheduling ---------------------------
(***************************************************************************)
(* Shift schedules for drivers: DriverSchedulingService over the tables    *)
(* CourierSchedule, CourierScheduleTimeSlot and CourierScheduleResponse,   *)
(* each request as one step.  Operators draw up the schedules of a         *)
(* location and day, notify the couriers, who answer through the courier   *)
(* portal (another program, Respond below), and place the available ones   *)
(* on time slots.  A refused request changes nothing and is no step.       *)
(*                                                                         *)
(* An instant is a tick: day d has the ticks d * Ticks to                  *)
(* d * Ticks + Ticks - 1, and a window [from, to) of ticks never crosses   *)
(* midnight.  Headcounts of schedules and text messages are left out.      *)
(***************************************************************************)
EXTENDS Integers, FiniteSets

CONSTANTS
  Schedules,   \* ids of CourierSchedule
  Slots,       \* ids of CourierScheduleTimeSlot
  Couriers,    \* rows of tucCourier
  Names,       \* schedule names
  Locations,   \* bulk regions
  Vehicles,    \* vehicle types
  RegionOf,    \* RegionId of each courier
  VehicleOf,   \* UccrVehicle of each courier
  Days,        \* bound: number of days
  Ticks,       \* bound: instants in a day
  Limits,      \* Wanted of a slot
  Absent       \* a row that does not exist, a null TimeSlotId

ASSUME TimeAssumption == Days \in Nat \ {0} /\ Ticks \in Nat \ {0}

ASSUME LimitsAssumption == Limits \subseteq Nat

ASSUME CourierAssumption == RegionOf \in [Couriers -> Locations]

Instants == 0 .. Days * Ticks - 1

Dates == 0 .. Days - 1

\* A null Wanted: no cap.
NoCap == -1

Caps == Limits \cup {NoCap}

Available == 1

Unavailable == 3

VARIABLES
  schedule,   \* CourierSchedule
  slot,       \* CourierScheduleTimeSlot with its vehicle types
  response,   \* CourierScheduleResponse, one at most for a schedule and a courier
  active,     \* the active couriers
  now         \* the tenant's clock

vars == <<schedule, slot, response, active, now>>

DateOf(i) == i \div Ticks

\* A window of a day, as two ticks.
Windows == {w \in Instants \X (1 .. Days * Ticks) : w[1] < w[2] /\ DateOf(w[1]) = DateOf(w[2] - 1)}

ScheduleRow == [window : Windows, loc : Locations, name : Names, notified : BOOLEAN]

SlotRow == [at : Instants, loc : Locations, wanted : Caps, vehicles : SUBSET Vehicles]

ResponseRow == [status : {Available, Unavailable}, slot : Slots \cup {Absent}]

ASSUME AbsentAssumption == Absent \notin ScheduleRow \cup SlotRow \cup ResponseRow \cup Slots

ASSUME FiniteAssumption == IsFiniteSet(Schedules) /\ IsFiniteSet(Couriers)

Scheduled == {s \in Schedules : schedule[s] # Absent}

Slotted == {t \in Slots : slot[t] # Absent}

Answered == {p \in Schedules \X Couriers : response[p] # Absent}

Date(s) == DateOf(schedule[s].window[1])

Started(s) == schedule[s].window[1] <= now

Within(i, w) == w[1] <= i /\ i < w[2]

Init ==
  /\ schedule = [s \in Schedules |-> Absent]
  /\ slot = [t \in Slots |-> Absent]
  /\ response = [p \in Schedules \X Couriers |-> Absent]
  /\ active = Couriers
  /\ now = 0

-------------------------------------------------------------------------------
(* Schedules                                                               *)

SameKey(x, y) ==
  /\ DateOf(x.window[1]) = DateOf(y.window[1])
  /\ x.loc = y.loc
  /\ x.name = y.name

\* CreateAsync: a batch, whose rows are held against the stored ones only.
Create(batch) ==
  /\ DOMAIN batch # {}
  /\ \A n \in DOMAIN batch : \A s \in Scheduled : ~SameKey(batch[n], schedule[s])
  /\ schedule' = [s \in Schedules |-> IF s \in DOMAIN batch THEN batch[s] ELSE schedule[s]]
  /\ UNCHANGED <<slot, response, active, now>>

\* Mutant of Delete: the test of NotificationSent is gone.
DeleteAny(s) ==
  /\ s \in Scheduled
  /\ schedule' = [schedule EXCEPT ![s] = Absent]
  /\ UNCHANGED <<slot, response, active, now>>

Delete(s) ==
  /\ s \in Scheduled
  /\ ~schedule[s].notified
  /\ schedule' = [schedule EXCEPT ![s] = Absent]
  /\ UNCHANGED <<slot, response, active, now>>

\* SendNotificationsAsync: of the ids asked for, those neither started nor notified.
SendNotifications(ids) ==
  LET new == {s \in ids \cap Scheduled : ~Started(s) /\ ~schedule[s].notified}
  IN  /\ new # {}
      /\ schedule' = [s \in Schedules |->
                        IF s \in new THEN [schedule[s] EXCEPT !.notified = TRUE] ELSE schedule[s]]
      /\ UNCHANGED <<slot, response, active, now>>

Moved(i, d) == d * Ticks + (i % Ticks)

\* Mutant of MovedWindow: an end at midnight falls on the start of the day.
MovedWindowEnd(w, d) == <<Moved(w[1], d), Moved(w[2], d)>>

MovedWindow(w, d) == <<Moved(w[1], d), Moved(w[2] - 1, d) + 1>>

OneToOne(f) == \A x, y \in DOMAIN f : f[x] = f[y] => x = y

\* CopyAsync.  The names are compared with every schedule of the target day, whatever its
\* location; the slots are copied with no test.  news and newt give the copies' ids.
Copy(from, to, locs, news, newt) ==
  LET source == {s \in Scheduled : Date(s) = from /\ schedule[s].loc \in locs}
      slots == {t \in Slotted : DateOf(slot[t].at) = from /\ slot[t].loc \in locs}
  IN  /\ locs # {}
      /\ locs \subseteq {schedule[s].loc : s \in source}
      /\ {schedule[s].name : s \in source}
           \cap {schedule[s].name : s \in {x \in Scheduled : Date(x) = to}} = {}
      /\ DOMAIN news = source /\ DOMAIN newt = slots
      /\ schedule' = [n \in Schedules |->
            IF \E s \in source : news[s] = n
            THEN LET row == schedule[CHOOSE s \in source : news[s] = n]
                 IN  [row EXCEPT !.window = MovedWindow(@, to), !.notified = FALSE]
            ELSE schedule[n]]
      /\ slot' = [n \in Slots |->
            IF \E t \in slots : newt[t] = n
            THEN [slot[CHOOSE t \in slots : newt[t] = n] EXCEPT !.at = Moved(@, to)]
            ELSE slot[n]]
      /\ UNCHANGED <<response, active, now>>

-------------------------------------------------------------------------------
(* Time slots                                                              *)

\* Some schedule of the location and day has the instant in its window.
Covered(i, loc) ==
  \E s \in Scheduled : schedule[s].loc = loc /\ Within(i, schedule[s].window)

\* Another slot at the instant, of any location, that a vehicle fits both of.
Clash(i, vehicles, others) ==
  \E t \in others : /\ slot[t].at = i
                    /\ \/ vehicles = {} \/ slot[t].vehicles = {}
                       \/ slot[t].vehicles \cap vehicles # {}

TimeSlotCreate(t, row) ==
  /\ t \notin Slotted
  /\ Covered(row.at, row.loc)
  /\ ~Clash(row.at, row.vehicles, Slotted)
  /\ slot' = [slot EXCEPT ![t] = row]
  /\ UNCHANGED <<schedule, response, active, now>>

\* TimeSlotUpdateAsync.  A request with the slot's own time returns before Wanted is
\* stored: it succeeds and changes nothing.
TimeSlotUpdate(t, i, wanted) ==
  /\ t \in Slotted
  /\ slot[t].at > now
  /\ slot[t].at # i
  /\ Covered(i, slot[t].loc)
  /\ ~Clash(i, slot[t].vehicles, Slotted \ {t})
  /\ slot' = [slot EXCEPT ![t].at = i, ![t].wanted = wanted]
  /\ UNCHANGED <<schedule, response, active, now>>

\* Mutant of OnReserve: the responses keep the slot.
NotOnReserve(t) == response

\* The responses with slot t put back on reserve.
OnReserve(t) ==
  [p \in Schedules \X Couriers |->
     IF p \in Answered /\ response[p].slot = t
     THEN [response[p] EXCEPT !.slot = Absent] ELSE response[p]]

TimeSlotDelete(t) ==
  /\ t \in Slotted
  /\ slot[t].at > now
  /\ slot' = [slot EXCEPT ![t] = Absent]
  /\ response' = OnReserve(t)
  /\ UNCHANGED <<schedule, active, now>>

-------------------------------------------------------------------------------
(* Responses                                                               *)

\* Who holds a place on slot t.
Booked(t) == {p \in Answered : response[p].status = Available /\ response[p].slot = t}

\* Mutant of HasRoom: one more.
HasRoomAtLimit(t) == slot[t].wanted = NoCap \/ Cardinality(Booked(t)) <= slot[t].wanted

\* The overbooking trigger of the database, which refuses a write of TimeSlotId.
HasRoom(t) == slot[t].wanted = NoCap \/ Cardinality(Booked(t)) < slot[t].wanted

\* ScheduleResponseTimeSlotAssignAsync; t = Absent puts the courier on reserve.
Assign(s, c, t) ==
  /\ <<s, c>> \in Answered
  /\ response[<<s, c>>].slot # t
  /\ c \in active
  /\ response[<<s, c>>].status = Available
  /\ t # Absent =>
       /\ t \in Slotted
       /\ slot[t].at > now
       /\ Within(slot[t].at, schedule[s].window)
       /\ slot[t].vehicles = {} \/ VehicleOf[c] \in slot[t].vehicles
       /\ HasRoom(t)
  /\ response' = [response EXCEPT ![<<s, c>>].slot = t]
  /\ UNCHANGED <<schedule, slot, active, now>>

\* The three cases of HasConflictingSchedule; it compares times of day of schedules of
\* one date.
Overlaps(x, w) ==
  \/ x[1] >= w[1] /\ x[1] < w[2]
  \/ x[2] > w[1] /\ x[2] <= w[2]
  \/ x[1] <= w[1] /\ x[2] >= w[2]

HasConflictingSchedule(s, others) ==
  \E x \in others : x # s /\ Date(x) = Date(s) /\ Overlaps(schedule[x].window, schedule[s].window)

AvailableOn(c) ==
  {s \in Scheduled : schedule[s].notified /\ <<s, c>> \in Answered
                       /\ response[<<s, c>>].status = Available}

\* Mutant of Peers: the batch is held against the database only.
PeersNone(ids, c) == {}

\* The schedules that a batch turns to Available for courier c.
Peers(ids, c) == {s \in Scheduled : <<s, c>> \in ids /\ response[<<s, c>>].status # Available}

\* ScheduleResponseStatusUpdateAsync over a set of responses.
StatusUpdate(ids, status) ==
  /\ ids # {}
  /\ ids \subseteq Answered
  /\ status = Available =>
       \A p \in ids : response[p].status # Available =>
          ~HasConflictingSchedule(p[1], AvailableOn(p[2]) \cup Peers(ids, p[2]))
  /\ response' = [p \in Schedules \X Couriers |->
        IF p \notin ids \/ response[p].status = status THEN response[p]
        ELSE [response[p] EXCEPT !.status = status,
                                 !.slot = IF status = Unavailable THEN Absent ELSE @]]
  /\ UNCHANGED <<schedule, slot, active, now>>

\* The courier portal inserts the answer of a courier of the region to a schedule that was
\* notified and has not started, with the conflict check this code shares with it.
Respond(s, c, status) ==
  /\ s \in Scheduled /\ <<s, c>> \notin Answered
  /\ schedule[s].notified /\ ~Started(s)
  /\ c \in active /\ RegionOf[c] = schedule[s].loc
  /\ status = Available => ~HasConflictingSchedule(s, AvailableOn(c))
  /\ response' = [response EXCEPT ![<<s, c>>] = [status |-> status, slot |-> Absent]]
  /\ UNCHANGED <<schedule, slot, active, now>>

\* Courier maintenance, elsewhere.
SetActive(c) ==
  /\ active' = IF c \in active THEN active \ {c} ELSE active \cup {c}
  /\ UNCHANGED <<schedule, slot, response, now>>

Tick ==
  /\ now + 1 \in Instants
  /\ now' = now + 1
  /\ UNCHANGED <<schedule, slot, response, active>>

-------------------------------------------------------------------------------
NewSchedules == [window : Windows, loc : Locations, name : Names, notified : {FALSE}]

\* The injections from a subset of X to Y.
Injections(X, Y) == {f \in UNION {[S -> Y] : S \in SUBSET X} : OneToOne(f)}

ScheduleRequest ==
  \/ \E new \in SUBSET (Schedules \ Scheduled) : \E batch \in [new -> NewSchedules] : Create(batch)
  \/ \E s \in Schedules : Delete(s)
  \/ \E ids \in SUBSET Schedules : SendNotifications(ids)
  \/ \E from, to \in Dates, locs \in SUBSET Locations :
        \E news \in Injections(Scheduled, Schedules \ Scheduled),
           newt \in Injections(Slotted, Slots \ Slotted) : Copy(from, to, locs, news, newt)

SlotRequest ==
  \/ \E t \in Slots, row \in SlotRow : TimeSlotCreate(t, row)
  \/ \E t \in Slots, i \in Instants, wanted \in Caps : TimeSlotUpdate(t, i, wanted)
  \/ \E t \in Slots : TimeSlotDelete(t)

ResponseRequest ==
  \/ \E s \in Schedules, c \in Couriers, t \in Slots \cup {Absent} : Assign(s, c, t)
  \/ \E ids \in SUBSET (Schedules \X Couriers), status \in {Available, Unavailable} :
        StatusUpdate(ids, status)
  \/ \E s \in Schedules, c \in Couriers, status \in {Available, Unavailable} :
        Respond(s, c, status)

Next ==
  \/ ScheduleRequest
  \/ SlotRequest
  \/ ResponseRequest
  \/ \E c \in Couriers : SetActive(c)
  \/ Tick

Spec == Init /\ [][Next]_vars

-------------------------------------------------------------------------------
(* Properties                                                              *)

\* Every row has the columns the tables give it.
TypeOK ==
  /\ schedule \in [Schedules -> ScheduleRow \cup {Absent}]
  /\ slot \in [Slots -> SlotRow \cup {Absent}]
  /\ response \in [Schedules \X Couriers -> ResponseRow \cup {Absent}]
  /\ active \subseteq Couriers
  /\ now \in Instants

\* No courier is ever available for two schedules that share an instant, whether the
\* courier answered, or an operator turned several answers in one batch.
NoDoubleBooking ==
  \A c \in Couriers : \A s, x \in AvailableOn(c) :
    s # x => ~\E i \in Instants : Within(i, schedule[s].window) /\ Within(i, schedule[x].window)

\* A place on a slot is held by an available courier, and the slot is there: whoever is
\* turned down, and whatever slot is deleted, no place is left over.
PlaceHeldByAvailable ==
  \A p \in Answered :
    response[p].slot # Absent => response[p].status = Available /\ response[p].slot \in Slotted

\* A schedule that a courier answered stays, and stays notified: GetCouriersBySchedule
\* and the reminders find the answer through it.
AnsweredScheduleStays ==
  \A p \in Answered : p[1] \in Scheduled /\ schedule[p[1]].notified

\* A slot that gains a courier is not over its Wanted afterwards, although only writes of
\* TimeSlotId pass the trigger and a turn back to Available does not.
FillsOnlyFreePlaces ==
  [][\A t \in Slotted :
       /\ ~(Booked(t)' \subseteq Booked(t))
       /\ slot'[t] # Absent
       => slot'[t].wanted = NoCap \/ Cardinality(Booked(t)') <= slot'[t].wanted]_vars

===============================================================================
