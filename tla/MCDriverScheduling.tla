-------------------------- MODULE MCDriverScheduling --------------------------
(* DriverScheduling on small instances.                                     *)
EXTENDS DriverScheduling, TLC

CONSTANTS c1, c2, north

MCRegionOf == [c \in Couriers |-> north]

\* The slots' vehicle type fits one courier only.
MCVehicleOf == [c \in Couriers |-> IF c = c1 THEN "Van" ELSE "Bike"]

\* Ids of schedules are interchangeable, and so are ids of slots.
Symmetry == Permutations(Schedules) \cup Permutations(Slots)

\* Bounds: two slots are there for clashes and copies, two couriers for a place that
\* both want, and not together; the clock stays in the first day;
\* once the second day is in use, one answer.
Bounded ==
  /\ Slotted = Slots => \A p \in Answered : p[2] = c1
  /\ active \in {Couriers, {c2}}
  /\ now < Ticks
  /\ (\E x \in Scheduled : Date(x) = 1) => Cardinality(Answered) <= 1
===============================================================================
