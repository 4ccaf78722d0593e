CONSTANTS
  Schedules = {s1, s2}
  Slots = {t1, t2}
  c1 = c1
  c2 = c2
  north = north
  Couriers = {c1, c2}
  Names = {"am", "pm"}
  Locations = {north}
  Vehicles = {"Van"}
  RegionOf <- MCRegionOf
  VehicleOf <- MCVehicleOf
  Days = 2
  Ticks = 2
  Limits = {1}
  Absent = Absent
SPECIFICATION Spec
CONSTRAINT Bounded
SYMMETRY Symmetry
INVARIANTS TypeOK NoDoubleBooking PlaceHeldByAvailable AnsweredScheduleStays
PROPERTY FillsOnlyFreePlaces
