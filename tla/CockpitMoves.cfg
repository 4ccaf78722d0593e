CONSTANTS
  Jobs = {j1}
  MaxRuns = 3
  Days = {1}
  Pins = {}
  Statuses = {0, 1, 2}
  Names = {"4410"}
  VoidJobsName = "Void Jobs"
  LegacyAssign = TRUE
  Day = 1
  OtherClients = TRUE
SPECIFICATION CockpitSpec
INVARIANTS CockpitTypeOK
PROPERTY NoSilentTakeover
CONSTRAINT Bounded
