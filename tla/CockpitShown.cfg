CONSTANTS
  Jobs = {j1}
  MaxRuns = 2
  Days = {1}
  Pins = {}
  Statuses = {0, 1}
  Names = {"4410"}
  VoidJobsName = "Void Jobs"
  LegacyAssign = FALSE
  Day = 1
  OtherClients = FALSE
SPECIFICATION CockpitSpec
CHECK_DEADLOCK FALSE
INVARIANT EveryLiveJobIsShown
