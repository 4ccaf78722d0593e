CONSTANTS
  Jobs = {j1, j2}
  MaxRuns = 2
  Days = {1}
  Pins = {"start"}
  Statuses = {0, 1, 2}
  Names = {"4410"}
  VoidJobsName = "Void Jobs"
  LegacyAssign = TRUE
SPECIFICATION Spec
SYMMETRY Symmetry
INVARIANT TablesAgree
PROPERTY ImplementsJobBoard
