SPECIFICATION PbSpec
CONSTANTS
  Polygons = {1, 2}
  MaxUndo = 2
  MaxSteps = 2
  MaxDrawings = 1
  MaxCalls = 1
INVARIANT DrawnIsDraft
CHECK_DEADLOCK FALSE
