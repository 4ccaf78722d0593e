SPECIFICATION ChSpec
CONSTANTS
  ChDepots = {d1, d2}
  Nil = Nil
  MaxLegs = 4
  MaxEdits = 3
INVARIANT DirectHasNoLinehauls
CHECK_DEADLOCK FALSE
