CONSTANTS
  Jobs = {j1}
  Runs = {1, 2, 3}
  Clients = {c1, c2}
  MaxRows = 2
  KindSets = {{"upsert"}}
SPECIFICATION Spec
CHECK_DEADLOCK FALSE
PROPERTY MovesFromSeenRun
