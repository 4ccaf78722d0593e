CONSTANTS
  Jobs = {j1, j2}
  Runs = {1, 2}
  Clients = {c1, c2}
  MaxRows = 3
  KindSets = {{"upsert", "assign", "remove", "delete", "send"}, {"assign", "remove", "send"}}
SPECIFICATION Spec
SYMMETRY Symmetry
CONSTRAINT OneJobOfAllKinds
INVARIANTS TypeOK TablesAgree
PROPERTY ImplementsBoard
