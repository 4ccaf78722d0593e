SPECIFICATION CacheSpec
CONSTANTS
  Requests = {p1, p2, p3}
  Listed = {l1, l2}
  MaxVersion = 1
INVARIANTS CacheTypeOK PatchIsKept
PROPERTIES CallsAreAnswered ListSettles
CHECK_DEADLOCK FALSE
