SPECIFICATION Spec
CONSTANTS
  Request = {r1, r2, r3}
  Key = {k1}
  MasterKey = MasterKey
  NoRequest = NoRequest
  RATE_LIMIT_RPM = 2
  Window = 2
  Skew = 1
  Tag = {t1, t2}
  MaxTime = 3
  MaxFaults = 1
SYMMETRY MCSymmetry
INVARIANTS WithinLimit CountsServed RevokedStaysOut
PROPERTY RefusedMeansFull
CHECK_DEADLOCK FALSE
