SPECIFICATION FairSpec
CONSTANTS
  d1 = d1
  d2 = d2
  Delivery = {d1, d2}
  NoDelivery = NoDelivery
  Payload <- MCPayload
  Process = {p1, p2}
  Importing = {p1}
  Handler = {h1}
  Calibrator = {c1, c2}
  RECALIBRATION_THRESHOLD = 2
  ListLimit = 2
  MaxMinute = 2
  MaxFaults = 1
INVARIANTS NewestIsActive OneActiveUnlessOverlapping TriggersExact
PROPERTIES OutcomeStored CalibrationEnds
CHECK_DEADLOCK FALSE
