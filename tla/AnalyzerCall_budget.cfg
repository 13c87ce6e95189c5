SPECIFICATION Spec
CONSTANTS
  MaxRetries = 3
  MaxWait = 4
  CallTime = {0, 5}
  ServiceTime = {0, 12}
  Phrase = {"by Q3", "midnight"}
  RiskyTerm = {"bankruptcy"}
  Extraction <- MCExtraction
  Answer <- MCAnswer
  Timeout <- MCTimeout
INVARIANTS OnlySlownessTimesOut LookupsLoseNothing DeadlineReported
PROPERTY ImplementsPipeline
CHECK_DEADLOCK FALSE
