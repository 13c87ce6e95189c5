SPECIFICATION SpecMerge
CONSTANTS
  Clause <- MCClause
  Evidence <- MCEvidence
  Found <- MCFound
INVARIANTS NothingLost NothingInvented NoDuplicatesLeft
CHECK_DEADLOCK FALSE
