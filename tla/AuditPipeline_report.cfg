SPECIFICATION FairSpec
CONSTANTS
  Clause <- MCClause
  Evidence = {}
  Found = {}
  MaxFindings = 8
  Penalty <- MCPenalty
  Multiplier <- MCMultiplier
  Analyzers <- MCAnalyzers
  Answer <- MCAnswer
  SourceClause <- MCSourceClause
  TimezoneClause <- MCTimezoneClause
INVARIANTS TypeOK FailureIsIsolated DeadSourceReported TimezoneReported
PROPERTY AnalysisEnds
CHECK_DEADLOCK FALSE
