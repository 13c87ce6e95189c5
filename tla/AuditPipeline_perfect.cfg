SPECIFICATION Spec
CONSTANTS
  Clause <- MCClause
  Evidence = {}
  Found = {}
  MaxFindings = 8
  Penalty <- MCPenalty
  Multiplier <- MCMultiplier
  Analyzers <- MCAnalyzers
  Answer <- MCAnswer
  SourceClause <- MCSourceClause
  TimezoneClause <- MCTimezoneClause
INVARIANT PerfectMeansAudited
CHECK_DEADLOCK FALSE
