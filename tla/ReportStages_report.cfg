SPECIFICATION FairSpecStages
CONSTANTS
  FindingCount = 2
  MAX_REWRITE_ATTEMPTS = 3
  NonText = NonText
  Char <- MCChar
  Space <- MCSpace
  Contract <- MCContract
  Draft <- MCDraft
  Wording <- MCWording
INVARIANTS AdoptedIsApproved FeedbackIsLatest DiffReadsBothWays IndependentRewritesApplied NothingElseChanges
PROPERTY RewritingEnds
CHECK_DEADLOCK FALSE
