SPECIFICATION SpecScore
CONSTANTS
  Penalty <- MCPenalty
  Multiplier <- MCMultiplier
  MaxFindings = 8
INVARIANTS ScoreInRange CriticalsDecideTheLabel
PROPERTY NeverImproves
CHECK_DEADLOCK FALSE
