------------------------------ MODULE Scoring ------------------------------
(***************************************************************************)
(* The arithmetic of the Resolution Clarity Score: penalties, truncation,  *)
(* caps and labels.  Points are counted in tenths, which every penalty     *)
(* times multiplier of the code is a multiple of.                          *)
(***************************************************************************)
EXTENDS Findings

CONSTANTS
  Penalty,     \* severity -> points
  Multiplier   \* category -> tenths (11 is the 1.1 of the code)

DefaultPenalty ==
  [s \in Severity |-> CASE s = "critical" -> 25 [] s = "high" -> 12
                        [] s = "medium" -> 5 [] s = "low" -> 2]
DefaultMultiplier ==
  [c \in Category |-> CASE c = "threshold_gaming" -> 11
                        [] c = "adversarial_resolution" -> 12 [] OTHER -> 10]

Weighted(s, c) == Penalty[s] * Multiplier[c]

\* Every finding costs at least a point (the defaults start at 2 x 1.0).
ASSUME WeightAssumption ==
  \A s \in Severity, c \in Category : Weighted(s, c) \in Nat /\ Weighted(s, c) >= 10

\* Mutant: no floor.
RawScoreNoFloor(t) == 1000 - t

RawScore(t) == IF t > 1000 THEN 0 ELSE 1000 - t

\* int(raw_score).  Penalties such as 12 * 1.1 are rounded to binary, so where
\* they add up to a whole number raw_score may lie just below it and lose one
\* point more.  Which sums do depends on the order of the findings and is left
\* open: more outcomes than the code has, never fewer.
Truncations(t, is_exact) ==
  LET raw == RawScore(t) IN
  {raw \div 10} \cup
    (IF ~is_exact /\ raw > 0 /\ raw % 10 = 0 THEN {raw \div 10 - 1} ELSE {})

\* Mutants: the second cap one critical late, the second cap as a constant.
CappedLate(points, criticals) ==
  IF criticals > 2 /\ points > 25 THEN 25
  ELSE IF criticals >= 1 /\ points > 50 THEN 50
  ELSE points
CappedAlways(points, criticals) ==
  IF criticals >= 2 THEN 25
  ELSE IF criticals >= 1 /\ points > 50 THEN 50
  ELSE points

Capped(points, criticals) ==
  IF criticals >= 2 /\ points > 25 THEN 25
  ELSE IF criticals >= 1 /\ points > 50 THEN 50
  ELSE points

score_to_label(points) ==
  IF points >= 85 THEN "Well-specified"
  ELSE IF points >= 70 THEN "Minor issues"
  ELSE IF points >= 50 THEN "Moderate risk"
  ELSE IF points >= 30 THEN "High risk"
  ELSE "Critical"
=============================================================================
