--------------------------------- MODULE RCS ---------------------------------
(***************************************************************************)
(* RCSCalculator.calculate as a state machine: the loop over the findings, *)
(* in any order, followed by truncation, caps and label.                   *)
(***************************************************************************)
EXTENDS Scoring

CONSTANT MaxFindings   \* bound on the findings of one contract

ASSUME MaxFindingsAssumption == MaxFindings \in Nat

VARIABLES
  total,   \* total_penalty, in tenths
  counts,  \* findings by severity
  exact,   \* every weighted penalty so far was a whole number of points
  score    \* final_score, or -1 before the loop has ended

scoreVars == <<total, counts, exact, score>>

Count == counts["critical"] + counts["high"] + counts["medium"] + counts["low"]

ScoreTypeOK ==
  /\ total \in Nat
  /\ counts \in [Severity -> Nat]
  /\ exact \in BOOLEAN
  /\ score \in -1 .. 100

InitScore ==
  /\ total = 0
  /\ counts = [s \in Severity |-> 0]
  /\ exact = TRUE
  /\ score = -1

\* What final_score may be for the findings added so far.
Scores == {Capped(p, counts["critical"]) : p \in Truncations(total, exact)}

-----------------------------------------------------------------------------
AddFinding(s, c) ==
  /\ score = -1
  /\ Count < MaxFindings
  /\ total' = total + Weighted(s, c)
  /\ counts' = [counts EXCEPT ![s] = @ + 1]
  /\ exact' = (exact /\ Weighted(s, c) % 10 = 0)
  /\ UNCHANGED score

Finish ==
  /\ score = -1
  /\ score' \in Scores
  /\ UNCHANGED <<total, counts, exact>>

NextScore == Finish \/ \E s \in Severity, c \in Category : AddFinding(s, c)

SpecScore == InitScore /\ [][NextScore]_scoreVars

-----------------------------------------------------------------------------
(* Properties *)

\* Every report passes the schema's 0 <= resolution_clarity_score <= 100: a
\* score outside would raise in build_report, a ValueError, and fail the job
\* for good.  A score of 100 is kept for contracts without any finding.
ScoreInRange ==
  score # -1 => score \in 0 .. 100 /\ (score = 100 <=> Count = 0)

\* However few other findings there are, one critical finding keeps a contract
\* out of the two best labels, and a second one puts it in the worst.
CriticalsDecideTheLabel ==
  score # -1 =>
    /\ counts["critical"] >= 1 => score <= 50 /\ score_to_label(score) \notin {"Well-specified", "Minor issues"}
    /\ counts["critical"] >= 2 => score <= 25 /\ score_to_label(score) = "Critical"

\* One more finding never improves the score, whatever the rounding of either
\* sum and on both sides of a cap.
NeverImproves ==
  [][counts' # counts => \A before \in Scores, after \in Scores' : after <= before]_scoreVars
==============================================================================
