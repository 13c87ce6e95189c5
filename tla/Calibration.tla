---------------------------- MODULE Calibration ----------------------------
(***************************************************************************)
(* The grid search of scripts/calibrate_weights.py: every combination of   *)
(* penalties is scored against the outcomes of audited contracts.  Which   *)
(* one wins is left out; that none may win is not.                         *)
(***************************************************************************)
EXTENDS Integers, FiniteSets

CONSTANTS
  Delivery,  \* outcomes the platforms send
  Payload    \* what each of them says, and the finding counts of its report

critical_options == <<20, 25, 30>>
high_options == <<10, 12, 15>>
medium_options == <<4, 5, 6>>
low_options == <<1, 2, 3>>

\* The order of itertools.product: the last list turns fastest.
GridSize == 81
Combination(i) ==
  [critical |-> critical_options[((i - 1) \div 27) + 1],
   high     |-> high_options[(((i - 1) \div 9) % 3) + 1],
   medium   |-> medium_options[(((i - 1) \div 3) % 3) + 1],
   low      |-> low_options[((i - 1) % 3) + 1]]

Least(a, b) == IF a < b THEN a ELSE b

\* counts: how many findings of each severity the audit reported.
predicted_score(counts, penalty) ==
  LET deducted == counts.critical * penalty.critical + counts.high * penalty.high
                    + counts.medium * penalty.medium + counts.low * penalty.low
      raw == 100 - Least(deducted, 100)
  IN  IF counts.critical >= 2 THEN Least(raw, 25)
      ELSE IF counts.critical = 1 THEN Least(raw, 50) ELSE raw

\* A clean market should have scored high, a disputed one low.
Right(said, penalty) ==
  LET score == predicted_score(said.counts, penalty)
  IN  \/ said.clean = "yes" /\ score >= 70
      \/ said.disputed /\ score < 50
RightAnswers ==
  {answer \in Delivery \X (1 .. GridSize) : Right(Payload[answer[1]], Combination(answer[2]))}

\* Whether some combination gets one of the rows right, so that the search has
\* a result.  A row is <<delivery, copy>>.
Classifiable(rows_read) == \E row \in rows_read, i \in 1 .. GridSize : <<row[1], i>> \in RightAnswers
=============================================================================
