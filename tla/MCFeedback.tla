----------------------------- MODULE MCFeedback -----------------------------
EXTENDS Feedback, TLC

CONSTANTS d1, d2

Counts(c, h, m) == [critical |-> c, high |-> h, medium |-> m, low |-> 0]

\* A clean market that most penalties pass, and a disputed one with a single
\* critical finding, which the cap of 50 keeps every penalty from getting right.
MCPayload ==
  (d1 :> [audited |-> TRUE, clean |-> "yes", disputed |-> FALSE, counts |-> Counts(0, 2, 1)])
  @@ (d2 :> [audited |-> TRUE, clean |-> "no", disputed |-> TRUE, counts |-> Counts(1, 0, 0)])
=============================================================================
