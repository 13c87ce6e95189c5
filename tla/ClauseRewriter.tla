--------------------------- MODULE ClauseRewriter ---------------------------
(***************************************************************************)
(* ClauseRewriter.rewrite_all: the findings one after the other, each with *)
(* up to MAX_REWRITE_ATTEMPTS pairs of LLM calls, one that rewrites the    *)
(* clause and one that judges the rewrite.                                 *)
(***************************************************************************)
EXTENDS Integers

CONSTANTS
  FindingCount,         \* findings of the report
  MAX_REWRITE_ATTEMPTS

ASSUME FindingCountAssumption == FindingCount \in Nat
ASSUME AttemptsAssumption == MAX_REWRITE_ATTEMPTS \in Nat \ {0}

VARIABLES
  current,   \* the finding rewrite_all is at
  attempt,   \* the attempt rewrite_finding is in, from 0
  answer,    \* rewrite_result, or "due" while the rewriter has to be called
  asked,     \* the feedback the last rewriter prompt carried
  rewrite,   \* finding.rewrite: 0 for the analyzer's, else 1 + the attempt
  feedback,  \* finding._validator_feedback: which judgement it comes from
  verdicts   \* what the validator said of each attempt on each finding

vars == <<current, attempt, answer, asked, rewrite, feedback, verdicts>>

Finding == 1 .. FindingCount
Attempt == 0 .. MAX_REWRITE_ATTEMPTS - 1

\* A judgement is named by the finding and the attempt it is about.
NoFeedback == <<0, 0>>
Feedback == (Finding \X Attempt) \cup {NoFeedback}

\* "noClause": an object without rewritten_clause, which a validator may like.
Answer == {"due", "noClause", "clause"}

\* What the validator's answer amounts to in rewrite_finding's test; "failed"
\* is the default for a call that failed.
Verdict == {"approvedHigh", "approvedLow", "rejected", "failed"}

TypeOK ==
  /\ current \in 1 .. FindingCount + 1
  /\ attempt \in Attempt
  /\ answer \in Answer
  /\ asked \in Feedback
  /\ rewrite \in [Finding -> 0 .. MAX_REWRITE_ATTEMPTS]
  /\ feedback \in [Finding -> Feedback]
  /\ verdicts \in [Finding \X Attempt -> Verdict \cup {"none"}]

Init ==
  /\ current = 1
  /\ attempt = 0
  /\ answer = "due"
  /\ asked = NoFeedback
  /\ rewrite = [f \in Finding |-> 0]
  /\ feedback = [f \in Finding |-> NoFeedback]
  /\ verdicts = [j \in Finding \X Attempt |-> "none"]

-----------------------------------------------------------------------------
\* rewrite_finding returns or raises; either way rewrite_all goes on.
NextFinding ==
  /\ current' = current + 1
  /\ attempt' = 0
  /\ answer' = "due"
  /\ asked' = NoFeedback

\* _call_rewriter returns an object; its prompt carried the finding's feedback.
Rewrites ==
  /\ current \in Finding
  /\ answer = "due"
  /\ answer' \in {"noClause", "clause"}
  /\ asked' = feedback[current]
  /\ UNCHANGED <<current, attempt, rewrite, feedback, verdicts>>

\* It returns None or an empty value, and the loop breaks; or a value that is
\* no object, on which _call_validator raises before it calls anything.
RewriterFails ==
  /\ current \in Finding
  /\ answer = "due"
  /\ NextFinding
  /\ UNCHANGED <<rewrite, feedback, verdicts>>

Judged(verdict) ==
  /\ current \in Finding
  /\ answer # "due"
  /\ verdicts' = [verdicts EXCEPT ![<<current, attempt>>] = verdict]

\* Mutant: any approval will do.
ApprovesAtAll ==
  /\ \E verdict \in {"approvedHigh", "approvedLow"} : Judged(verdict)
  /\ rewrite' = IF answer = "clause" THEN [rewrite EXCEPT ![current] = attempt + 1] ELSE rewrite
  /\ NextFinding
  /\ UNCHANGED feedback

\* approved, and quality_score >= 3.
Approves ==
  /\ Judged("approvedHigh")
  /\ rewrite' = IF answer = "clause" THEN [rewrite EXCEPT ![current] = attempt + 1] ELSE rewrite
  /\ NextFinding
  /\ UNCHANGED feedback

\* approved with a quality_score that does not compare with 3: TypeError.
JudgementRaises ==
  /\ current \in Finding
  /\ answer # "due"
  /\ NextFinding
  /\ UNCHANGED <<rewrite, feedback, verdicts>>

\* Mutants: the feedback is kept with the rewriter, not with the finding; a
\* rejected attempt is repeated without counting it.
RejectsForAll ==
  /\ \E verdict \in {"approvedLow", "rejected", "failed"} : Judged(verdict)
  /\ IF attempt < MAX_REWRITE_ATTEMPTS - 1
       THEN /\ feedback' = [f \in Finding |-> <<current, attempt>>]
            /\ attempt' = attempt + 1
            /\ answer' = "due"
            /\ UNCHANGED <<current, asked>>
       ELSE NextFinding /\ UNCHANGED feedback
  /\ UNCHANGED rewrite
RejectsUncounted ==
  /\ \E verdict \in {"approvedLow", "rejected", "failed"} : Judged(verdict)
  /\ answer' = "due"
  /\ UNCHANGED <<current, attempt, asked, rewrite, feedback>>

\* Anything else, a validator call that failed included.  The suggestion, or
\* the lack of one, replaces the feedback of the attempt before.
Rejects ==
  /\ \E verdict \in {"approvedLow", "rejected", "failed"} :
       /\ Judged(verdict)
       /\ IF attempt < MAX_REWRITE_ATTEMPTS - 1
            THEN /\ \E suggestion \in {NoFeedback, <<current, attempt>>} :
                      /\ verdict = "failed" => suggestion = NoFeedback
                      /\ feedback' = [feedback EXCEPT ![current] = suggestion]
                 /\ attempt' = attempt + 1
                 /\ answer' = "due"
                 /\ UNCHANGED <<current, asked>>
            ELSE NextFinding /\ UNCHANGED feedback
  /\ UNCHANGED rewrite

Next == Rewrites \/ RewriterFails \/ Approves \/ JudgementRaises \/ Rejects

Spec == Init /\ [][Next]_vars

-----------------------------------------------------------------------------
(* Properties *)

\* A rewrite reaches the report only if the validator approved that very
\* rewrite with 3 points or more; otherwise the analyzer's stays.
AdoptedIsApproved ==
  \A f \in Finding :
    rewrite[f] > 0 => verdicts[<<f, rewrite[f] - 1>>] = "approvedHigh"

\* A prompt carries no feedback but that of the attempt just before, on the
\* same finding.
FeedbackIsLatest ==
  answer # "due" => asked \in {NoFeedback, <<current, attempt - 1>>}

\* rewrite_all comes to its end however the calls turn out.
RewritingEnds == <>(current = FindingCount + 1)

\* The calls of the rewriter and the validator that are left at most.
CallsLeft ==
  2 * (MAX_REWRITE_ATTEMPTS * (FindingCount + 1 - current) - attempt)
    - (IF answer = "due" THEN 0 ELSE 1)

\* No step leaves things as they were or goes back: each uses up a call at least,
\* also when it fails or its answer raises.
CallsUsedUp == [][CallsLeft' \in Nat /\ CallsLeft' < CallsLeft]_vars

-----------------------------------------------------------------------------
(* Inductive invariant *)

\* The findings still to come are untouched, and the current one has at most
\* the feedback of the attempt before.
Untouched ==
  /\ \A f \in Finding : f >= current => rewrite[f] = 0
  /\ \A f \in Finding : f > current => feedback[f] = NoFeedback
  /\ current \in Finding => feedback[current] \in {NoFeedback, <<current, attempt - 1>>}

RewriterInv == TypeOK /\ Untouched /\ AdoptedIsApproved /\ FeedbackIsLatest

\* After the last finding nothing is asked.
AtTheEnd == current = FindingCount + 1 => attempt = 0 /\ answer = "due"
=============================================================================
