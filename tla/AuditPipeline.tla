---------------------------- MODULE AuditPipeline ----------------------------
(***************************************************************************)
(* AuditPipeline.run: parse, run the analyzers concurrently with a timeout *)
(* each, merge what they found as FindingMerge does, score it as RCS does  *)
(* and assemble the report.  An analyzer is named by the one category its  *)
(* findings have.                                                          *)
(***************************************************************************)
EXTENDS FindingMerge, RCS, SequencesExt

CONSTANTS
  Analyzers,       \* self.analyzers: a sequence of categories
  Answer,          \* what an LLM may answer: lists of [severity, clause]
  SourceClause,    \* the words of resolution_source
  TimezoneClause   \* the words of the time references without a timezone

Analyzer == Range(Analyzers)

ASSUME AnalyzersAssumption ==
  Analyzers \in Seq(Category) /\ IsInjective(Analyzers)
ASSUME AnswerAssumption ==
  /\ Answer \subseteq Seq([severity : Severity, clause : Clause])
  /\ {SourceClause, TimezoneClause} \subseteq Clause

VARIABLES
  stage,     \* how far run has come; "raised" when it ended in an exception
  contract,  \* whether parsing found a source URL, and a time without a timezone
  probe,     \* what the HEAD request to the source said, once it was sent
  at,        \* of each analyzer: waiting for the LLM, post-processing, returned
  result,    \* the findings of each analyzer
  errors     \* the analyzers with an entry in analyzer_errors

vars == <<stage, contract, probe, at, result, errors, mergeVars, scoreVars>>
running == <<stage, contract, mergeVars, scoreVars>>

NewFinding(a, severity, clause) ==
  [category |-> a, severity |-> severity, clause |-> clause, evidence |-> {}]

\* Mutant: one category for all.
ParsedAsFirst(a, answer) ==
  [i \in DOMAIN answer |-> NewFinding(Analyzers[1], answer[i].severity, answer[i].clause)]

\* _parse_llm_output: every finding gets the category of its analyzer.
Parsed(a, answer) ==
  [i \in DOMAIN answer |-> NewFinding(a, answer[i].severity, answer[i].clause)]

Init ==
  /\ stage = "parse"
  /\ contract = [source_url |-> FALSE, no_timezone |-> FALSE]
  /\ probe = "unsent"
  /\ at = [a \in Analyzer |-> "llm"]
  /\ result = [a \in Analyzer |-> <<>>]
  /\ errors = {}
  /\ found = <<>> /\ sorted = FALSE /\ remaining = <<>> /\ deduplicated = <<>>
  /\ InitScore

-----------------------------------------------------------------------------
\* A failed extraction is replaced by an empty one, but an answer that is JSON
\* of another shape makes _build_parsed_contract raise.
Parse ==
  /\ stage = "parse"
  /\ \/ /\ stage' = "analyze"
        /\ contract' \in [source_url : BOOLEAN, no_timezone : BOOLEAN]
     \/ stage' = "raised" /\ UNCHANGED contract
  /\ UNCHANGED <<probe, at, result, errors, mergeVars, scoreVars>>

LLMAnswers(a) ==
  /\ stage = "analyze" /\ at[a] = "llm"
  /\ \E answer \in Answer : result' = [result EXCEPT ![a] = Parsed(a, answer)]
  /\ at' = [at EXCEPT ![a] = "post"]
  /\ UNCHANGED <<running, probe, errors>>

\* The call fails, or the answer is not a JSON list: AnalyzerError.
LLMFails(a) ==
  /\ stage = "analyze" /\ at[a] = "llm"
  /\ at' = [at EXCEPT ![a] = "returned"]
  /\ errors' = errors \cup {a}
  /\ UNCHANGED <<running, probe, result>>

Return(a, list) ==
  /\ stage = "analyze" /\ at[a] = "post"
  /\ at' = [at EXCEPT ![a] = "returned"]
  /\ result' = [result EXCEPT ![a] = list]

\* Mutant: the LLM's findings are looked at first.
ProbeSourceIfFlagged ==
  LET a == "source_failure" IN
  /\ \E answer \in {"dead", "alive"} :
       /\ probe' = answer
       /\ Return(a, IF answer = "dead" /\ result[a] # <<>>
                      THEN <<NewFinding(a, "critical", SourceClause)>> \o result[a]
                      ELSE result[a])
  /\ contract.source_url
  /\ UNCHANGED <<running, errors>>

\* SourceFailureAnalyzer: 404, 410 and no answer at all mean a dead source,
\* which is put before the LLM's findings.
ProbeSource ==
  LET a == "source_failure" IN
  /\ contract.source_url
  /\ \E answer \in {"dead", "alive"} :
       /\ probe' = answer
       /\ Return(a, IF answer = "dead"
                      THEN <<NewFinding(a, "critical", SourceClause)>> \o result[a]
                      ELSE result[a])
  /\ UNCHANGED <<running, errors>>

\* Mutant: the LLM is believed without a finding.
CheckTimezoneTrusting ==
  LET a == "timing_ambiguity" IN
  /\ contract.no_timezone
  /\ \E list \in {result[a], Append(result[a], NewFinding(a, "medium", TimezoneClause))} :
       Return(a, list)
  /\ UNCHANGED <<running, probe, errors>>

\* TimingAmbiguityAnalyzer: a finding of its own unless the LLM flagged the
\* timezone, in words that need at least one finding.
CheckTimezone ==
  LET a == "timing_ambiguity" IN
  /\ contract.no_timezone
  /\ \E flagged \in BOOLEAN :
       /\ flagged => result[a] # <<>>
       /\ Return(a, IF flagged THEN result[a]
                    ELSE Append(result[a], NewFinding(a, "medium", TimezoneClause)))
  /\ UNCHANGED <<running, probe, errors>>

\* The other analyzers, and these two otherwise, add evidence only.
PostProcess(a) ==
  /\ a = "source_failure" => ~contract.source_url
  /\ a = "timing_ambiguity" => ~contract.no_timezone
  /\ Return(a, result[a])
  /\ UNCHANGED <<running, probe, errors>>

\* Mutants: the timeout covers the LLM call only; what was found is kept.
TimeOutLLM(a) ==
  /\ stage = "analyze" /\ at[a] = "llm"
  /\ at' = [at EXCEPT ![a] = "returned"]
  /\ result' = [result EXCEPT ![a] = <<>>]
  /\ errors' = errors \cup {a}
  /\ UNCHANGED <<running, probe>>
TimeOutKeeping(a) ==
  /\ stage = "analyze" /\ at[a] # "returned"
  /\ at' = [at EXCEPT ![a] = "returned"]
  /\ errors' = errors \cup {a}
  /\ UNCHANGED <<running, probe, result>>

\* asyncio.wait_for cancels the analyzer wherever it is; nothing of it is left.
TimeOut(a) ==
  /\ stage = "analyze" /\ at[a] # "returned"
  /\ at' = [at EXCEPT ![a] = "returned"]
  /\ result' = [result EXCEPT ![a] = <<>>]
  /\ errors' = errors \cup {a}
  /\ UNCHANGED <<running, probe>>

\* gather waits for all of them; results come in the order of the analyzers.
Gather ==
  /\ stage = "analyze"
  /\ \A a \in Analyzer : at[a] = "returned"
  /\ stage' = "merge"
  /\ found' = FlattenSeq([i \in DOMAIN Analyzers |-> result[Analyzers[i]]])
  /\ UNCHANGED <<contract, probe, at, result, errors, sorted, remaining, deduplicated, scoreVars>>

\* A step of _merge_and_sort.
Merge ==
  /\ stage = "merge"
  /\ NextMerge
  /\ UNCHANGED <<stage, contract, probe, at, result, errors, scoreVars>>

Merged ==
  /\ stage = "merge" /\ Done
  /\ stage' = "score"
  /\ UNCHANGED <<contract, probe, at, result, errors, mergeVars, scoreVars>>

\* A turn of calculate's loop.
ScoreFinding ==
  /\ stage = "score" /\ Count < Len(deduplicated)
  /\ AddFinding(deduplicated[Count + 1].severity, deduplicated[Count + 1].category)
  /\ UNCHANGED <<stage, contract, probe, at, result, errors, mergeVars>>

Score ==
  /\ stage = "score" /\ Count = Len(deduplicated)
  /\ Finish
  /\ stage' = "build"
  /\ UNCHANGED <<contract, probe, at, result, errors, mergeVars>>

\* The rewriter and the diffs leave category, severity and order alone, but a
\* rewrite that is not a string makes the diffs raise, or build_report.
RewriteRaises ==
  /\ \/ stage = "score" /\ total = 0
     \/ stage = "build"
  /\ deduplicated # <<>>
  /\ stage' = "raised"
  /\ UNCHANGED <<contract, probe, at, result, errors, mergeVars, scoreVars>>

Build ==
  /\ stage = "build"
  /\ stage' = "done"
  /\ UNCHANGED <<contract, probe, at, result, errors, mergeVars, scoreVars>>

Next ==
  \/ Parse \/ Gather \/ Merge \/ Merged \/ ScoreFinding \/ Score \/ RewriteRaises \/ Build
  \/ \E a \in Analyzer : LLMAnswers(a) \/ LLMFails(a) \/ PostProcess(a) \/ TimeOut(a)
  \/ "source_failure" \in Analyzer /\ ProbeSource
  \/ "timing_ambiguity" \in Analyzer /\ CheckTimezone

Spec == Init /\ [][Next]_vars

\* The event loop runs what is ready, and the timers of wait_for fire.  The LLM
\* and the enrichment services need not answer.
Fairness ==
  /\ WF_vars(Gather \/ Merge \/ Merged \/ ScoreFinding \/ Score \/ Build)
  /\ \A a \in Analyzer : WF_vars(TimeOut(a))

FairSpec == Spec /\ Fairness

-----------------------------------------------------------------------------
(* Properties *)

Entry(severities, category) ==
  \E i \in DOMAIN deduplicated :
    deduplicated[i].severity \in severities /\ deduplicated[i].category = category

TypeOK ==
  /\ stage \in {"parse", "analyze", "merge", "score", "build", "done", "raised"}
  /\ contract \in [source_url : BOOLEAN, no_timezone : BOOLEAN]
  /\ probe \in {"unsent", "dead", "alive"}
  /\ at \in [Analyzer -> {"llm", "post", "returned"}]
  /\ errors \subseteq Analyzer
  /\ result \in [Analyzer -> Seq(Finding)]
  /\ \A a \in Analyzer : \A i \in DOMAIN result[a] : result[a][i].category = a
  /\ MergeTypeOK
  /\ ScoreTypeOK

\* "A single analyzer failure does not abort the run", and it does not leak
\* into the report either: all findings of the analyzers that succeeded are in
\* it, merged or not, and none of those that failed or were cancelled.
FailureIsIsolated ==
  stage \in {"score", "build", "done"} =>
    \A a \in Analyzer :
      IF a \in errors THEN ~Entry(Severity, a)
      ELSE \A i \in DOMAIN result[a] :
             \E k \in DOMAIN deduplicated : Represents(deduplicated[k], result[a][i])

\* A source that was found dead makes a critical finding in the report and
\* keeps the score at 50 or less, whatever the LLM answered and whatever the
\* merge made of it, unless the analyzer was cancelled or failed afterwards.
DeadSourceReported ==
  stage = "done" /\ probe = "dead" /\ "source_failure" \notin errors
    => Entry({"critical"}, "source_failure") /\ score <= 50

\* A time without a timezone never goes unreported by an analyzer that ran.
TimezoneReported ==
  stage = "done" /\ contract.no_timezone /\ "timing_ambiguity" \in Analyzer \ errors
    => Entry(Severity, "timing_ambiguity") /\ score < 100

\* The analyzers always come to an end, hanging services or not, and the report
\* (or an exception) follows.
AnalysisEnds == stage = "analyze" ~> stage \in {"done", "raised"}

Stages == <<"parse", "analyze", "merge", "score", "build", "done", "raised">>
Later(s, t) == \E i, j \in DOMAIN Stages : j < i /\ Stages[i] = s /\ Stages[j] = t

\* The steps that are left at most in the stage the run is in, but for its last.
StepsLeft ==
  CASE stage = "analyze" -> Cardinality({a \in Analyzer : at[a] = "llm"})
                              + Cardinality({a \in Analyzer : at[a] # "returned"})
    [] stage = "merge" -> IF sorted THEN Len(remaining) ELSE Len(found) + 1
    [] stage = "score" -> Len(deduplicated) - Count
    [] OTHER -> 0

\* Whatever the analyzers do and in whatever order, no step is wasted: it ends a
\* stage for good or leaves less to do in it.
StepsUsedUp ==
  [][/\ StepsLeft' \in Nat
     /\ Later(stage', stage) \/ (stage' = stage /\ StepsLeft' < StepsLeft)]_vars

\* rcs_calculator.py: "100 = perfectly specified", so a contract that scores
\* 100 has been through every analyzer.
PerfectMeansAudited == stage = "done" /\ score = 100 => errors = {}

-----------------------------------------------------------------------------
(* Inductive invariant *)

\* What an analyzer has to show, by where it is.
AnalysisInv ==
  /\ stage = "parse" => \A a \in Analyzer : at[a] = "llm"
  /\ stage \in {"merge", "score", "build", "done"} => \A a \in Analyzer : at[a] = "returned"
  /\ \A a \in Analyzer : at[a] = "llm" => result[a] = <<>> /\ a \notin errors
  /\ \A a \in errors : at[a] = "returned" /\ result[a] = <<>>
  /\ probe # "unsent" => "source_failure" \in Analyzer /\ at["source_failure"] = "returned"
  /\ probe = "dead" /\ "source_failure" \notin errors =>
       \E i \in DOMAIN result["source_failure"] : result["source_failure"][i].severity = "critical"
  /\ \A a \in Analyzer \ errors :
       a = "timing_ambiguity" /\ contract.no_timezone /\ at[a] = "returned" => result[a] # <<>>

\* The merge works on what the analyzers returned, and is over when the scoring
\* begins.
GatheredInv ==
  /\ stage \in {"parse", "analyze"} => ~sorted
  /\ stage \in {"merge", "score", "build", "done"} =>
       /\ \A a \in Analyzer : \A i \in DOMAIN result[a] :
            \E k \in DOMAIN found : found[k] = result[a][i]
       /\ \A k \in DOMAIN found : \E a \in Analyzer : \E i \in DOMAIN result[a] :
            found[k] = result[a][i]
  /\ stage \in {"score", "build", "done"} => Done

\* The scoring counts every entry once, in the order of the report.
CountedInv ==
  /\ stage \in {"parse", "analyze", "merge"} => Count = 0
  /\ stage \in {"parse", "analyze", "merge", "score"} => score = -1
  /\ stage \in {"build", "done"} => score # -1 /\ Count = Len(deduplicated)
  /\ Count <= Len(deduplicated)
  /\ \A i \in DOMAIN deduplicated :
       i <= Count /\ deduplicated[i].severity = "critical" => counts["critical"] >= 1

PipelineInv == TypeOK /\ AnalysisInv /\ GatheredInv /\ CountedInv
=============================================================================
