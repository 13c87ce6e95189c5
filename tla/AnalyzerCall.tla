---------------------------- MODULE AnalyzerCall ----------------------------
(***************************************************************************)
(* One analyzer of an audit, from the contract to its findings: the LLM    *)
(* extracts the contract's structure, the analyzer asks the LLM for        *)
(* findings under its timeout, and enriches them from outside services.    *)
(* AuditPipeline takes all six together and leaves calls and time out.     *)
(***************************************************************************)
EXTENDS LLMClient, ContractParser, Findings

CONSTANTS
  Extraction,  \* what the LLM may extract
  Answer,      \* the list of findings it may answer with, or no list
  Timeout,     \* ANALYZER_TIMEOUTS, by category
  ServiceTime  \* seconds an enrichment service may take that is not cut

\* origin tells the LLM's findings from those of a check; about_timezone that
\* the description mentions the timezone.
FindingOf(origin, about_timezone) ==
  [origin |-> origin, about_timezone |-> about_timezone, evidence |-> {}]

\* What is kept of a list has been through a constructor that validates it.
ASSUME CallAssumption ==
  /\ Timeout \in [Category -> Nat \ {0}] /\ ServiceTime \subseteq Nat
  /\ EmptyExtraction \in Extraction
  /\ \A x \in Extraction : Raises(x) \/ Kept(x.timeframes) \in Seq(Timeframe)
  /\ \A list \in Answer : list.iterable => Kept(list) \in Seq({FindingOf("llm", b) : b \in BOOLEAN})

VARIABLES
  pc,        \* where the audit, and later the analyzer, is
  text,      \* the contract
  analyzer,  \* the category of the analyzer
  parsed,    \* the ParsedContract, once there is one
  answered,  \* the findings of the LLM
  findings,  \* the findings by now
  looked,    \* scope creep: entities looked up so far
  gathered   \* the evidence that services have supplied

vars == <<pc, text, analyzer, parsed, answered, findings, looked, gathered, LLMVars, timer>>
input == <<text, analyzer>>
enrichment == <<looked, gathered>>

Unparsed ==
  [source_url |-> FALSE, named_entities |-> <<>>, thresholds |-> <<>>, timeframes |-> <<>>, key_terms |-> <<>>]

Init ==
  /\ pc = "extract"
  /\ text \in Text
  /\ analyzer \in Category
  /\ parsed = Unparsed
  /\ answered = <<>> /\ findings = <<>>
  /\ looked = 0 /\ gathered = {}
  /\ Idle
  /\ deadline = 0 /\ now = 0 /\ slow = 0

-----------------------------------------------------------------------------
\* The extraction has no timeout of its own.
CallLLM ==
  /\ pc \in {"extract", "analyze"}
  /\ Complete
  /\ UNCHANGED <<pc, input, parsed, answered, findings, enrichment>>

\* parse: the text is JSON or it is not; then run_all starts the analyzer.
Parse ==
  /\ pc = "extract" /\ reply # "none"
  /\ \E x \in IF reply = "text" THEN Extraction ELSE {EmptyExtraction} :
       IF Raises(x)
         THEN pc' = "raised" /\ UNCHANGED <<parsed, deadline, LLMVars>>
         ELSE /\ pc' = "analyze"
              /\ parsed' = ParsedContract(text, x)
              /\ deadline' = Timeout[analyzer]
              /\ StartCompletion
  /\ UNCHANGED <<input, answered, findings, enrichment, now, slow>>

\* analyze: no completion is an AnalyzerError.
LLMError ==
  /\ pc = "analyze" /\ reply = "error"
  /\ pc' = "failed"
  /\ UNCHANGED <<input, parsed, answered, findings, enrichment, LLMVars, timer>>

\* A JSON list, in or without a "findings" wrapper, is taken without its
\* malformed items; anything else is an AnalyzerError.
ParseFindings ==
  /\ pc = "analyze" /\ reply = "text"
  /\ \E list \in Answer :
       IF list.iterable
         THEN pc' = "post" /\ answered' = Kept(list) /\ findings' = answered'
         ELSE pc' = "failed" /\ UNCHANGED <<answered, findings>>
  /\ UNCHANGED <<input, parsed, enrichment, LLMVars, timer>>

-----------------------------------------------------------------------------
(* _post_process_findings *)

WithEvidence(list, E) == [i \in DOMAIN list |-> [list[i] EXCEPT !.evidence = @ \cup E]]

Return(list) == pc' = "returned" /\ findings' = list

Posts(a) == pc = "post" /\ analyzer = a

\* Nothing to look at, or nothing to attach it to.
ReturnAsIs ==
  /\ \/ Posts("definitional_ambiguity")
     \/ Posts("source_failure") /\ ~parsed.source_url
     \/ Posts("adversarial_resolution") /\ findings = <<>>
  /\ Return(findings)
  /\ UNCHANGED <<input, parsed, answered, enrichment, LLMVars, timer>>

\* The HEAD request: its status and redirects, or None and none when it raises.
HttpProbe == [status : {"ok", "gone"}, found : {{}, {"redirects"}}] \cup {[status |-> "None", found |-> {}]}

\* Snapshots of the URL; another status than 200 and an exception mean none.
WaybackCheck == {{}, {"wayback"}}

\* Both at once, each result or exception on its own.
SourceProbe == {[status |-> h.status, found |-> h.found \cup w] : h \in HttpProbe, w \in WaybackCheck}

\* No status, 404 and 410 make a finding of their own, put first; then every
\* finding gets the evidence.
ProbeSource ==
  /\ Posts("source_failure") /\ parsed.source_url
  /\ \E d \in ServiceTime : Spend(d, 0)
  /\ \E result \in SourceProbe :
       /\ gathered' = result.found
       /\ Return(WithEvidence(IF result.status = "ok" THEN findings
                              ELSE <<FindingOf("check", FALSE)>> \o findings, result.found))
  /\ UNCHANGED <<input, parsed, answered, looked, LLMVars>>

\* Mutant: the deterministic check only runs for the LLM's findings.
CheckTimezoneIfFound ==
  /\ Posts("timing_ambiguity")
  /\ LET missing == \E i \in DOMAIN parsed.timeframes : ~parsed.timeframes[i].timezone
         flagged == \E i \in DOMAIN findings : findings[i].about_timezone
     IN Return(IF missing /\ ~flagged /\ findings # <<>> THEN Append(findings, FindingOf("check", TRUE)) ELSE findings)
  /\ UNCHANGED <<input, parsed, answered, enrichment, LLMVars, timer>>

CheckTimezone ==
  /\ Posts("timing_ambiguity")
  /\ LET missing == \E i \in DOMAIN parsed.timeframes : ~parsed.timeframes[i].timezone
         flagged == \E i \in DOMAIN findings : findings[i].about_timezone
     IN Return(IF missing /\ ~flagged THEN Append(findings, FindingOf("check", TRUE)) ELSE findings)
  /\ UNCHANGED <<input, parsed, answered, enrichment, LLMVars, timer>>

\* A threshold is TRUE when its series is one of KNOWN_REVISION_RISK_SERIES.
CheckSeries ==
  /\ Posts("threshold_gaming")
  /\ gathered' = IF TRUE \in ToSet(parsed.thresholds) THEN {"revisions"} ELSE {}
  /\ Return(WithEvidence(findings, gathered'))
  /\ UNCHANGED <<input, parsed, answered, looked, LLMVars, timer>>

\* The entities that are looked up, by their place.
AtRisk ==
  SetToSortSeq({i \in DOMAIN parsed.named_entities :
                  parsed.named_entities[i].org /\ parsed.named_entities[i].ambiguous}, <)

\* A dissolved company, or SEC filings about a merger; another status than 200
\* and an exception mean none.
OpenCorporates == {{}, {"dissolution"}}
EdgarFilings == {{}, {"filing"}}

\* Both at once, each result or exception on its own; the rumors stay None.
CorporateActions(i) == {{<<i, action>> : action \in c \cup e} : c \in OpenCorporates, e \in EdgarFilings}

\* Mutant: one try around the loop, whose exception gives up what was found.
LookUpEntityOrLeave ==
  /\ Posts("scope_creep") /\ looked < Len(AtRisk)
  /\ \E d \in ServiceTime : Spend(d, 0)
  /\ \/ /\ looked' = looked + 1
        /\ \E found \in CorporateActions(AtRisk[looked + 1]) : gathered' = gathered \cup found
        /\ UNCHANGED <<pc, findings>>
     \/ Return(findings) /\ UNCHANGED enrichment
  /\ UNCHANGED <<input, parsed, answered, LLMVars>>

\* One after the other, each in a try of its own.
LookUpEntity ==
  /\ Posts("scope_creep") /\ looked < Len(AtRisk)
  /\ \E d \in ServiceTime : Spend(d, 0)
  /\ looked' = looked + 1
  /\ \E found \in CorporateActions(AtRisk[looked + 1]) : gathered' = gathered \cup found
  /\ UNCHANGED <<pc, input, parsed, answered, findings, LLMVars>>

AttachEntities ==
  /\ Posts("scope_creep") /\ looked = Len(AtRisk)
  /\ Return(WithEvidence(findings, gathered))
  /\ UNCHANGED <<input, parsed, answered, enrichment, LLMVars, timer>>

\* embed answers or raises, and is not tried again.
Embedded == BOOLEAN

\* The query has rows or none, and none when it raises.
DisputeQuery == {{}, {"disputes"}}

\* Without an embedding nothing is asked.
SimilarDisputes(embedding) == IF embedding THEN DisputeQuery ELSE {{}}

FindDisputes ==
  /\ Posts("adversarial_resolution") /\ findings # <<>>
  /\ \E d \in ServiceTime : Spend(d, 0)
  /\ \E embedding \in Embedded : \E found \in SimilarDisputes(embedding) :
       gathered' = found /\ Return(WithEvidence(findings, found))
  /\ UNCHANGED <<input, parsed, answered, looked, LLMVars>>

-----------------------------------------------------------------------------
\* The analyzers that wait for a service; the others do not give up the loop.
AwaitsService ==
  \/ Posts("source_failure") /\ parsed.source_url
  \/ Posts("scope_creep") /\ looked < Len(AtRisk)
  \/ Posts("adversarial_resolution") /\ findings # <<>>

\* Mutant: what the analyzer found stays.
TimeOutKeeping ==
  /\ \/ pc = "analyze" /\ (CutCall \/ CutBackoff)
     \/ AwaitsService /\ slow' = slow + deadline - now /\ UNCHANGED requests
  /\ pc' = "timedOut"
  /\ now' = deadline
  /\ UNCHANGED <<input, parsed, answered, findings, enrichment, asked, attempt, reply, deadline>>

\* wait_for cancels the analyzer where it waits; what it has found is dropped.
TimeOut ==
  /\ \/ pc = "analyze" /\ (CutCall \/ CutBackoff)
     \/ AwaitsService /\ slow' = slow + deadline - now /\ UNCHANGED requests
  /\ pc' = "timedOut"
  /\ now' = deadline
  /\ findings' = <<>>
  /\ UNCHANGED <<input, parsed, answered, enrichment, asked, attempt, reply, deadline>>

Next ==
  \/ CallLLM \/ Parse \/ LLMError \/ ParseFindings
  \/ ReturnAsIs \/ ProbeSource \/ CheckTimezone \/ CheckSeries
  \/ LookUpEntity \/ AttachEntities \/ FindDisputes
  \/ TimeOut

Spec == Init /\ [][Next]_vars

-----------------------------------------------------------------------------
(* Properties *)

TypeOK ==
  /\ pc \in {"extract", "analyze", "post", "returned", "failed", "timedOut", "raised"}
  /\ text \in Text /\ analyzer \in Category
  /\ asked \in Provider /\ attempt \in 0 .. MaxRetries - 1
  /\ requests \in [Provider -> Nat] /\ reply \in {"none", "text", "error"}
  /\ deadline \in Nat /\ now \in Nat /\ slow \in Nat /\ looked \in Nat

\* However the providers fail, a completion calls each of them at most
\* max_retries times, and OpenAI not while Anthropic may still be asked: with
\* the two providers a completion costs at most twice the retries.
RequestsBounded ==
  /\ \A p \in Provider : requests[p] <= MaxRetries
  /\ requests["openai"] > 0 => asked = "openai"

\* The timeouts in runner.py leave room for all retries at both providers: an
\* analyzer is cut off only when the calls themselves (and the attempts that a
\* provider's library makes inside of one) took the time, never by the client's
\* backoff alone.
OnlySlownessTimesOut ==
  pc = "timedOut" => slow + 2 * MaxRetries * MaxWait >= deadline

\* "Don't fail the whole analysis if enrichment fails": an analyzer that came
\* to post-processing returns what the LLM found, all of it and in its order,
\* beside at most one finding of its own, and every finding carries what any
\* service supplied.
LookupsLoseNothing ==
  /\ pc = "failed" => answered = <<>>
  /\ pc = "returned" =>
       /\ \E before, after \in 0 .. 1 :
            /\ before + after <= 1 /\ Len(findings) = before + Len(answered) + after
            /\ \A i \in DOMAIN findings : findings[i].origin = "llm" <=> i - before \in DOMAIN answered
            /\ \A i \in DOMAIN answered : findings[before + i].about_timezone = answered[i].about_timezone
       /\ analyzer = "timing_ambiguity" \/ \A i \in DOMAIN findings : gathered \subseteq findings[i].evidence

\* A deadline phrase of the contract for which the LLM extracted no timeframe
\* ends as a timezone finding, whether or not the extraction failed, held
\* malformed items or missed it.
DeadlineReported ==
  pc = "returned" /\ analyzer = "timing_ambiguity" =>
    \A p \in text.phrases :
      \/ \E i \in DOMAIN parsed.timeframes : p \in parsed.timeframes[i].raw /\ parsed.timeframes[i].timezone
      \/ \E i \in DOMAIN findings : findings[i].about_timezone

-----------------------------------------------------------------------------
(* Inductive invariant *)

\* Whoever comes to post-processing has a timeframe for each deadline phrase.
PhrasesCovered ==
  pc \notin {"extract", "raised"} =>
    parsed.timeframes \in Seq(Timeframe) /\ \A p \in text.phrases : Covered(p, parsed.timeframes)

\* The findings are the LLM's until the analyzer returns, and what services
\* supply waits only where they are asked one after the other.
FindingsHeld ==
  /\ answered \in Seq({FindingOf("llm", b) : b \in BOOLEAN})
  /\ pc \in {"extract", "analyze", "failed", "raised"} => answered = <<>> /\ findings = <<>>
  /\ pc = "timedOut" => findings = <<>>
  /\ pc = "post" => findings = answered /\ (analyzer = "scope_creep" \/ gathered = {})
  /\ pc \in {"extract", "analyze"} => gathered = {}

FindingsInv == PhrasesCovered /\ FindingsHeld /\ LookupsLoseNothing /\ DeadlineReported

-----------------------------------------------------------------------------
(* AuditPipeline, with this analyzer at work and the other five waiting *)

Mapped(a, f) ==
  [category |-> a, evidence |-> {},
   severity |-> IF f.origin = "llm" THEN "low"
                ELSE IF a = "source_failure" THEN "critical" ELSE "medium",
   clause |-> IF f.origin = "llm" THEN {} ELSE {a}]

MappedAll(a, list) == [i \in DOMAIN list |-> Mapped(a, list[i])]

\* self.analyzers
AnalyzerOrder == <<"source_failure", "definitional_ambiguity", "threshold_gaming",
                   "scope_creep", "timing_ambiguity", "adversarial_resolution">>

HasCheck == \E i \in DOMAIN findings : findings[i].origin = "check"

StageAs == IF pc = "extract" THEN "parse" ELSE IF pc = "raised" THEN "raised" ELSE "analyze"

ContractAs ==
  [source_url |-> parsed.source_url,
   no_timezone |-> \E i \in DOMAIN parsed.timeframes : ~parsed.timeframes[i].timezone]

ProbeAs ==
  IF pc # "returned" \/ analyzer # "source_failure" \/ ~parsed.source_url THEN "unsent"
  ELSE IF HasCheck THEN "dead" ELSE "alive"

AtAs ==
  [a \in Category |->
    IF a # analyzer \/ pc \in {"extract", "analyze", "raised"} THEN "llm"
    ELSE IF pc = "post" THEN "post" ELSE "returned"]

ResultAs ==
  [a \in Category |-> IF a = analyzer THEN MappedAll(a, findings) ELSE <<>>]

ErrorsAs == IF pc \in {"failed", "timedOut"} THEN {analyzer} ELSE {}

Pipeline == INSTANCE AuditPipeline WITH
  Analyzers <- AnalyzerOrder,
  Answer <- {[i \in DOMAIN Kept(list) |-> [severity |-> "low", clause |-> {}]] :
               list \in {l \in Answer : l.iterable}},
  SourceClause <- {"source_failure"}, TimezoneClause <- {"timing_ambiguity"},
  Penalty <- [s \in Severity |-> 1], Multiplier <- [c \in Category |-> 10],
  stage <- StageAs, contract <- ContractAs, probe <- ProbeAs, at <- AtAs,
  result <- ResultAs, errors <- ErrorsAs,
  Clause <- {{}} \cup {{a} : a \in Category}, Evidence <- {}, Found <- {}, MaxFindings <- 0,
  found <- <<>>, sorted <- FALSE, remaining <- <<>>, deduplicated <- <<>>,
  total <- 0, counts <- [s \in Severity |-> 0], exact <- TRUE, score <- -1

\* The parser, the LLM client, the services and the timeout together do to an
\* analyzer's findings and errors nothing that AuditPipeline does not allow for,
\* so what is checked of the pipeline holds with them in its place.
ImplementsPipeline == Pipeline!Spec
=============================================================================
