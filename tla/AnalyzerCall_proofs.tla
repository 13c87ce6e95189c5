-------------------------- MODULE AnalyzerCall_proofs --------------------------
(***************************************************************************)
(* Proofs about AnalyzerCall: requests, time and types, for any contract,  *)
(* extraction, answer, timeout and number of retries.                      *)
(***************************************************************************)
EXTENDS AnalyzerCall, FiniteSetTheorems, TLAPS

\* Attempts that are over, those at Anthropic before OpenAI is asked counted
\* as if they all had been made.
Tries ==
  IF reply # "none" THEN 2 * MaxRetries
  ELSE IF asked = "openai" THEN MaxRetries + attempt ELSE attempt

\* Until wait_for fires, its clock has run in calls and in a backoff for each
\* attempt; it is not started before the analyzer.
TimeSpent ==
  /\ pc = "extract" => deadline = 0
  /\ pc \in {"analyze", "post"} => deadline # 0
  /\ deadline = 0 => now = 0 /\ slow = 0
  /\ pc # "timedOut" => now <= deadline /\ slow <= now /\ now <= slow + MaxWait * Tries

\* The request of each attempt has been sent, and no other.
RequestsSent ==
  /\ pc \in {"extract", "analyze"} /\ reply = "none" => requests[asked] = attempt
  /\ asked = "anthropic" => requests["openai"] = 0

CallInv == TypeOK /\ TimeSpent /\ RequestsSent /\ RequestsBounded /\ OnlySlownessTimesOut

LEMMA TriesBound ==
  ASSUME TypeOK
  PROVE  /\ Tries \in 0 .. 2 * MaxRetries
         /\ reply = "none" => Tries + 1 <= 2 * MaxRetries
  BY LLMAssumption DEF TypeOK, Tries, Provider

LEMMA BackoffBound ==
  ASSUME TypeOK
  PROVE  Backoff(attempt) \in 0 .. MaxWait
  BY LLMAssumption DEF TypeOK

\* More tries leave no less time for backoff.
LEMMA WaitGrows ==
  ASSUME NEW m \in Nat, NEW n \in Nat, m <= n
  PROVE  /\ MaxWait * m \in Nat
         /\ MaxWait * m <= MaxWait * n
         /\ MaxWait * (m + 1) = MaxWait * m + MaxWait
  <1>1. PICK k \in Nat : n = m + k
    BY n - m \in Nat
  <1>2. MaxWait * n = MaxWait * m + MaxWait * k
    BY <1>1, LLMAssumption
  <1>3. MaxWait * m \in Nat /\ MaxWait * k \in Nat
    BY LLMAssumption
  <1>4. MaxWait * (m + 1) = MaxWait * m + MaxWait
    BY LLMAssumption
  <1>. QED
    BY <1>2, <1>3, <1>4

\* A call of d seconds and a backoff of w that are over, after which there is
\* a try more if there was a backoff.
LEMMA SpendKeepsTime ==
  ASSUME TypeOK, TypeOK', TimeSpent, NEW d \in Nat, NEW w \in 0 .. MaxWait,
         Spend(d, w), pc \notin {"timedOut"}, pc' # "timedOut",
         pc' = "extract" => pc = "extract",
         pc' \in {"analyze", "post"} => pc \in {"analyze", "post"},
         Tries \in Nat, Tries' \in Nat, Tries <= Tries', w # 0 => Tries + 1 <= Tries'
  PROVE  TimeSpent'
  <1>1. MaxWait * Tries + w <= MaxWait * Tries'
    <2>1. CASE w = 0
      BY <2>1, WaitGrows
    <2>2. CASE w # 0
      <3>1. MaxWait * (Tries + 1) <= MaxWait * Tries' /\ MaxWait * (Tries + 1) = MaxWait * Tries + MaxWait
        BY <2>2, WaitGrows, Tries + 1 \in Nat
      <3>2. MaxWait * Tries \in Nat /\ MaxWait * Tries' \in Nat
        BY WaitGrows
      <3>3. MaxWait \in Nat
        BY LLMAssumption
      <3>. DEFINE A == MaxWait * Tries
                  B == MaxWait * Tries'
      <3>4. A + MaxWait <= B /\ A \in Nat /\ B \in Nat
        BY <3>1, <3>2
      <3>. HIDE DEF A, B
      <3>5. A + w <= B
        BY <3>3, <3>4
      <3>. QED
        BY <3>5 DEF A, B
    <2>. QED
      BY <2>1, <2>2
  <1>2. MaxWait * Tries \in Nat /\ MaxWait * Tries' \in Nat
    BY WaitGrows
  <1>. DEFINE A == MaxWait * Tries
              B == MaxWait * Tries'
  <1>3. /\ now \in Nat /\ slow \in Nat /\ deadline \in Nat
        /\ now <= deadline /\ slow <= now /\ now <= slow + A
        /\ A \in Nat /\ B \in Nat /\ A + w <= B
    BY <1>1, <1>2 DEF TimeSpent, TypeOK
  <1>4. CASE deadline = 0
    BY <1>3, <1>4 DEF Spend, timer, TimeSpent
  <1>5. CASE deadline # 0
    <2>1. /\ now' = now + d + w /\ now' <= deadline' /\ slow' = slow + d
          /\ deadline' = deadline /\ deadline' # 0
      BY <1>5 DEF Spend
    <2>. HIDE DEF A, B
    <2>2. slow' <= now' /\ now' <= slow' + B
      BY <1>3, <2>1
    <2>. QED
      BY <1>5, <2>1, <2>2 DEF TimeSpent, B
  <1>. QED
    BY <1>4, <1>5

\* A call or a backoff that wait_for cut short: what is not backoff is slowness.
LEMMA CutIsSlow ==
  ASSUME CallInv, pc # "timedOut", TypeOK',
         deadline' = deadline,
         \/ slow' = slow + deadline - now
         \/ \E d \in Nat : /\ reply = "none"
                           /\ deadline < now + d + Backoff(attempt)
                           /\ slow' = slow + d
  PROVE  slow' + 2 * MaxRetries * MaxWait >= deadline'
  <1>. DEFINE A == MaxWait * Tries
              L == 2 * MaxRetries * MaxWait
  <1>1. /\ now \in Nat /\ slow \in Nat /\ deadline \in Nat /\ MaxWait \in Nat
        /\ now <= deadline /\ slow <= now /\ now <= slow + A
    BY LLMAssumption DEF CallInv, TimeSpent, TypeOK
  <1>2. 2 * MaxRetries \in Nat /\ Tries \in Nat /\ Tries <= 2 * MaxRetries
        /\ (reply = "none" => Tries + 1 <= 2 * MaxRetries)
    BY TriesBound, LLMAssumption DEF CallInv
  <1>3. L = MaxWait * (2 * MaxRetries)
    BY LLMAssumption
  <1>4. A \in Nat /\ L \in Nat /\ A <= L
    BY <1>2, <1>3, WaitGrows
  <1>5. reply = "none" => A + MaxWait <= L
    BY <1>2, <1>3, WaitGrows, Tries + 1 \in Nat
  <1>6. Backoff(attempt) \in Nat /\ Backoff(attempt) <= MaxWait
    BY <1>1, BackoffBound DEF CallInv
  <1>. HIDE DEF A, L
  <1>7. slow' + L >= deadline
    BY <1>1, <1>4, <1>5, <1>6
  <1>. QED
    BY <1>7 DEF L

-----------------------------------------------------------------------------
(* The client *)

\* Completing: where it is and how much it has asked, before and after a step.
ClientTyped ==
  /\ asked \in Provider /\ attempt \in 0 .. MaxRetries - 1
  /\ requests \in [Provider -> Nat] /\ reply \in {"none", "text", "error"}

LEMMA CompleteKeeps ==
  ASSUME CallInv, pc \in {"extract", "analyze"}, Complete, UNCHANGED <<pc, text, analyzer, looked>>
  PROVE  CallInv'
  <1>. USE DEF Provider
  <1>1. PICK p \in Provider : Answered(p) \/ Transient(p) \/ Rejected(p)
    BY DEF Complete
  <1>2. /\ reply = "none" /\ asked = p /\ requests' = [requests EXCEPT ![p] = @ + 1]
        /\ requests[p] = attempt /\ attempt \in 0 .. MaxRetries - 1 /\ MaxRetries \in Nat
        /\ requests \in [Provider -> Nat]
    BY <1>1, LLMAssumption DEF Answered, Transient, Rejected, Request, CallInv, TypeOK, RequestsSent
  <1>3. PICK d \in Nat, w \in 0 .. MaxWait :
          /\ Spend(d, w)
          /\ \/ w = 0 /\ reply' = "text" /\ UNCHANGED <<asked, attempt>>
             \/ attempt + 1 < MaxRetries /\ attempt' = attempt + 1 /\ UNCHANGED <<asked, reply>>
             \/ GiveUp(p)
    <2>1. CASE Answered(p)
      BY <2>1, LLMAssumption DEF Answered
    <2>2. CASE Transient(p)
      BY <2>2, BackoffBound, LLMAssumption DEF Transient, CallInv
    <2>3. CASE Rejected(p)
      BY <2>3, LLMAssumption DEF Rejected
    <2>. QED
      BY <1>1, <2>1, <2>2, <2>3
  <1>4. ClientTyped' /\ RequestsSent' /\ RequestsBounded'
    BY <1>2, <1>3 DEF ClientTyped, GiveUp, RequestsSent, RequestsBounded, CallInv
  <1>5. TypeOK'
    <2>1. deadline' \in Nat /\ now' \in Nat /\ slow' \in Nat
      BY <1>3 DEF Spend, timer, CallInv, TypeOK
    <2>. QED
      BY <1>4, <2>1 DEF ClientTyped, CallInv, TypeOK
  <1>6. Tries + 1 <= Tries'
    BY <1>2, <1>3 DEF Tries, GiveUp
  <1>7. TimeSpent'
    <2>1. Tries \in Nat /\ Tries' \in Nat
      BY <1>2, <1>3, TriesBound DEF Tries, GiveUp, CallInv
    <2>2. Tries <= Tries'
      BY <1>6, <2>1
    <2>. QED
      BY <1>3, <1>5, <1>6, <2>1, <2>2, SpendKeepsTime DEF CallInv
  <1>. QED
    BY <1>4, <1>5, <1>7 DEF CallInv, OnlySlownessTimesOut

\* A step of the analyzer that asks the LLM nothing, and may wait for a service.
LEMMA ServiceKeeps ==
  ASSUME CallInv, TypeOK', NEW d \in Nat, Spend(d, 0), pc \in {"analyze", "post"},
         pc' \notin {"extract", "timedOut"}, pc' = "analyze" => pc = "analyze",
         UNCHANGED LLMVars
  PROVE  CallInv'
  <1>1. Tries' = Tries /\ Tries \in Nat
    BY TriesBound DEF Tries, LLMVars, CallInv
  <1>2. TimeSpent'
    BY <1>1, SpendKeepsTime, LLMAssumption DEF CallInv
  <1>3. RequestsSent' /\ RequestsBounded'
    BY DEF CallInv, RequestsSent, RequestsBounded, LLMVars
  <1>. QED
    BY <1>2, <1>3 DEF CallInv, OnlySlownessTimesOut

LEMMA QuietKeeps ==
  ASSUME CallInv, TypeOK', pc \in {"analyze", "post"},
         pc' \notin {"extract", "timedOut"}, pc' = "analyze" => pc = "analyze",
         UNCHANGED <<LLMVars, timer>>
  PROVE  CallInv'
  <1>1. Tries' = Tries
    BY DEF Tries, LLMVars
  <1>. QED
    BY <1>1 DEF CallInv, TimeSpent, RequestsSent, RequestsBounded, OnlySlownessTimesOut, LLMVars, timer

\* The extraction ends, and the analyzer and its timer start.
LEMMA ParseKeeps ==
  ASSUME CallInv, Parse
  PROVE  CallInv'
  <1>1. /\ pc = "extract" /\ deadline = 0 /\ now = 0 /\ slow = 0
        /\ UNCHANGED <<text, analyzer, looked, now, slow>>
        /\ MaxRetries \in Nat \ {0}
    BY LLMAssumption DEF Parse, input, enrichment, CallInv, TimeSpent
  <1>2. CASE pc' = "raised" /\ UNCHANGED <<deadline, LLMVars>>
    <2>1. TypeOK' /\ RequestsSent' /\ RequestsBounded' /\ OnlySlownessTimesOut' /\ Tries' = Tries
      BY <1>1, <1>2 DEF CallInv, TypeOK, RequestsSent, RequestsBounded, OnlySlownessTimesOut, LLMVars, Tries
    <2>2. TimeSpent'
      BY <1>1, <1>2, <2>1 DEF CallInv, TimeSpent
    <2>. QED
      BY <2>1, <2>2 DEF CallInv
  <1>3. CASE pc' = "analyze" /\ deadline' = Timeout[analyzer] /\ StartCompletion
    <2>. USE DEF StartCompletion, NoRequests, Provider
    <2>1. deadline' \in Nat \ {0}
      BY <1>3, CallAssumption DEF CallInv, TypeOK
    <2>2. TypeOK' /\ RequestsSent' /\ RequestsBounded' /\ OnlySlownessTimesOut'
      BY <1>1, <1>3, <2>1 DEF CallInv, TypeOK, RequestsSent, RequestsBounded, OnlySlownessTimesOut
    <2>3. Tries' = 0 /\ MaxWait * 0 = 0
      BY <1>1, <1>3, LLMAssumption DEF Tries
    <2>4. TimeSpent'
      BY <1>1, <1>3, <2>1, <2>3 DEF TimeSpent
    <2>. QED
      BY <2>2, <2>4 DEF CallInv
  <1>. QED
    BY <1>2, <1>3 DEF Parse

LEMMA TimeOutKeeps ==
  ASSUME CallInv, TimeOut
  PROVE  CallInv'
  <1>1. /\ pc # "timedOut" /\ pc' = "timedOut" /\ now' = deadline
        /\ UNCHANGED <<text, analyzer, looked, asked, attempt, reply, deadline>>
    BY DEF TimeOut, AwaitsService, Posts, input, enrichment
  <1>2. /\ now \in Nat /\ slow \in Nat /\ deadline \in Nat /\ now <= deadline /\ pc # "timedOut"
        /\ deadline # 0
    BY <1>1 DEF CallInv, TypeOK, TimeSpent, TimeOut, AwaitsService, Posts
  <1>3. \/ slow' = slow + deadline - now
        \/ \E d \in Nat : /\ reply = "none"
                          /\ deadline < now + d + Backoff(attempt)
                          /\ slow' = slow + d
    BY LLMAssumption DEF TimeOut, CutCall, CutBackoff, AwaitsService
  <1>4. \/ pc = "analyze" /\ reply = "none" /\ requests' = [requests EXCEPT ![asked] = @ + 1]
        \/ UNCHANGED requests
    BY DEF TimeOut, CutCall, CutBackoff, AwaitsService
  <1>5. slow' \in Nat
    <2>1. slow + deadline - now \in Nat
      BY <1>2
    <2>. QED
      BY <1>2, <1>3, <2>1
  <1>6. RequestsBounded' /\ RequestsSent' /\ requests' \in [Provider -> Nat]
    BY <1>1, <1>4, LLMAssumption
       DEF CallInv, TypeOK, RequestsSent, RequestsBounded, Provider
  <1>7. TypeOK'
    BY <1>1, <1>2, <1>5, <1>6 DEF CallInv, TypeOK
  <1>8. OnlySlownessTimesOut'
    BY <1>1, <1>3, <1>7, CutIsSlow DEF OnlySlownessTimesOut
  <1>9. TimeSpent'
    BY <1>1, <1>2, <1>7 DEF TimeSpent
  <1>. QED
    BY <1>6, <1>7, <1>8, <1>9 DEF CallInv

\* The inductive invariant.
THEOREM CallInvariant == Spec => []CallInv
  <1>1. Init => CallInv
    <2>. SUFFICES ASSUME Init PROVE CallInv
      OBVIOUS
    <2>1. TypeOK /\ RequestsSent /\ RequestsBounded /\ OnlySlownessTimesOut
      BY LLMAssumption DEF Init, Idle, NoRequests, Provider, TypeOK, RequestsSent, RequestsBounded, OnlySlownessTimesOut
    <2>2. Tries = 0 /\ MaxWait * 0 = 0
      BY LLMAssumption DEF Init, Idle, Tries
    <2>3. TimeSpent
      BY <2>2 DEF Init, TimeSpent
    <2>. QED
      BY <2>1, <2>3 DEF CallInv
  <1>2. CallInv /\ [Next]_vars => CallInv'
    <2>. SUFFICES ASSUME CallInv, [Next]_vars PROVE CallInv'
      OBVIOUS
    <2>. USE DEF Return, Posts, input, enrichment
    <2>1. CASE CallLLM
      BY <2>1, CompleteKeeps DEF CallLLM
    <2>2. CASE Parse
      BY <2>2, ParseKeeps
    <2>3. CASE LLMError \/ ParseFindings
      <3>1. TypeOK'
        BY <2>3 DEF LLMError, ParseFindings, LLMVars, timer, CallInv, TypeOK
      <3>. QED
        BY <2>3, <3>1, QuietKeeps DEF LLMError, ParseFindings
    <2>4. CASE ReturnAsIs \/ CheckTimezone \/ CheckSeries \/ AttachEntities
      <3>1. TypeOK'
        BY <2>4 DEF ReturnAsIs, CheckTimezone, CheckSeries, AttachEntities, LLMVars, timer, CallInv, TypeOK
      <3>. QED
        BY <2>4, <3>1, QuietKeeps DEF ReturnAsIs, CheckTimezone, CheckSeries, AttachEntities
    <2>5. CASE ProbeSource \/ LookUpEntity \/ FindDisputes
      <3>1. PICK d \in Nat : Spend(d, 0)
        BY <2>5, CallAssumption DEF ProbeSource, LookUpEntity, FindDisputes
      <3>2. pc = "post" /\ pc' \in {"post", "returned"} /\ UNCHANGED <<text, analyzer, LLMVars>>
            /\ looked' \in {looked, looked + 1}
        BY <2>5 DEF ProbeSource, LookUpEntity, FindDisputes
      <3>3. TypeOK'
        BY <3>1, <3>2 DEF Spend, LLMVars, timer, CallInv, TypeOK
      <3>. QED
        BY <3>1, <3>2, <3>3, ServiceKeeps
    <2>6. CASE TimeOut
      BY <2>6, TimeOutKeeps
    <2>7. CASE UNCHANGED vars
      BY <2>7 DEF vars, LLMVars, timer, CallInv, TypeOK, TimeSpent, Tries, RequestsSent,
              RequestsBounded, OnlySlownessTimesOut
    <2>. QED
      BY <2>1, <2>2, <2>3, <2>4, <2>5, <2>6, <2>7 DEF Next
  <1>. QED
    BY <1>1, <1>2, PTL DEF Spec

\* The variables keep their types.
THEOREM TypeCorrect == Spec => []TypeOK
  BY CallInvariant, PTL DEF CallInv

\* No provider is asked more often than max_retries for one completion.
THEOREM FewRequests == Spec => []RequestsBounded
  BY CallInvariant, PTL DEF CallInv

\* An analyzer is cut off only if calls took its timeout less all the backoff.
THEOREM BackoffFits == Spec => []OnlySlownessTimesOut
  BY CallInvariant, PTL DEF CallInv

-----------------------------------------------------------------------------
(* The parser *)

\* The sequence that a finite set is turned into holds each of its elements.
LEMMA SequenceOfSet ==
  ASSUME NEW S, IsFiniteSet(S)
  PROVE  /\ SetToSeq(S) \in Seq(S)
         /\ \A s \in S : \E i \in DOMAIN SetToSeq(S) : SetToSeq(S)[i] = s
  <1>. DEFINE n == Cardinality(S)
              f == SetToSeq(S)
  <1>1. n \in Nat /\ ExistsBijection(1 .. n, S)
    BY FS_CardinalityType
  <1>2. \E g \in [1 .. n -> S] : IsInjective(g)
    BY <1>1 DEF ExistsBijection, Bijection, Injection
  <1>3. f \in [1 .. n -> S] /\ IsInjective(f)
    BY <1>2 DEF SetToSeq
  <1>4. f \in Injection(1 .. n, S)
    BY <1>3 DEF Injection
  <1>5. IsFiniteSet(1 .. n) /\ Cardinality(1 .. n) = n
    BY <1>1, FS_Interval
  <1>6. f \in Surjection(1 .. n, S)
    BY <1>4, <1>5, FS_Injection
  <1>. HIDE DEF f
  <1>7. f \in Seq(S) /\ \A s \in S : \E i \in DOMAIN f : f[i] = s
    BY <1>1, <1>3, <1>6 DEF Surjection
  <1>. QED
    BY <1>7 DEF f

\* Whatever was extracted, each phrase of the text is in some timeframe.
LEMMA ParserCovers ==
  ASSUME NEW t \in Text, NEW x \in Extraction, ~Raises(x)
  PROVE  /\ Timeframes(t, x) \in Seq(Timeframe)
         /\ \A p \in t.phrases : Covered(p, Timeframes(t, x))
  <1>. DEFINE extracted == Kept(x.timeframes)
              missed == {p \in t.phrases : ~Covered(p, extracted)}
              frame == [p \in missed |-> [raw |-> {p}, timezone |-> FALSE]]
              frames == {[raw |-> {p}, timezone |-> FALSE] : p \in missed}
              added == SetToSeq(frames)
  <1>1. extracted \in Seq(Timeframe)
    BY CallAssumption
  <1>2. IsFiniteSet(missed) /\ missed \subseteq Phrase
    BY FS_Subset DEF Text
  <1>3. frame \in Surjection(missed, frames)
    BY DEF Surjection
  <1>4. IsFiniteSet(frames)
    BY <1>2, <1>3, FS_Surjection
  <1>5. frames \subseteq Timeframe
    <2>. SUFFICES ASSUME NEW r \in frames PROVE r \in Timeframe
      OBVIOUS
    <2>1. PICK p \in missed : r = [raw |-> {p}, timezone |-> FALSE]
      OBVIOUS
    <2>2. {p} \in SUBSET Phrase /\ FALSE \in BOOLEAN
      BY <1>2
    <2>. HIDE DEF missed
    <2>. QED
      BY <2>1, <2>2 DEF Timeframe
  <1>6. added \in Seq(frames) /\ \A r \in frames : \E i \in DOMAIN added : added[i] = r
    BY <1>4, SequenceOfSet
  <1>7. Timeframes(t, x) = extracted \o added
    BY DEF Timeframes
  <1>. HIDE DEF extracted, frames, added
  <1>8. /\ extracted \o added \in Seq(Timeframe)
        /\ \A i \in DOMAIN extracted : i \in DOMAIN (extracted \o added) /\ (extracted \o added)[i] = extracted[i]
        /\ \A i \in DOMAIN added :
             /\ Len(extracted) + i \in DOMAIN (extracted \o added)
             /\ (extracted \o added)[Len(extracted) + i] = added[i]
    BY <1>1, <1>5, <1>6
  <1>9. ASSUME NEW p \in t.phrases
        PROVE  Covered(p, extracted \o added)
    <2>1. CASE Covered(p, extracted)
      BY <2>1, <1>8 DEF Covered
    <2>2. CASE ~Covered(p, extracted)
      <3>1. [raw |-> {p}, timezone |-> FALSE] \in frames
        BY <2>2 DEF frames
      <3>2. PICK i \in DOMAIN added : added[i] = [raw |-> {p}, timezone |-> FALSE]
        BY <3>1, <1>6
      <3>3. p \in added[i].raw
        BY <3>2
      <3>. QED
        BY <3>3, <1>8 DEF Covered
    <2>. QED
      BY <2>1, <2>2
  <1>. QED
    BY <1>7, <1>8, <1>9

-----------------------------------------------------------------------------
(* The findings *)

Told == {FindingOf("llm", b) : b \in BOOLEAN}
Given == {FindingOf(o, b) : o \in {"llm", "check"}, b \in BOOLEAN}

\* The same findings, with this evidence among theirs.
Carries(held, list, E) ==
  /\ DOMAIN held = DOMAIN list /\ Len(held) = Len(list)
  /\ \A i \in DOMAIN list :
       /\ held[i].origin = list[i].origin /\ held[i].about_timezone = list[i].about_timezone
       /\ E \subseteq held[i].evidence

\* Evidence is all that post-processing adds to a finding.
LEMMA EvidenceAdds ==
  ASSUME NEW list \in Seq(Given), NEW E
  PROVE  Carries(WithEvidence(list, E), list, E)
  <1>. DEFINE w == WithEvidence(list, E)
  <1>1. w = [i \in 1 .. Len(list) |-> [list[i] EXCEPT !.evidence = @ \cup E]]
    BY DEF WithEvidence
  <1>2. DOMAIN w = DOMAIN list /\ Len(w) = Len(list)
    BY <1>1
  <1>3. ASSUME NEW i \in DOMAIN list
        PROVE  /\ w[i].origin = list[i].origin /\ w[i].about_timezone = list[i].about_timezone
               /\ E \subseteq w[i].evidence
    <2>1. PICK o \in {"llm", "check"}, b \in BOOLEAN : list[i] = FindingOf(o, b)
      BY DEF Given
    <2>2. list[i] = [origin |-> o, about_timezone |-> b, evidence |-> {}]
      BY <2>1 DEF FindingOf
    <2>3. w[i] = [list[i] EXCEPT !.evidence = @ \cup E]
      BY <1>1
    <2>. HIDE DEF w
    <2>. QED
      BY <2>2, <2>3
  <1>. QED
    BY <1>2, <1>3 DEF Carries

\* What the analyzer may return: the LLM's findings in their order, with one of
\* a check before or after them or none.
Around(list, before, after) ==
  /\ before \in 0 .. 1 /\ after \in 0 .. 1 /\ before + after <= 1
  /\ list \in Seq(Given) /\ Len(list) = before + Len(answered) + after
  /\ \A i \in DOMAIN answered : list[before + i] = answered[i]
  /\ \A i \in DOMAIN list : list[i].origin = "llm" <=> i - before \in DOMAIN answered

\* It is what the LLM found, that with a check's finding in front, or at the end.
LEMMA AroundAnswer ==
  ASSUME answered \in Seq(Told), NEW b \in BOOLEAN
  PROVE  /\ Around(answered, 0, 0)
         /\ Around(<<FindingOf("check", b)>> \o answered, 1, 0)
         /\ Around(Append(answered, FindingOf("check", b)), 0, 1)
  <1>. DEFINE check == FindingOf("check", b)
  <1>1. check \in Given /\ check.origin = "check" /\ Told \subseteq Given
    <2>1. check.origin = "check"
      BY DEF FindingOf
    <2>. QED
      BY <2>1 DEF Told, Given
  <1>2. \A i \in DOMAIN answered : answered[i].origin = "llm"
    <2>. SUFFICES ASSUME NEW i \in DOMAIN answered PROVE answered[i].origin = "llm"
      OBVIOUS
    <2>1. answered[i] \in Told
      OBVIOUS
    <2>. QED
      BY <2>1 DEF Told, FindingOf
  <1>. HIDE DEF check
  <1>3. answered \in Seq(Given) /\ DOMAIN answered = 1 .. Len(answered) /\ Len(answered) \in Nat
    BY <1>1
  <1>4. Around(answered, 0, 0)
    BY <1>2, <1>3 DEF Around
  <1>5. Around(<<check>> \o answered, 1, 0)
    BY <1>1, <1>2, <1>3 DEF Around
  <1>6. Around(Append(answered, check), 0, 1)
    BY <1>1, <1>2, <1>3 DEF Around
  <1>. QED
    BY <1>4, <1>5, <1>6 DEF check

\* Returning such a list, with what was gathered, keeps the promise.
LEMMA ReturnKeeps ==
  ASSUME FindingsHeld, pc = "post", pc' = "returned", UNCHANGED <<text, analyzer, parsed, answered>>,
         PhrasesCovered, NEW list, NEW before, NEW after, Around(list, before, after),
         NEW E, Carries(findings', list, E),
         analyzer = "timing_ambiguity" \/ gathered' = E, DeadlineReported'
  PROVE  FindingsInv'
  <1>1. /\ DOMAIN findings' = DOMAIN list /\ Len(findings') = Len(list)
        /\ \A i \in DOMAIN list :
             /\ findings'[i].origin = list[i].origin
             /\ findings'[i].about_timezone = list[i].about_timezone
             /\ E \subseteq findings'[i].evidence
    BY DEF Carries
  <1>2. \A i \in DOMAIN answered : before + i \in DOMAIN list
    BY DEF Around, FindingsHeld
  <1>3. /\ before \in 0 .. 1 /\ after \in 0 .. 1 /\ before + after <= 1
        /\ Len(findings') = before + Len(answered') + after
    BY <1>1 DEF Around
  <1>4. \A i \in DOMAIN findings' : findings'[i].origin = "llm" <=> i - before \in DOMAIN answered'
    BY <1>1 DEF Around
  <1>5. \A i \in DOMAIN answered' : findings'[before + i].about_timezone = answered'[i].about_timezone
    BY <1>1, <1>2 DEF Around
  <1>6. analyzer' = "timing_ambiguity" \/ \A i \in DOMAIN findings' : gathered' \subseteq findings'[i].evidence
    BY <1>1
  <1>7. LookupsLoseNothing'
    BY <1>3, <1>4, <1>5, <1>6 DEF LookupsLoseNothing
  <1>. QED
    BY <1>7 DEF FindingsInv, PhrasesCovered, FindingsHeld

\* A step that leaves the analyzer where it is, or that fails or cuts it.
LEMMA WaitKeeps ==
  ASSUME FindingsInv, UNCHANGED <<text, analyzer, parsed, answered>>,
         \/ UNCHANGED <<pc, findings, gathered>>
         \/ UNCHANGED <<pc, findings>> /\ pc = "post" /\ analyzer = "scope_creep"
         \/ pc = "analyze" /\ pc' = "failed" /\ UNCHANGED findings
         \/ pc \in {"analyze", "post"} /\ pc' = "timedOut" /\ findings' = <<>>
  PROVE  FindingsInv'
  <1>1. PhrasesCovered'
    BY DEF FindingsInv, PhrasesCovered
  <1>2. FindingsHeld'
    BY DEF FindingsInv, FindingsHeld
  <1>3. LookupsLoseNothing' /\ DeadlineReported'
    BY DEF FindingsInv, FindingsHeld, LookupsLoseNothing, DeadlineReported
  <1>. QED
    BY <1>1, <1>2, <1>3 DEF FindingsInv

\* What was parsed covers the phrases of the text when the analyzer starts.
LEMMA ParsedCovers ==
  ASSUME TypeOK, FindingsInv, Parse
  PROVE  FindingsInv'
  <1>1. PICK x \in Extraction :
          IF Raises(x) THEN pc' = "raised" ELSE pc' = "analyze" /\ parsed' = ParsedContract(text, x)
    BY CallAssumption DEF Parse
  <1>2. pc = "extract" /\ UNCHANGED <<text, analyzer, answered, findings, gathered>>
    BY DEF Parse, input, enrichment
  <1>3. PhrasesCovered'
    <2>1. CASE Raises(x)
      BY <1>1, <2>1 DEF PhrasesCovered
    <2>2. CASE ~Raises(x)
      <3>1. parsed'.timeframes = Timeframes(text, x)
        BY <1>1, <2>2 DEF ParsedContract
      <3>. QED
        BY <1>2, <2>2, <3>1, ParserCovers DEF PhrasesCovered, TypeOK
    <2>. QED
      BY <2>1, <2>2
  <1>4. FindingsHeld' /\ LookupsLoseNothing' /\ DeadlineReported'
    BY <1>1, <1>2 DEF FindingsInv, FindingsHeld, LookupsLoseNothing, DeadlineReported
  <1>. QED
    BY <1>3, <1>4 DEF FindingsInv

\* The answer is kept as it is, or is none.
LEMMA AnswerKeeps ==
  ASSUME FindingsInv, ParseFindings
  PROVE  FindingsInv'
  <1>1. PICK list \in Answer :
          IF list.iterable THEN pc' = "post" /\ answered' = Kept(list) /\ findings' = answered'
                           ELSE pc' = "failed" /\ UNCHANGED <<answered, findings>>
    BY DEF ParseFindings
  <1>2. pc = "analyze" /\ UNCHANGED <<text, analyzer, parsed, gathered>>
    BY DEF ParseFindings, input, enrichment
  <1>3. FindingsHeld'
    BY <1>1, <1>2, CallAssumption DEF FindingsInv, FindingsHeld
  <1>4. PhrasesCovered' /\ LookupsLoseNothing' /\ DeadlineReported'
    BY <1>1, <1>2 DEF FindingsInv, FindingsHeld, PhrasesCovered, LookupsLoseNothing, DeadlineReported
  <1>. QED
    BY <1>3, <1>4 DEF FindingsInv

\* A timeframe without a timezone makes a finding about it.
LEMMA TimezoneKeeps ==
  ASSUME TypeOK, FindingsInv, CheckTimezone
  PROVE  FindingsInv'
  <1>. DEFINE missing == \E i \in DOMAIN parsed.timeframes : ~parsed.timeframes[i].timezone
              flagged == \E i \in DOMAIN findings : findings[i].about_timezone
              check == FindingOf("check", TRUE)
  <1>1. /\ pc = "post" /\ pc' = "returned" /\ analyzer = "timing_ambiguity"
        /\ UNCHANGED <<text, analyzer, parsed, answered>>
        /\ findings' = IF missing /\ ~flagged THEN Append(findings, check) ELSE findings
    BY DEF CheckTimezone, Return, Posts, input
  <1>2. findings = answered /\ answered \in Seq(Told) /\ FindingsHeld /\ PhrasesCovered
    BY <1>1 DEF FindingsInv, FindingsHeld, Told
  <1>3. PICK after \in 0 .. 1 : Around(findings', 0, after)
    <2>1. Around(answered, 0, 0) /\ Around(Append(answered, check), 0, 1)
      BY <1>2, AroundAnswer
    <2>. HIDE DEF missing, flagged, check
    <2>2. findings' = answered \/ findings' = Append(answered, check)
      BY <1>1, <1>2
    <2>3. 0 \in 0 .. 1 /\ 1 \in 0 .. 1
      OBVIOUS
    <2>4. CASE findings' = answered
      BY <2>1, <2>3, <2>4, Zenon
    <2>5. CASE findings' = Append(answered, check)
      BY <2>1, <2>3, <2>5, Zenon
    <2>. QED
      BY <2>2, <2>4, <2>5
  <1>4. findings' \in Seq(Given)
    BY <1>3 DEF Around
  <1>5. Carries(findings', findings', {})
    BY DEF Carries
  <1>6. DeadlineReported'
    <2>. SUFFICES ASSUME NEW p \in text.phrases,
                         \A i \in DOMAIN findings' : ~findings'[i].about_timezone
                  PROVE  \E i \in DOMAIN parsed.timeframes :
                           p \in parsed.timeframes[i].raw /\ parsed.timeframes[i].timezone
      BY <1>1 DEF DeadlineReported
    <2>1. PICK i \in DOMAIN parsed.timeframes : p \in parsed.timeframes[i].raw
      BY <1>1, <1>2 DEF PhrasesCovered, Covered
    <2>2. ~(missing /\ ~flagged)
      <3>1. check.about_timezone
        BY DEF FindingOf
      <3>. HIDE DEF check
      <3>. SUFFICES ASSUME findings' = Append(findings, check) PROVE FALSE
        BY <1>1
      <3>2. Len(findings) + 1 \in DOMAIN findings' /\ findings'[Len(findings) + 1] = check
        BY <1>2
      <3>. QED
        BY <3>1, <3>2
    <2>3. ~flagged
      BY <1>1, <2>2
    <2>. QED
      BY <2>1, <2>2, <2>3
  <1>. QED
    BY <1>1, <1>2, <1>3, <1>5, <1>6, ReturnKeeps

\* The analyzers that return what they have, with what a service gave.
LEMMA EvidenceReturned ==
  ASSUME ReturnAsIs \/ CheckSeries \/ AttachEntities \/ FindDisputes,
         findings \in Seq(Given), analyzer = "scope_creep" \/ gathered = {}
  PROVE  Carries(findings', findings, gathered')
  <1>. USE EvidenceAdds DEF Return, Posts, enrichment
  <1>1. CASE ReturnAsIs
    BY <1>1 DEF ReturnAsIs, Carries
  <1>2. CASE CheckSeries
    BY <1>2 DEF CheckSeries
  <1>3. CASE AttachEntities
    BY <1>3 DEF AttachEntities
  <1>4. CASE FindDisputes
    BY <1>4 DEF FindDisputes
  <1>. QED
    BY <1>1, <1>2, <1>3, <1>4

LEMMA EvidenceKeeps ==
  ASSUME FindingsInv, ReturnAsIs \/ CheckSeries \/ AttachEntities \/ FindDisputes
  PROVE  FindingsInv'
  <1>. USE DEF Return, Posts, input, enrichment
  <1>1. /\ pc = "post" /\ pc' = "returned" /\ analyzer # "timing_ambiguity"
        /\ UNCHANGED <<text, analyzer, parsed, answered>>
    BY DEF ReturnAsIs, CheckSeries, AttachEntities, FindDisputes
  <1>2. /\ findings = answered /\ answered \in Seq(Told) /\ FindingsHeld /\ PhrasesCovered
        /\ analyzer = "scope_creep" \/ gathered = {}
    BY <1>1 DEF FindingsInv, FindingsHeld, Told
  <1>3. Around(findings, 0, 0) /\ findings \in Seq(Given)
    BY <1>2, AroundAnswer DEF Around
  <1>4. Carries(findings', findings, gathered')
    BY <1>2, <1>3, EvidenceReturned
  <1>5. DeadlineReported'
    BY <1>1 DEF DeadlineReported
  <1>. QED
    BY <1>1, <1>2, <1>3, <1>4, <1>5, ReturnKeeps

\* A dead source comes before the findings of the LLM.
LEMMA ProbeKeeps ==
  ASSUME FindingsInv, ProbeSource
  PROVE  FindingsInv'
  <1>. DEFINE check == FindingOf("check", FALSE)
  <1>1. /\ pc = "post" /\ pc' = "returned" /\ analyzer = "source_failure"
        /\ UNCHANGED <<text, analyzer, parsed, answered>>
    BY DEF ProbeSource, Return, Posts, input
  <1>2. PICK result \in SourceProbe :
          /\ gathered' = result.found
          /\ findings' = WithEvidence(IF result.status = "ok" THEN findings ELSE <<check>> \o findings, result.found)
    BY DEF ProbeSource, Return
  <1>3. findings = answered /\ answered \in Seq(Told) /\ FindingsHeld /\ PhrasesCovered
    BY <1>1 DEF FindingsInv, FindingsHeld, Told
  <1>4. Around(findings, 0, 0) /\ Around(<<check>> \o findings, 1, 0)
    BY <1>3, AroundAnswer
  <1>5. DeadlineReported'
    BY <1>1 DEF DeadlineReported
  <1>. HIDE DEF check
  <1>6. CASE result.status = "ok"
    <2>1. Carries(findings', findings, gathered')
      BY <1>2, <1>4, <1>6, EvidenceAdds DEF Around
    <2>. QED
      BY <1>1, <1>3, <1>4, <1>5, <2>1, ReturnKeeps
  <1>7. CASE result.status # "ok"
    <2>1. Carries(findings', <<check>> \o findings, gathered')
      BY <1>2, <1>4, <1>7, EvidenceAdds DEF Around
    <2>. QED
      BY <1>1, <1>3, <1>4, <1>5, <2>1, ReturnKeeps
  <1>. QED
    BY <1>6, <1>7

\* The inductive invariant of the findings.
THEOREM FindingsInvariant == Spec => []FindingsInv
  <1>1. Init => FindingsInv
    BY DEF Init, FindingsInv, PhrasesCovered, FindingsHeld, LookupsLoseNothing, DeadlineReported
  <1>2. TypeOK /\ FindingsInv /\ [Next]_vars => FindingsInv'
    <2>. SUFFICES ASSUME TypeOK, FindingsInv, [Next]_vars PROVE FindingsInv'
      OBVIOUS
    <2>1. CASE CallLLM
      BY <2>1, WaitKeeps DEF CallLLM, input, enrichment
    <2>2. CASE Parse
      BY <2>2, ParsedCovers
    <2>3. CASE LLMError
      BY <2>3, WaitKeeps DEF LLMError, input
    <2>4. CASE ParseFindings
      BY <2>4, AnswerKeeps
    <2>5. CASE ReturnAsIs \/ CheckSeries \/ AttachEntities \/ FindDisputes
      BY <2>5, EvidenceKeeps
    <2>6. CASE ProbeSource
      BY <2>6, ProbeKeeps
    <2>7. CASE CheckTimezone
      BY <2>7, TimezoneKeeps
    <2>8. CASE LookUpEntity
      BY <2>8, WaitKeeps DEF LookUpEntity, Posts, input
    <2>9. CASE TimeOut
      <3>1. pc \in {"analyze", "post"} /\ pc' = "timedOut" /\ findings' = <<>>
        BY <2>9 DEF TimeOut, AwaitsService, Posts
      <3>. QED
        BY <2>9, <3>1, WaitKeeps DEF TimeOut, input
    <2>10. CASE UNCHANGED vars
      BY <2>10, WaitKeeps DEF vars
    <2>. QED
      BY <2>1, <2>2, <2>3, <2>4, <2>5, <2>6, <2>7, <2>8, <2>9, <2>10 DEF Next
  <1>. QED
    BY <1>1, <1>2, TypeCorrect, PTL DEF Spec

\* Whatever the services do, an analyzer that reaches post-processing returns
\* the LLM's findings, all and in their order, and what the services supplied.
THEOREM NothingLostInLookups == Spec => []LookupsLoseNothing
  BY FindingsInvariant, PTL DEF FindingsInv

\* Whatever the LLM extracts and answers, a deadline phrase without a timezone
\* is reported by the timing analyzer, if it returns.
THEOREM DeadlinesReported == Spec => []DeadlineReported
  BY FindingsInvariant, PTL DEF FindingsInv

-----------------------------------------------------------------------------
(* The pipeline *)

\* The six are all the categories there are.
LEMMA AllAnalyzers == Pipeline!Analyzer = Category /\ Pipeline!Category = Category
  <1>1. DOMAIN AnalyzerOrder = 1 .. 6
    BY DEF AnalyzerOrder
  <1>2. \A i \in 1 .. 6 : AnalyzerOrder[i] \in Category
    BY DEF AnalyzerOrder, Category
  <1>3. \A a \in Category : \E i \in 1 .. 6 : AnalyzerOrder[i] = a
    BY DEF AnalyzerOrder, Category
  <1>4. Pipeline!Analyzer = Category
    BY <1>1, <1>2, <1>3 DEF Pipeline!Analyzer, Pipeline!Range
  <1>. QED
    BY <1>4 DEF Pipeline!Category, Category

\* What is told by the LLM, and by the checks, is what the pipeline makes of it.
LEMMA MappedFinding ==
  ASSUME NEW a \in Category, NEW b \in BOOLEAN
  PROVE  /\ Mapped(a, FindingOf("llm", b)) = Pipeline!NewFinding(a, "low", {})
         /\ a = "source_failure" =>
              Mapped(a, FindingOf("check", b)) = Pipeline!NewFinding(a, "critical", {"source_failure"})
         /\ a = "timing_ambiguity" =>
              Mapped(a, FindingOf("check", b)) = Pipeline!NewFinding(a, "medium", {"timing_ambiguity"})
  BY DEF Mapped, FindingOf, Pipeline!NewFinding

\* Only the analyzer at work moves, and only its findings change.
LEMMA AnalyzerMoves ==
  ASSUME analyzer \in Category, analyzer' = analyzer
  PROVE  /\ pc' = "post" => AtAs' = [AtAs EXCEPT ![analyzer] = "post"]
         /\ pc' \in {"returned", "failed", "timedOut"} => AtAs' = [AtAs EXCEPT ![analyzer] = "returned"]
         /\ pc' = pc => AtAs' = AtAs
         /\ pc = "analyze" => AtAs[analyzer] = "llm"
         /\ pc = "post" => AtAs[analyzer] = "post"
  BY DEF AtAs

LEMMA FindingsMove ==
  ASSUME analyzer \in Category, analyzer' = analyzer
  PROVE  /\ findings' = findings => ResultAs' = ResultAs
         /\ ResultAs[analyzer] = MappedAll(analyzer, findings)
         /\ ResultAs' = [ResultAs EXCEPT ![analyzer] =
                          MappedAll(analyzer, findings')]
  BY DEF ResultAs, MappedAll, Mapped

LEMMA StageStays ==
  ASSUME pc \notin {"extract", "raised"}, pc' \notin {"extract", "raised"}, parsed' = parsed
  PROVE  StageAs = "analyze" /\ UNCHANGED Pipeline!running
  BY DEF StageAs, ContractAs, Pipeline!running, Pipeline!mergeVars, Pipeline!scoreVars

LEMMA ParseRefines ==
  ASSUME TypeOK, FindingsHeld, Parse
  PROVE  Pipeline!Parse
  <1>1. /\ pc = "extract" /\ analyzer \in Category
        /\ UNCHANGED <<analyzer, findings>>
        /\ pc' \in {"analyze", "raised"} /\ (pc' = "raised" => UNCHANGED parsed)
    BY DEF Parse, input, TypeOK
  <1>2. pc' = "analyze" => parsed'.source_url \in BOOLEAN
    <2>. SUFFICES ASSUME NEW x, parsed' = ParsedContract(text, x)
                  PROVE  parsed'.source_url \in BOOLEAN
      BY <1>1 DEF Parse
    <2>1. parsed'.source_url = SourceUrl(text, x)
      BY DEF ParsedContract
    <2>2. SourceUrl(text, x) \in BOOLEAN
      BY Zenon DEF SourceUrl
    <2>. QED
      BY <2>1, <2>2
  <1>3. AtAs' = AtAs /\ ResultAs' = ResultAs
    BY <1>1, FindingsMove DEF AtAs
  <1>4. ErrorsAs' = ErrorsAs /\ ProbeAs' = ProbeAs
    BY <1>1 DEF ErrorsAs, ProbeAs
  <1>5. StageAs = "parse"
    BY <1>1 DEF StageAs
  <1>6. CASE pc' = "raised"
    BY <1>1, <1>3, <1>4, <1>5, <1>6 DEF Pipeline!Parse, StageAs, ContractAs
  <1>7. CASE pc' = "analyze"
    <2>1. ContractAs' \in [source_url : BOOLEAN, no_timezone : BOOLEAN]
      BY <1>2, <1>7 DEF ContractAs
    <2>. QED
      BY <1>3, <1>4, <1>5, <1>7, <2>1 DEF Pipeline!Parse, StageAs
  <1>. QED
    BY <1>1, <1>6, <1>7

LEMMA FailureRefines ==
  ASSUME analyzer \in Category, UNCHANGED <<analyzer, parsed, findings>>, pc = "analyze", pc' = "failed"
  PROVE  Pipeline!LLMFails(analyzer)
  <1>1. ErrorsAs' = ErrorsAs \cup {analyzer} /\ ProbeAs' = ProbeAs
    BY DEF ErrorsAs, ProbeAs
  <1>. QED
    BY <1>1, StageStays, AnalyzerMoves, FindingsMove DEF Pipeline!LLMFails

LEMMA AnswerRefines ==
  ASSUME TypeOK, FindingsHeld, ParseFindings
  PROVE  Pipeline!LLMAnswers(analyzer) \/ Pipeline!LLMFails(analyzer)
  <1>1. PICK list \in Answer :
          IF list.iterable THEN pc' = "post" /\ answered' = Kept(list) /\ findings' = answered'
                           ELSE pc' = "failed" /\ UNCHANGED <<answered, findings>>
    BY DEF ParseFindings
  <1>2. /\ pc = "analyze" /\ UNCHANGED <<text, analyzer, parsed, gathered>> /\ analyzer \in Category
        /\ findings = <<>>
    BY DEF ParseFindings, input, enrichment, TypeOK, FindingsHeld
  <1>3. CASE ~list.iterable
    BY <1>1, <1>2, <1>3, FailureRefines
  <1>4. CASE list.iterable
    <2>. DEFINE answer == [i \in DOMAIN Kept(list) |-> [severity |-> "low", clause |-> {}]]
    <2>1. findings' = Kept(list) /\ findings' \in Seq(Told)
      BY <1>1, <1>4, CallAssumption DEF Told
    <2>2. \A i \in DOMAIN findings' : Mapped(analyzer, findings'[i]) = Pipeline!NewFinding(analyzer, "low", {})
      <3>. SUFFICES ASSUME NEW i \in DOMAIN findings'
                    PROVE  Mapped(analyzer, findings'[i]) = Pipeline!NewFinding(analyzer, "low", {})
        OBVIOUS
      <3>1. PICK b \in BOOLEAN : findings'[i] = FindingOf("llm", b)
        <4>1. findings'[i] \in Told
          BY <2>1
        <4>. QED
          BY <4>1 DEF Told
      <3>. QED
        BY <1>2, <3>1, MappedFinding
    <2>3. Pipeline!Parsed(analyzer, answer) =
            [i \in DOMAIN findings' |-> Pipeline!NewFinding(analyzer, "low", {})]
      BY <2>1 DEF Pipeline!Parsed
    <2>4. MappedAll(analyzer, findings') = Pipeline!Parsed(analyzer, answer)
      BY <2>2, <2>3 DEF MappedAll
    <2>5. ResultAs' = [ResultAs EXCEPT ![analyzer] = Pipeline!Parsed(analyzer, answer)]
      BY <1>2, <2>4, FindingsMove
    <2>6. /\ AtAs' = [AtAs EXCEPT ![analyzer] = "post"] /\ AtAs[analyzer] = "llm"
          /\ StageAs = "analyze" /\ UNCHANGED Pipeline!running
          /\ ErrorsAs' = ErrorsAs /\ ProbeAs' = ProbeAs
      BY <1>1, <1>2, <1>4, AnalyzerMoves, StageStays DEF ErrorsAs, ProbeAs
    <2>. QED
      BY <1>4, <2>5, <2>6 DEF Pipeline!LLMAnswers
  <1>. QED
    BY <1>3, <1>4

\* Evidence does not show in what the pipeline sees.
LEMMA MappedAlike ==
  ASSUME NEW held, NEW list, NEW E, Carries(held, list, E), NEW a
  PROVE  MappedAll(a, held) = MappedAll(a, list)
  <1>1. \A i \in DOMAIN list : Mapped(a, held[i]) = Mapped(a, list[i])
    BY DEF Carries, Mapped
  <1>. QED
    BY <1>1 DEF Carries, MappedAll

\* Returning with this in the place of the findings.
LEMMA ReturnRefines ==
  ASSUME analyzer \in Category, UNCHANGED <<analyzer, parsed>>, pc = "post", pc' = "returned"
  PROVE  /\ UNCHANGED <<Pipeline!running, ErrorsAs>> /\ ProbeAs = "unsent"
         /\ Pipeline!Return(analyzer, MappedAll(analyzer, findings'))
  <1>1. UNCHANGED ErrorsAs /\ ProbeAs = "unsent"
    BY DEF ErrorsAs, ProbeAs
  <1>2. /\ StageAs = "analyze" /\ UNCHANGED Pipeline!running
        /\ AtAs' = [AtAs EXCEPT ![analyzer] = "returned"] /\ AtAs[analyzer] = "post"
    BY StageStays, AnalyzerMoves
  <1>3. ResultAs' = [ResultAs EXCEPT ![analyzer] = MappedAll(analyzer, findings')]
    BY FindingsMove
  <1>. QED
    BY <1>1, <1>2, <1>3 DEF Pipeline!Return

LEMMA EvidenceRefines ==
  ASSUME TypeOK, FindingsHeld, ReturnAsIs \/ CheckSeries \/ AttachEntities \/ FindDisputes
  PROVE  Pipeline!PostProcess(analyzer)
  <1>. DEFINE seen == MappedAll(analyzer, findings')
  <1>1. /\ pc = "post" /\ pc' = "returned" /\ analyzer # "timing_ambiguity"
        /\ UNCHANGED <<analyzer, parsed>> /\ analyzer \in Category
        /\ analyzer = "source_failure" => ~parsed.source_url
    BY DEF ReturnAsIs, CheckSeries, AttachEntities, FindDisputes, Return, Posts, input, TypeOK
  <1>2. /\ findings = answered /\ answered \in Seq(Told)
        /\ analyzer = "scope_creep" \/ gathered = {}
    BY <1>1 DEF FindingsHeld, Told
  <1>3. findings \in Seq(Given)
    BY <1>2, AroundAnswer DEF Around
  <1>4. seen = ResultAs[analyzer]
    <2>1. Carries(findings', findings, gathered')
      BY <1>2, <1>3, EvidenceReturned
    <2>. QED
      BY <1>1, <2>1, MappedAlike, FindingsMove
  <1>5. ProbeAs' = "unsent"
    BY <1>1 DEF ProbeAs
  <1>6. analyzer = "source_failure" => ~ContractAs.source_url
    BY <1>1 DEF ContractAs
  <1>. HIDE DEF seen
  <1>7. UNCHANGED <<Pipeline!running, ErrorsAs>> /\ ProbeAs = "unsent" /\ Pipeline!Return(analyzer, seen)
    BY <1>1, ReturnRefines DEF seen
  <1>. QED
    BY <1>1, <1>4, <1>5, <1>6, <1>7 DEF Pipeline!PostProcess

LEMMA TimeOutRefines ==
  ASSUME TypeOK, TimeOut
  PROVE  Pipeline!TimeOut(analyzer)
  <1>1. /\ pc \in {"analyze", "post"} /\ pc' = "timedOut" /\ findings' = <<>>
        /\ UNCHANGED <<analyzer, parsed>> /\ analyzer \in Category
    BY DEF TimeOut, AwaitsService, Posts, input, TypeOK
  <1>2. ErrorsAs' = ErrorsAs \cup {analyzer} /\ UNCHANGED ProbeAs
    BY <1>1 DEF ErrorsAs, ProbeAs
  <1>3. MappedAll(analyzer, findings') = <<>>
    BY <1>1 DEF MappedAll
  <1>4. ResultAs' = [ResultAs EXCEPT ![analyzer] = <<>>]
    BY <1>1, <1>3, FindingsMove
  <1>. QED
    BY <1>1, <1>2, <1>4, StageStays, AnalyzerMoves DEF Pipeline!TimeOut

\* All that was told is the LLM's.
LEMMA ToldByLLM ==
  ASSUME NEW list \in Seq(Told), NEW i \in DOMAIN list
  PROVE  list[i].origin = "llm"
  <1>1. list[i] \in Told
    OBVIOUS
  <1>. QED
    BY <1>1 DEF Told, FindingOf

LEMMA CheckGiven ==
  ASSUME NEW b \in BOOLEAN
  PROVE  FindingOf("check", b) \in Given
  BY DEF Given

\* A finding before or after the others stays there.
LEMMA MappedWithCheck ==
  ASSUME NEW list \in Seq(Given), NEW check \in Given, NEW a
  PROVE  /\ MappedAll(a, <<check>> \o list) = <<Mapped(a, check)>> \o MappedAll(a, list)
         /\ MappedAll(a, Append(list, check)) = Append(MappedAll(a, list), Mapped(a, check))
  <1>. DEFINE Seen == {Mapped(a, f) : f \in Given}
  <1>1. MappedAll(a, list) \in Seq(Seen) /\ Mapped(a, check) \in Seen
    BY DEF Seen, MappedAll
  <1>2. /\ DOMAIN list = 1 .. Len(list) /\ Len(list) \in Nat /\ Len(MappedAll(a, list)) = Len(list)
        /\ \A i \in DOMAIN list : MappedAll(a, list)[i] = Mapped(a, list[i])
    BY DEF MappedAll
  <1>3. MappedAll(a, <<check>> \o list) = <<Mapped(a, check)>> \o MappedAll(a, list)
    <2>. DEFINE l == <<check>> \o list
                r == <<Mapped(a, check)>> \o MappedAll(a, list)
    <2>0. r \in Seq(Seen)
      BY <1>1
    <2>1. /\ DOMAIN l = 1 .. Len(list) + 1 /\ l[1] = check
          /\ \A i \in 2 .. Len(list) + 1 : l[i] = list[i - 1]
      OBVIOUS
    <2>. HIDE DEF Seen
    <2>2. /\ DOMAIN r = 1 .. Len(list) + 1 /\ r[1] = Mapped(a, check)
          /\ \A i \in 2 .. Len(list) + 1 : r[i] = Mapped(a, list[i - 1])
      BY <1>1, <1>2
    <2>. HIDE DEF l, r
    <2>3. r = [i \in DOMAIN r |-> r[i]]
      BY <2>0
    <2>4. \A i \in 1 .. Len(list) + 1 : r[i] = Mapped(a, l[i])
      BY <1>2, <2>1, <2>2
    <2>5. MappedAll(a, l) = r
      BY <2>1, <2>2, <2>3, <2>4 DEF MappedAll
    <2>. QED
      BY <2>5 DEF l, r
  <1>4. MappedAll(a, Append(list, check)) = Append(MappedAll(a, list), Mapped(a, check))
    <2>. DEFINE l == Append(list, check)
                r == Append(MappedAll(a, list), Mapped(a, check))
    <2>0. r \in Seq(Seen)
      BY <1>1
    <2>1. /\ DOMAIN l = 1 .. Len(list) + 1 /\ l[Len(list) + 1] = check
          /\ \A i \in 1 .. Len(list) : l[i] = list[i]
      OBVIOUS
    <2>. HIDE DEF Seen
    <2>2. /\ DOMAIN r = 1 .. Len(list) + 1 /\ r[Len(list) + 1] = Mapped(a, check)
          /\ \A i \in 1 .. Len(list) : r[i] = Mapped(a, list[i])
      BY <1>1, <1>2
    <2>. HIDE DEF l, r
    <2>3. r = [i \in DOMAIN r |-> r[i]]
      BY <2>0
    <2>4. \A i \in 1 .. Len(list) + 1 : r[i] = Mapped(a, l[i])
      BY <1>2, <2>1, <2>2
    <2>5. MappedAll(a, l) = r
      BY <2>1, <2>2, <2>3, <2>4 DEF MappedAll
    <2>. QED
      BY <2>5 DEF l, r
  <1>. QED
    BY <1>3, <1>4

LEMMA ProbeRefines ==
  ASSUME TypeOK, FindingsHeld, ProbeSource
  PROVE  Pipeline!ProbeSource
  <1>. DEFINE check == FindingOf("check", FALSE)
              seen == MappedAll(analyzer, findings')
              dead == Pipeline!NewFinding("source_failure", "critical", {"source_failure"})
  <1>1. /\ pc = "post" /\ pc' = "returned" /\ analyzer = "source_failure"
        /\ UNCHANGED <<analyzer, parsed>> /\ analyzer \in Category /\ parsed.source_url
    BY DEF ProbeSource, Return, Posts, input, TypeOK
  <1>2. PICK result \in SourceProbe :
          findings' = WithEvidence(IF result.status = "ok" THEN findings ELSE <<check>> \o findings, result.found)
    BY DEF ProbeSource, Return
  <1>3. findings = answered /\ answered \in Seq(Told)
    BY <1>1 DEF FindingsHeld, Told
  <1>4. findings \in Seq(Given) /\ <<check>> \o findings \in Seq(Given)
    BY <1>3, AroundAnswer DEF Around
  <1>5. Mapped("source_failure", check) = dead /\ check.origin = "check"
    BY MappedFinding DEF FindingOf, Category
  <1>6. UNCHANGED <<Pipeline!running, ErrorsAs>> /\ Pipeline!Return(analyzer, seen)
    BY <1>1, ReturnRefines
  <1>7. ContractAs.source_url
    BY <1>1 DEF ContractAs
  <1>8. ResultAs[analyzer] = MappedAll(analyzer, findings)
    BY <1>1, FindingsMove
  <1>9. CASE result.status = "ok"
    <2>1. Carries(findings', findings, result.found)
      BY <1>2, <1>4, <1>9, EvidenceAdds
    <2>2. seen = ResultAs[analyzer]
      BY <1>8, <2>1, MappedAlike
    <2>3. \A i \in DOMAIN findings' : findings'[i].origin = "llm"
      BY <1>3, <2>1, ToldByLLM DEF Carries
    <2>4. ProbeAs' = "alive"
      BY <1>1, <2>3 DEF ProbeAs, HasCheck
    <2>. HIDE DEF seen
    <2>. QED
      BY <1>1, <1>6, <1>7, <2>2, <2>4 DEF Pipeline!ProbeSource
  <1>11. check \in Given
    BY CheckGiven
  <1>10. CASE result.status # "ok"
    <2>. HIDE DEF check, dead
    <2>1. Carries(findings', <<check>> \o findings, result.found)
      BY <1>2, <1>4, <1>10, EvidenceAdds
    <2>. DEFINE list == <<check>> \o findings
    <2>2. MappedAll(analyzer, list) = <<dead>> \o ResultAs[analyzer]
      <3>1. MappedAll(analyzer, list) =
              <<Mapped(analyzer, check)>> \o MappedAll(analyzer, findings)
        BY <1>4, <1>11, MappedWithCheck
      <3>. QED
        BY <1>1, <1>5, <1>8, <3>1
    <2>. HIDE DEF list
    <2>3. seen = <<dead>> \o ResultAs[analyzer]
      <3>1. Carries(findings', list, result.found)
        BY <2>1 DEF list
      <3>. QED
        BY <2>2, <3>1, MappedAlike
    <2>4. \E i \in DOMAIN findings' : findings'[i].origin = "check"
      <3>1. 1 \in DOMAIN (<<check>> \o findings) /\ (<<check>> \o findings)[1] = check
        BY <1>3
      <3>. QED
        BY <1>5, <2>1, <3>1 DEF Carries
    <2>5. ProbeAs' = "dead"
      BY <1>1, <2>4 DEF ProbeAs, HasCheck
    <2>. HIDE DEF seen
    <2>. QED
      BY <1>1, <1>6, <1>7, <2>3, <2>5 DEF Pipeline!ProbeSource, dead
  <1>. QED
    BY <1>9, <1>10

LEMMA TimezoneRefines ==
  ASSUME TypeOK, FindingsHeld, CheckTimezone
  PROVE  Pipeline!CheckTimezone \/ Pipeline!PostProcess(analyzer)
  <1>. DEFINE missing == \E i \in DOMAIN parsed.timeframes : ~parsed.timeframes[i].timezone
              flagged == \E i \in DOMAIN findings : findings[i].about_timezone
              check == FindingOf("check", TRUE)
              noted == Pipeline!NewFinding("timing_ambiguity", "medium", {"timing_ambiguity"})
  <1>1. /\ pc = "post" /\ pc' = "returned" /\ analyzer = "timing_ambiguity"
        /\ UNCHANGED <<analyzer, parsed>> /\ analyzer \in Category
        /\ findings' = IF missing /\ ~flagged THEN Append(findings, check) ELSE findings
    BY DEF CheckTimezone, Return, Posts, input, TypeOK
  <1>2. findings \in Seq(Given)
    BY <1>1, AroundAnswer DEF FindingsHeld, Told, Around
  <1>3. UNCHANGED <<Pipeline!running, ErrorsAs>> /\ ProbeAs' = ProbeAs
        /\ Pipeline!Return(analyzer, MappedAll(analyzer, findings'))
    BY <1>1, ReturnRefines DEF ProbeAs
  <1>4. ResultAs[analyzer] = MappedAll(analyzer, findings)
    BY <1>1, FindingsMove
  <1>5. ContractAs.no_timezone = missing
    BY DEF ContractAs
  <1>6. MappedAll(analyzer, Append(findings, check)) = Append(ResultAs[analyzer], noted)
    <2>1. check \in Given /\ Mapped(analyzer, check) = noted
      BY <1>1, CheckGiven, MappedFinding
    <2>. HIDE DEF check, noted
    <2>2. MappedAll(analyzer, Append(findings, check)) =
            Append(MappedAll(analyzer, findings), Mapped(analyzer, check))
      BY <1>2, <2>1, MappedWithCheck
    <2>. QED
      BY <1>4, <2>1, <2>2
  <1>7. flagged => ResultAs[analyzer] # <<>>
    <2>. SUFFICES ASSUME NEW i \in DOMAIN findings PROVE MappedAll(analyzer, findings) # <<>>
      BY <1>4
    <2>1. i \in DOMAIN MappedAll(analyzer, findings)
      BY DEF MappedAll
    <2>. QED
      BY <2>1
  <1>. HIDE DEF missing, flagged, check, noted
  <1>8. CASE ~missing
    BY <1>1, <1>3, <1>4, <1>5, <1>8 DEF Pipeline!PostProcess
  <1>9. CASE missing /\ flagged
    <2>1. /\ ContractAs.no_timezone /\ TRUE \in BOOLEAN /\ ResultAs["timing_ambiguity"] # <<>>
          /\ Pipeline!Return("timing_ambiguity", ResultAs["timing_ambiguity"])
      BY <1>1, <1>3, <1>4, <1>5, <1>7, <1>9
    <2>. QED
      BY <1>3, <2>1, Zenon DEF Pipeline!CheckTimezone
  <1>10. CASE missing /\ ~flagged
    <2>1. /\ ContractAs.no_timezone /\ FALSE \in BOOLEAN
          /\ Pipeline!Return("timing_ambiguity", Append(ResultAs["timing_ambiguity"], noted))
      BY <1>1, <1>3, <1>5, <1>6, <1>10
    <2>. QED
      BY <1>3, <2>1, Zenon DEF Pipeline!CheckTimezone, noted
  <1>. QED
    BY <1>8, <1>9, <1>10

\* Asking the LLM again and looking up one more entity change nothing the
\* pipeline sees.
LEMMA UnseenStep ==
  ASSUME UNCHANGED <<pc, analyzer, parsed, findings>>
  PROVE  UNCHANGED Pipeline!vars
  BY DEF Pipeline!vars, Pipeline!mergeVars, Pipeline!scoreVars, StageAs, ContractAs, ProbeAs, AtAs, ResultAs, MappedAll, Mapped, ErrorsAs, HasCheck

\* An analyzer with its parser, client, services and timeout is one of the
\* pipeline's: every step of it is a step of AuditPipeline or leaves that as it is.
THEOREM PipelineImplemented == Spec => ImplementsPipeline
  <1>1. Init => Pipeline!Init
    <2>. SUFFICES ASSUME Init PROVE Pipeline!Init
      OBVIOUS
    <2>1. /\ pc = "extract" /\ analyzer \in Category /\ findings = <<>>
          /\ parsed.source_url = FALSE /\ DOMAIN parsed.timeframes = {}
      <3>1. pc = "extract" /\ analyzer \in Category /\ findings = <<>> /\ parsed = Unparsed
        BY DEF Init
      <3>2. Unparsed.source_url = FALSE /\ DOMAIN Unparsed.timeframes = {}
        BY DEF Unparsed
      <3>. QED
        BY <3>1, <3>2
    <2>2. /\ StageAs = "parse" /\ ProbeAs = "unsent" /\ ErrorsAs = {}
          /\ ContractAs = [source_url |-> FALSE, no_timezone |-> FALSE]
      BY <2>1 DEF StageAs, ProbeAs, ErrorsAs, ContractAs
    <2>3. AtAs = [a \in Category |-> "llm"] /\ ResultAs = [a \in Category |-> <<>>]
      BY <2>1 DEF AtAs, ResultAs, MappedAll
    <2>. QED
      BY <2>2, <2>3, AllAnalyzers DEF Pipeline!Init, Pipeline!InitScore, Pipeline!Severity, Severity
  <1>2. TypeOK /\ FindingsInv /\ [Next]_vars => [Pipeline!Next]_(Pipeline!vars)
    <2>. SUFFICES ASSUME TypeOK, FindingsHeld, [Next]_vars PROVE [Pipeline!Next]_(Pipeline!vars)
      BY DEF FindingsInv
    <2>. USE DEF input, enrichment
    <2>0. analyzer \in Pipeline!Analyzer /\ {"source_failure", "timing_ambiguity"} \subseteq Pipeline!Analyzer
      BY AllAnalyzers DEF TypeOK, Category
    <2>1. CASE CallLLM \/ LookUpEntity \/ UNCHANGED vars
      <3>1. UNCHANGED <<pc, analyzer, parsed, findings>>
        BY <2>1 DEF CallLLM, LookUpEntity, vars
      <3>. QED
        BY <3>1, UnseenStep
    <2>2. CASE Parse
      BY <2>2, ParseRefines DEF Pipeline!Next
    <2>3. CASE LLMError
      <3>1. Pipeline!LLMFails(analyzer)
        BY <2>3, FailureRefines DEF LLMError, TypeOK
      <3>. QED
        BY <2>0, <3>1 DEF Pipeline!Next
    <2>4. CASE ParseFindings
      BY <2>0, <2>4, AnswerRefines DEF Pipeline!Next
    <2>5. CASE ReturnAsIs \/ CheckSeries \/ AttachEntities \/ FindDisputes
      BY <2>0, <2>5, EvidenceRefines DEF Pipeline!Next
    <2>6. CASE ProbeSource
      BY <2>0, <2>6, ProbeRefines DEF Pipeline!Next
    <2>7. CASE CheckTimezone
      BY <2>0, <2>7, TimezoneRefines DEF Pipeline!Next
    <2>8. CASE TimeOut
      BY <2>0, <2>8, TimeOutRefines DEF Pipeline!Next
    <2>. QED
      BY <2>1, <2>2, <2>3, <2>4, <2>5, <2>6, <2>7, <2>8 DEF Next
  <1>. QED
    BY <1>1, <1>2, TypeCorrect, FindingsInvariant, PTL DEF Spec, ImplementsPipeline, Pipeline!Spec
=============================================================================
