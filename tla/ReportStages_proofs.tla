------------------------- MODULE ReportStages_proofs -------------------------
(***************************************************************************)
(* Proofs about ClauseRewriter and about the stages around it, for any     *)
(* number of findings and attempts, any contract and any rewrites.         *)
(***************************************************************************)
EXTENDS ReportStages, FiniteSetTheorems, WellFoundedInduction, TLAPS

-----------------------------------------------------------------------------
(* ClauseRewriter *)

\* The inductive invariant: only the current finding can change.
THEOREM RewriterInvariant == Spec => []RewriterInv
  <1>. USE FindingCountAssumption, AttemptsAssumption
       DEF Finding, Attempt, NoFeedback, Feedback, Answer, Verdict
  <1>1. Init => RewriterInv
    BY DEF Init, RewriterInv, TypeOK, Untouched, AdoptedIsApproved, FeedbackIsLatest
  <1>2. RewriterInv /\ [Next]_vars => RewriterInv'
    <2>. SUFFICES ASSUME RewriterInv, [Next]_vars PROVE RewriterInv'
      OBVIOUS
    <2>. USE DEF RewriterInv, NextFinding, Judged
    <2>1. CASE Rewrites
      BY <2>1 DEF Rewrites, TypeOK, Untouched, AdoptedIsApproved, FeedbackIsLatest
    <2>2. CASE RewriterFails
      <3>1. TypeOK'
        BY <2>2 DEF RewriterFails, TypeOK
      <3>2. Untouched'
        BY <2>2 DEF RewriterFails, TypeOK, Untouched
      <3>3. AdoptedIsApproved'
        BY <2>2 DEF RewriterFails, TypeOK, Untouched, AdoptedIsApproved
      <3>. QED
        BY <2>2, <3>1, <3>2, <3>3 DEF RewriterFails, FeedbackIsLatest
    <2>3. CASE Approves
      <3>1. TypeOK'
        BY <2>3, SMTT(30) DEF Approves, TypeOK
      <3>2. Untouched'
        BY <2>3 DEF Approves, TypeOK, Untouched
      <3>4. /\ current \in Finding /\ attempt \in Attempt
            /\ <<current, attempt>> \in Finding \X Attempt
            /\ verdicts' = [verdicts EXCEPT ![<<current, attempt>>] = "approvedHigh"]
            /\ \A f \in Finding : f # current => rewrite'[f] = rewrite[f]
            /\ rewrite'[current] \in {rewrite[current], attempt + 1}
            /\ rewrite[current] = 0
        BY <2>3, SMTT(30) DEF Approves, TypeOK, Untouched
      <3>3. AdoptedIsApproved'
        <4>. SUFFICES ASSUME NEW f \in Finding, rewrite'[f] > 0
                      PROVE  verdicts'[<<f, rewrite'[f] - 1>>] = "approvedHigh"
          BY DEF AdoptedIsApproved
        <4>1. CASE f = current
          BY <4>1, <3>4 DEF TypeOK
        <4>2. CASE f # current
          <5>1. rewrite'[f] = rewrite[f] /\ rewrite[f] \in 1 .. MAX_REWRITE_ATTEMPTS
            BY <4>2, <3>4 DEF TypeOK
          <5>2. <<f, rewrite[f] - 1>> \in Finding \X Attempt
            BY <5>1
          <5>. QED
            BY <4>2, <3>4, <5>1, <5>2 DEF TypeOK, AdoptedIsApproved
        <4>. QED
          BY <4>1, <4>2
      <3>. QED
        BY <2>3, <3>1, <3>2, <3>3 DEF Approves, FeedbackIsLatest
    <2>4. CASE JudgementRaises
      BY <2>4 DEF JudgementRaises, TypeOK, Untouched, AdoptedIsApproved, FeedbackIsLatest
    <2>5. CASE Rejects
      <3>1. PICK verdict \in {"approvedLow", "rejected", "failed"} :
               verdicts' = [verdicts EXCEPT ![<<current, attempt>>] = verdict]
        BY <2>5 DEF Rejects
      <3>2. /\ current \in Finding /\ answer # "due" /\ rewrite' = rewrite
            /\ attempt \in Attempt /\ <<current, attempt>> \in Finding \X Attempt
        BY <2>5 DEF Rejects, TypeOK
      <3>3. /\ verdicts' \in [Finding \X Attempt -> Verdict \cup {"none"}]
            /\ rewrite' \in [Finding -> 0 .. MAX_REWRITE_ATTEMPTS]
        BY <3>1, <3>2 DEF TypeOK
      <3>4. AdoptedIsApproved'
        BY <3>1, <3>2 DEF TypeOK, Untouched, AdoptedIsApproved
      <3>5. CASE attempt < MAX_REWRITE_ATTEMPTS - 1
        <4>1. PICK suggestion \in {NoFeedback, <<current, attempt>>} :
                 feedback' = [feedback EXCEPT ![current] = suggestion]
          BY <2>5, <3>5 DEF Rejects
        <4>2. attempt' = attempt + 1 /\ answer' = "due" /\ current' = current /\ asked' = asked
          BY <2>5, <3>5 DEF Rejects
        <4>3. suggestion \in Feedback
          BY <3>2
        <4>4. TypeOK'
          BY <3>2, <3>3, <3>5, <4>1, <4>2, <4>3 DEF TypeOK
        <4>5. Untouched'
          BY <3>2, <4>1, <4>2 DEF TypeOK, Untouched
        <4>. QED
          BY <3>4, <4>2, <4>4, <4>5 DEF FeedbackIsLatest
      <3>6. CASE ~(attempt < MAX_REWRITE_ATTEMPTS - 1)
        <4>1. /\ current' = current + 1 /\ attempt' = 0 /\ answer' = "due"
              /\ asked' = NoFeedback /\ feedback' = feedback
          BY <2>5, <3>6 DEF Rejects
        <4>2. TypeOK'
          BY <3>2, <3>3, <4>1, SMTT(30) DEF TypeOK
        <4>3. Untouched'
          BY <3>2, <4>1 DEF TypeOK, Untouched
        <4>. QED
          BY <3>4, <4>1, <4>2, <4>3 DEF FeedbackIsLatest
      <3>. QED
        BY <3>5, <3>6
    <2>6. CASE UNCHANGED vars
      BY <2>6 DEF vars, TypeOK, Untouched, AdoptedIsApproved, FeedbackIsLatest
    <2>. QED
      BY <2>1, <2>2, <2>3, <2>4, <2>5, <2>6 DEF Next
  <1>. QED
    BY <1>1, <1>2, PTL DEF Spec

\* Attempts, verdicts, feedback and rewrites stay in their ranges.
THEOREM TypeCorrect == Spec => []TypeOK
  <1>1. RewriterInv => TypeOK
    BY DEF RewriterInv
  <1>. QED
    BY <1>1, RewriterInvariant, PTL

\* Only approved rewrites are adopted, for any report and any retry limit.
THEOREM OnlyApprovedAdopted == Spec => []AdoptedIsApproved
  <1>1. RewriterInv => AdoptedIsApproved
    BY DEF RewriterInv
  <1>. QED
    BY <1>1, RewriterInvariant, PTL

\* Feedback neither leaks to another finding nor outlives an attempt.
THEOREM FeedbackNotStale == Spec => []FeedbackIsLatest
  <1>1. RewriterInv => FeedbackIsLatest
    BY DEF RewriterInv
  <1>. QED
    BY <1>1, RewriterInvariant, PTL

\* With M calls for each of F findings, the c-th one has used a of them and u:
\* then comes the next finding, the same call is judged, or the next attempt.
LEMMA FewerLeft ==
  ASSUME NEW F \in Nat, NEW M \in Nat \ {0}, NEW c \in 1 .. F, NEW d \in 1 .. F + 1,
         NEW a \in 0 .. M - 1, NEW b \in 0 .. M - 1, NEW u \in {0, 1}, NEW v \in {0, 1},
         d = F + 1 => b = 0 /\ v = 0,
         \/ d = c + 1 /\ b = 0 /\ v = 0
         \/ d = c /\ b = a /\ u = 0 /\ v = 1
         \/ d = c /\ b = a + 1 /\ u = 1 /\ v = 0
  PROVE  /\ 2 * (M * (F + 1 - d) - b) - v \in Nat
         /\ 2 * (M * (F + 1 - d) - b) - v < 2 * (M * (F + 1 - c) - a) - u
  <1>. DEFINE x == F + 1 - c
              y == F + 1 - d
  <1>1. x \in Nat \ {0} /\ y \in Nat
    OBVIOUS
  <1>2. (y = 0 => d = F + 1) /\ (d = c + 1 => y = x - 1) /\ (d = c => y = x)
    OBVIOUS
  <1>. HIDE DEF x, y
  <1>. DEFINE p == M * x
              q == M * y
  <1>3. p \in Nat /\ q \in Nat
    BY <1>1
  <1>4. y = x - 1 => q = p - M
    BY <1>1
  <1>5. y = x => q = p
    OBVIOUS
  <1>6. y = 0 => q = 0
    OBVIOUS
  <1>7. y # 0 => q >= M
    <2>1. ASSUME y # 0 PROVE M * (y - 1) \in Nat /\ M * y = M * (y - 1) + M
      BY <1>1, <2>1
    <2>. QED
      BY <1>1, <1>3, <2>1
  <1>. HIDE DEF p, q
  <1>8. 2 * (q - b) - v \in Nat /\ 2 * (q - b) - v < 2 * (p - a) - u
    BY <1>1, <1>2, <1>3, <1>4, <1>5, <1>6, <1>7
  <1>. QED
    BY <1>8 DEF p, q, x, y

LEMMA NothingAskedAtTheEnd == Spec => []AtTheEnd
  <1>. USE FindingCountAssumption DEF AtTheEnd, Finding
  <1>1. Init => AtTheEnd
    BY DEF Init
  <1>2. AtTheEnd /\ RewriterInv /\ [Next]_vars => AtTheEnd'
    <2>. SUFFICES ASSUME AtTheEnd, RewriterInv, Next PROVE AtTheEnd'
      BY DEF vars
    <2>1. current \in Finding
      BY DEF Next, Rewrites, RewriterFails, Approves, JudgementRaises, Rejects, Judged
    <2>2. NextFinding \/ current' = current
      BY DEF Next, Rewrites, RewriterFails, Approves, JudgementRaises, Rejects
    <2>. QED
      BY <2>1, <2>2 DEF NextFinding
  <1>. QED
    BY <1>1, <1>2, RewriterInvariant, PTL DEF Spec

\* However the calls turn out, each step of the rewriting brings its end nearer:
\* no run has more than two calls for every attempt on every finding.
THEOREM CallsRunOut == Spec => CallsUsedUp
  <1>. USE FindingCountAssumption, AttemptsAssumption DEF Finding, Attempt, Answer
  <1>1. ASSUME TypeOK, TypeOK', AtTheEnd', Next
        PROVE  CallsLeft' \in Nat /\ CallsLeft' < CallsLeft
    <2>1. /\ current \in Finding /\ attempt \in Attempt
          /\ current' \in 1 .. FindingCount + 1 /\ attempt' \in Attempt
          /\ current' = FindingCount + 1 => attempt' = 0 /\ answer' = "due"
      BY <1>1 DEF TypeOK, AtTheEnd, Next, Rewrites, RewriterFails, Approves,
                  JudgementRaises, Rejects, Judged
    <2>2. \/ current' = current + 1 /\ attempt' = 0 /\ answer' = "due"
          \/ current' = current /\ attempt' = attempt /\ answer = "due" /\ answer' # "due"
          \/ current' = current /\ attempt' = attempt + 1 /\ answer # "due" /\ answer' = "due"
      <3>1. CASE Rewrites
        BY <3>1 DEF Rewrites
      <3>2. CASE Rejects
        BY <3>2 DEF Rejects, Judged, NextFinding
      <3>. QED
        BY <1>1, <3>1, <3>2 DEF Next, RewriterFails, Approves, JudgementRaises, NextFinding
    <2>. DEFINE u == IF answer = "due" THEN 0 ELSE 1
                v == IF answer' = "due" THEN 0 ELSE 1
    <2>3. /\ u \in {0, 1} /\ (answer = "due" => u = 0) /\ (answer # "due" => u = 1)
          /\ v \in {0, 1} /\ (answer' = "due" => v = 0) /\ (answer' # "due" => v = 1)
      OBVIOUS
    <2>. HIDE DEF u, v
    <2>4. \/ current' = current + 1 /\ attempt' = 0 /\ v = 0
          \/ current' = current /\ attempt' = attempt /\ u = 0 /\ v = 1
          \/ current' = current /\ attempt' = attempt + 1 /\ u = 1 /\ v = 0
      BY <2>2, <2>3
    <2>5. /\ 2 * (MAX_REWRITE_ATTEMPTS * (FindingCount + 1 - current') - attempt') - v \in Nat
          /\ 2 * (MAX_REWRITE_ATTEMPTS * (FindingCount + 1 - current') - attempt') - v
               < 2 * (MAX_REWRITE_ATTEMPTS * (FindingCount + 1 - current) - attempt) - u
      <3>1. /\ FindingCount \in Nat /\ MAX_REWRITE_ATTEMPTS \in Nat \ {0}
            /\ current \in 1 .. FindingCount /\ current' \in 1 .. FindingCount + 1
            /\ attempt \in 0 .. MAX_REWRITE_ATTEMPTS - 1 /\ attempt' \in 0 .. MAX_REWRITE_ATTEMPTS - 1
            /\ u \in {0, 1} /\ v \in {0, 1}
        BY <2>1, <2>3
      <3>2. current' = FindingCount + 1 => attempt' = 0 /\ v = 0
        BY <2>1, <2>3
      <3>. QED
        BY <2>4, <3>1, <3>2, FewerLeft, ZenonT(60)
    <2>. QED
      BY <2>5 DEF CallsLeft, u, v
  <1>2. TypeOK /\ TypeOK' /\ AtTheEnd' /\ [Next]_vars
          => [CallsLeft' \in Nat /\ CallsLeft' < CallsLeft]_vars
    BY <1>1
  <1>. QED
    BY <1>2, TypeCorrect, NothingAskedAtTheEnd, PTL DEF Spec, CallsUsedUp

-----------------------------------------------------------------------------
(* Texts *)

\* A text in another, after its first k characters.
Occurs(s, t, k) ==
  k \in Nat /\ k + Len(s) <= Len(t) /\ \A j \in 1 .. Len(s) : t[k + j] = s[j]

LEMMA SubSeqOccurs ==
  ASSUME NEW s \in Seq(Char), NEW t \in Seq(Char)
  PROVE  s \in SubSeqs(t) <=> \E k \in Nat : Occurs(s, t, k)
  <1>1. ASSUME s \in SubSeqs(t) PROVE \E k \in Nat : Occurs(s, t, k)
    <2>1. PICK i \in 0 .. Len(t), j \in 0 .. Len(t) : s = SubSeq(t, i + 1, j)
      BY <1>1 DEF SubSeqs
    <2>2. CASE i <= j
      <3>1. Len(s) = j - i /\ \A x \in 1 .. j - i : s[x] = t[i + x]
        BY <2>1, <2>2
      <3>2. i + Len(s) <= Len(t) /\ \A x \in 1 .. Len(s) : t[i + x] = s[x]
        BY <3>1
      <3>3. Occurs(s, t, i)
        BY <3>2 DEF Occurs
      <3>. QED
        BY <3>3
    <2>3. CASE i > j
      <3>1. Len(s) = 0
        BY <2>1, <2>3
      <3>2. Occurs(s, t, 0)
        BY <3>1 DEF Occurs
      <3>. QED
        BY <3>2
    <2>. QED
      BY <2>2, <2>3
  <1>2. ASSUME NEW k \in Nat, Occurs(s, t, k) PROVE s \in SubSeqs(t)
    <2>1. k \in 0 .. Len(t) /\ k + Len(s) \in 0 .. Len(t)
      BY <1>2 DEF Occurs
    <2>. DEFINE u == SubSeq(t, k + 1, k + Len(s))
    <2>2. u \in Seq(Char) /\ Len(u) = Len(s) /\ \A x \in 1 .. Len(s) : u[x] = t[k + x]
      <3>. DEFINE j == k + Len(s)
      <3>1. j \in 0 .. Len(t) /\ k \in 0 .. j /\ j - k = Len(s)
        BY <2>1
      <3>. HIDE DEF j
      <3>2. SubSeq(t, k + 1, j) \in Seq(Char) /\ Len(SubSeq(t, k + 1, j)) = j - k
        BY <3>1
      <3>3. \A x \in 1 .. j - k : SubSeq(t, k + 1, j)[x] = t[k + x]
        BY <3>1
      <3>. QED
        BY <3>1, <3>2, <3>3 DEF j
    <2>. HIDE DEF u
    <2>3. \A x \in 1 .. Len(s) : u[x] = s[x]
      BY <1>2, <2>2 DEF Occurs
    <2>4. u = s
      BY <2>2, <2>3
    <2>5. u \in SubSeqs(t)
      <3>. DEFINE j == k + Len(s)
      <3>1. j \in 0 .. Len(t) /\ u = SubSeq(t, k + 1, j)
        BY <2>1 DEF u
      <3>. HIDE DEF j, u
      <3>2. \E i, l \in 0 .. Len(t) : u = SubSeq(t, i + 1, l)
        BY <2>1, <3>1, Zenon
      <3>. QED
        BY <3>2 DEF SubSeqs
    <2>. QED
      BY <2>4, <2>5
  <1>. QED
    BY <1>1, <1>2

LEMMA Least ==
  ASSUME NEW S \in SUBSET Nat, S # {}
  PROVE  \E i \in S : \A j \in S : i <= j
  <1>. DEFINE R == {pair \in Nat \X Nat : pair[1] < pair[2]}
  <1>1. IsWellFoundedOn(R, Nat)
    BY NatLessThanWellFounded DEF OpToRel
  <1>2. PICK i \in S : \A j \in S : <<j, i>> \notin R
    <2>. HIDE DEF R
    <2>. QED
      BY <1>1, WFMin
  <1>3. \A j \in S : ~(j < i)
    BY <1>2
  <1>. QED
    BY <1>3

\* Where the first occurrence is: a text of no characters occurs in front.
LEMMA FirstOccurrence ==
  ASSUME NEW s \in Seq(Char), NEW t \in Seq(Char), s \in SubSeqs(t)
  PROVE  /\ Occurs(s, t, IndexFirstSubSeq(s, t) - 1)
         /\ IndexFirstSubSeq(s, t) \in Nat \ {0}
         /\ s = <<>> => IndexFirstSubSeq(s, t) = 1
  <1>. DEFINE within(i) == s \in SubSeqs(SubSeq(t, 1, i))
              I == {i \in 0 .. Len(t) : within(i)}
              P(i) == within(i) /\ \A j \in 0 .. i - 1 : ~within(j)
              last == CHOOSE i \in 0 .. Len(t) : P(i)
  <1>1. \A i \in 0 .. Len(t) : within(i) <=> \E k \in Nat : Occurs(s, t, k) /\ k + Len(s) <= i
    <2>. SUFFICES ASSUME NEW i \in 0 .. Len(t)
                  PROVE  within(i) <=> \E k \in Nat : Occurs(s, t, k) /\ k + Len(s) <= i
      OBVIOUS
    <2>. DEFINE u == SubSeq(t, 1, i)
    <2>1. u \in Seq(Char) /\ Len(u) = i /\ \A x \in 1 .. i : u[x] = t[x]
      OBVIOUS
    <2>. HIDE DEF u
    <2>2. within(i) <=> \E k \in Nat : Occurs(s, u, k)
      BY <2>1, SubSeqOccurs DEF u
    <2>. HIDE DEF within
    <2>3. \A k \in Nat : Occurs(s, u, k) <=> Occurs(s, t, k) /\ k + Len(s) <= i
      BY <2>1 DEF Occurs
    <2>. QED
      BY <2>2, <2>3
  <1>. HIDE DEF within
  <1>2. I # {}
    <2>1. PICK k \in Nat : Occurs(s, t, k)
      BY SubSeqOccurs
    <2>2. Len(t) \in 0 .. Len(t) /\ k + Len(s) <= Len(t)
      BY <2>1 DEF Occurs
    <2>. QED
      BY <1>1, <2>1, <2>2
  <1>3. \E i \in 0 .. Len(t) : P(i)
    <2>1. I \in SUBSET Nat
      OBVIOUS
    <2>2. PICK i \in I : \A j \in I : i <= j
      BY <1>2, <2>1, Least
    <2>3. \A j \in 0 .. i - 1 : ~within(j)
      BY <2>2
    <2>. QED
      BY <2>2, <2>3
  <1>4. last \in 0 .. Len(t) /\ P(last)
    BY <1>3
  <1>5. IndexFirstSubSeq(s, t) = last - (Len(s) - 1)
    BY DEF IndexFirstSubSeq, within
  <1>. HIDE DEF last
  <1>6. PICK k \in Nat : Occurs(s, t, k) /\ k + Len(s) <= last
    BY <1>1, <1>4
  <1>7. k + Len(s) = last
    <2>. SUFFICES ASSUME k + Len(s) < last PROVE FALSE
      BY <1>4, <1>6
    <2>1. k + Len(s) \in 0 .. last - 1 /\ k + Len(s) \in 0 .. Len(t)
      BY <1>4
    <2>2. within(k + Len(s))
      BY <1>1, <1>6, <2>1
    <2>. QED
      BY <1>4, <2>1, <2>2
  <1>8. s = <<>> => last = 0
    <2>. SUFFICES ASSUME s = <<>>, last # 0 PROVE FALSE
      OBVIOUS
    <2>1. Occurs(s, t, 0) /\ 0 + Len(s) <= 0 /\ 0 \in 0 .. Len(t) /\ 0 \in Nat
      BY DEF Occurs
    <2>2. within(0)
      BY <1>1, <2>1
    <2>. QED
      BY <1>4, <2>2
  <1>. QED
    BY <1>4, <1>5, <1>6, <1>7, <1>8

LEMMA Concatenation ==
  ASSUME NEW S, NEW a \in Seq(S), NEW b \in Seq(S)
  PROVE  /\ a \o b \in Seq(S)
         /\ Len(a \o b) = Len(a) + Len(b)
         /\ \A x \in 1 .. Len(a) : (a \o b)[x] = a[x]
         /\ \A x \in 1 .. Len(b) : (a \o b)[Len(a) + x] = b[x]
  <1>1. a \o b \in Seq(S) /\ Len(a \o b) = Len(a) + Len(b)
    OBVIOUS
  <1>2. \A x \in 1 .. Len(a) : (a \o b)[x] = a[x]
    OBVIOUS
  <1>3. \A x \in 1 .. Len(b) : (a \o b)[Len(a) + x] = b[x]
    <2>. TAKE x \in 1 .. Len(b)
    <2>1. Len(a) + x \in 1 .. Len(a) + Len(b) /\ Len(a) + x > Len(a) /\ Len(a) + x - Len(a) = x
      OBVIOUS
    <2>. QED
      BY <2>1
  <1>. QED
    BY <1>1, <1>2, <1>3

\* In u, r stands where s stood in t after k characters; the rest is as it was.
Replaces(r, s, t, u, k) ==
  /\ Occurs(s, t, k)
  /\ s = <<>> => k = 0
  /\ Len(u) = Len(t) - Len(s) + Len(r)
  /\ \A x \in 1 .. k : u[x] = t[x]
  /\ \A x \in 1 .. Len(r) : u[k + x] = r[x]
  /\ \A x \in 1 .. Len(t) - Len(s) - k : u[k + Len(r) + x] = t[k + Len(s) + x]

LEMMA Replacement ==
  ASSUME NEW r \in Seq(Char), NEW s \in Seq(Char), NEW t \in Seq(Char), s \in SubSeqs(t)
  PROVE  /\ ReplaceFirstSubSeq(r, s, t) \in Seq(Char)
         /\ \E k \in Nat : Replaces(r, s, t, ReplaceFirstSubSeq(r, s, t), k)
  <1>. DEFINE k == IndexFirstSubSeq(s, t) - 1
              prefix == SubSeq(t, 1, k)
              suffix == SubSeq(t, k + Len(s) + 1, Len(t))
              u == prefix \o r \o suffix
  <1>1. k \in Nat /\ Occurs(s, t, k) /\ (s = <<>> => k = 0)
    BY FirstOccurrence
  <1>2. ReplaceFirstSubSeq(r, s, t) = u
    <2>. DEFINE i == IndexFirstSubSeq(s, t)
    <2>1. i \in Nat /\ Len(s) \in Nat
      BY FirstOccurrence
    <2>2. i - 1 = k /\ i + Len(s) = k + Len(s) + 1
      BY <2>1
    <2>3. ReplaceFirstSubSeq(r, s, t) = SubSeq(t, 1, i - 1) \o r \o SubSeq(t, i + Len(s), Len(t))
      BY DEF ReplaceFirstSubSeq, ReplaceSubSeqAt
    <2>. HIDE DEF i, k
    <2>. QED
      BY <2>2, <2>3
  <1>. HIDE DEF k
  <1>3. k + Len(s) <= Len(t)
    BY <1>1 DEF Occurs
  <1>4. prefix \in Seq(Char) /\ Len(prefix) = k /\ \A x \in 1 .. k : prefix[x] = t[x]
    BY <1>1, <1>3
  <1>5. /\ suffix \in Seq(Char) /\ Len(suffix) = Len(t) - Len(s) - k
        /\ \A x \in 1 .. Len(t) - Len(s) - k : suffix[x] = t[k + Len(s) + x]
    BY <1>1, <1>3
  <1>. HIDE DEF prefix, suffix
  <1>. DEFINE v == prefix \o r
  <1>6. /\ v \in Seq(Char) /\ Len(v) = k + Len(r)
        /\ \A x \in 1 .. k : v[x] = prefix[x]
        /\ \A x \in 1 .. Len(r) : v[k + x] = r[x]
    <2>1. /\ v \in Seq(Char) /\ Len(v) = Len(prefix) + Len(r)
          /\ \A x \in 1 .. Len(prefix) : v[x] = prefix[x]
          /\ \A x \in 1 .. Len(r) : v[Len(prefix) + x] = r[x]
      <3>1. prefix \in Seq(Char)
        BY <1>4
      <3>. QED
        BY <3>1, Concatenation, SMTT(30)
    <2>. QED
      BY <1>4, <2>1
  <1>. HIDE DEF v
  <1>. DEFINE w == v \o suffix
  <1>7. /\ w \in Seq(Char) /\ Len(w) = k + Len(r) + (Len(t) - Len(s) - k)
        /\ \A x \in 1 .. k + Len(r) : w[x] = v[x]
        /\ \A x \in 1 .. Len(t) - Len(s) - k : w[k + Len(r) + x] = suffix[x]
    <2>1. suffix \in Seq(Char)
      BY <1>5
    <2>2. /\ w \in Seq(Char) /\ Len(w) = Len(v) + Len(suffix)
          /\ \A x \in 1 .. Len(v) : w[x] = v[x]
          /\ \A x \in 1 .. Len(suffix) : w[Len(v) + x] = suffix[x]
      <3>1. v \in Seq(Char)
        BY <1>6
      <3>. QED
        BY <2>1, <3>1, Concatenation, SMTT(30)
    <2>. HIDE DEF w
    <2>. QED
      BY <1>5, <1>6, <2>2
  <1>8. u = w
    BY DEF v
  <1>. HIDE DEF u, w
  <1>9. Replaces(r, s, t, w, k)
    <2>1. Len(w) = Len(t) - Len(s) + Len(r)
      BY <1>1, <1>7
    <2>2. \A x \in 1 .. k : w[x] = t[x]
      BY <1>1, <1>4, <1>6, <1>7
    <2>3. \A x \in 1 .. Len(r) : w[k + x] = r[x]
      <3>. TAKE x \in 1 .. Len(r)
      <3>1. k + x \in 1 .. k + Len(r)
        BY <1>1
      <3>. QED
        BY <1>6, <1>7, <3>1
    <2>4. \A x \in 1 .. Len(t) - Len(s) - k : w[k + Len(r) + x] = t[k + Len(s) + x]
      BY <1>5, <1>7
    <2>. QED
      BY <1>1, <2>1, <2>2, <2>3, <2>4 DEF Replaces
  <1>. QED
    BY <1>1, <1>2, <1>7, <1>8, <1>9

\* What takes the place of a text stands in the result.
LEMMA ReplacedOccurs ==
  ASSUME NEW r \in Seq(Char), NEW s \in Seq(Char), NEW t \in Seq(Char), s \in SubSeqs(t)
  PROVE  r \in SubSeqs(ReplaceFirstSubSeq(r, s, t))
  <1>. DEFINE u == ReplaceFirstSubSeq(r, s, t)
  <1>1. u \in Seq(Char)
    BY Replacement
  <1>2. PICK k \in Nat : Replaces(r, s, t, u, k)
    BY Replacement
  <1>. HIDE DEF u
  <1>3. Occurs(r, u, k)
    BY <1>1, <1>2 DEF Replaces, Occurs
  <1>4. r \in SubSeqs(u)
    BY <1>1, <1>3, SubSeqOccurs
  <1>. QED
    BY <1>4 DEF u

\* A text that the one replaced cannot meet stays where it is, or moves with what
\* follows.
LEMMA OthersOccur ==
  ASSUME NEW n \in Seq(Char), NEW r \in Seq(Char), NEW s \in Seq(Char), NEW t \in Seq(Char),
         ~Meets(s, n), n \in SubSeqs(t)
  PROVE  n \in SubSeqs(ReplaceFirstSubSeq(r, s, t))
  <1>. DEFINE u == ReplaceFirstSubSeq(r, s, t)
  <1>1. CASE s \notin SubSeqs(t)
    BY <1>1 DEF ReplaceFirstSubSeq
  <1>2. CASE s \in SubSeqs(t)
    <2>1. u \in Seq(Char)
      BY <1>2, Replacement
    <2>2. PICK k \in Nat : Replaces(r, s, t, u, k)
      BY <1>2, Replacement
    <2>. HIDE DEF u
    <2>3. PICK h \in Nat : Occurs(n, t, h)
      BY SubSeqOccurs
    <2>4. CASE Len(n) = 0
      <3>1. Occurs(n, u, 0)
        BY <2>1, <2>4 DEF Occurs
      <3>. QED
        BY <2>1, <3>1, SubSeqOccurs DEF u
    <2>5. CASE h + Len(n) <= k
      <3>1. k <= Len(u)
        BY <2>1, <2>2 DEF Replaces, Occurs
      <3>2. \A j \in 1 .. Len(n) : u[h + j] = n[j]
        <4>. TAKE j \in 1 .. Len(n)
        <4>1. h + j \in 1 .. k
          BY <2>5
        <4>. QED
          BY <2>2, <2>3, <4>1 DEF Replaces, Occurs
      <3>3. Occurs(n, u, h)
        BY <2>1, <2>5, <3>1, <3>2 DEF Occurs
      <3>. QED
        BY <2>1, <3>3, SubSeqOccurs DEF u
    <2>6. CASE h >= k + Len(s)
      <3>. DEFINE m == h - Len(s) + Len(r)
      <3>1. m \in Nat /\ m + Len(n) <= Len(u)
        BY <2>1, <2>2, <2>3, <2>6 DEF Replaces, Occurs
      <3>2. \A j \in 1 .. Len(n) : u[m + j] = n[j]
        <4>. SUFFICES ASSUME NEW j \in 1 .. Len(n) PROVE u[m + j] = n[j]
          OBVIOUS
        <4>. DEFINE x == h - k - Len(s) + j
        <4>1. x \in 1 .. Len(t) - Len(s) - k
          BY <2>3, <2>6 DEF Occurs
        <4>2. m + j = k + Len(r) + x /\ k + Len(s) + x = h + j
          OBVIOUS
        <4>3. u[k + Len(r) + x] = t[k + Len(s) + x]
          BY <2>2, <4>1, Zenon DEF Replaces
        <4>4. t[h + j] = n[j]
          BY <2>3 DEF Occurs
        <4>. HIDE DEF m, x
        <4>. QED
          BY <4>2, <4>3, <4>4
      <3>. HIDE DEF m
      <3>3. Occurs(n, u, m)
        BY <3>1, <3>2 DEF Occurs
      <3>. QED
        BY <2>1, <3>1, <3>3, SubSeqOccurs DEF u
    <2>7. CASE Len(n) # 0 /\ h + Len(n) > k /\ h < k + Len(s)
      <3>1. PICK p \in Nat : p \in h + 1 .. h + Len(n) /\ p \in k + 1 .. k + Len(s)
        <4>1. CASE h >= k
          <5>1. h + 1 \in h + 1 .. h + Len(n) /\ h + 1 \in k + 1 .. k + Len(s)
            BY <2>7, <4>1
          <5>. QED
            BY <5>1
        <4>2. CASE h < k
          <5>1. Len(s) # 0
            BY <2>2, <4>2 DEF Replaces
          <5>2. k + 1 \in h + 1 .. h + Len(n) /\ k + 1 \in k + 1 .. k + Len(s)
            BY <2>7, <4>2, <5>1
          <5>. QED
            BY <5>2
        <4>. QED
          BY <4>1, <4>2
      <3>. DEFINE i == p - k
                  j == p - h
      <3>2. i \in DOMAIN s /\ j \in DOMAIN n
        BY <3>1
      <3>3. ASSUME NEW x \in DOMAIN s, x - i + j \in DOMAIN n PROVE s[x] = n[x - i + j]
        <4>. DEFINE y == x - i + j
        <4>1. x \in 1 .. Len(s) /\ y \in 1 .. Len(n) /\ k + x = h + y
          <5>1. x \in 1 .. Len(s) /\ x - (p - k) + (p - h) \in 1 .. Len(n)
            BY <3>3
          <5>2. x \in Int /\ k \in Int /\ h \in Int /\ p \in Int
            BY <5>1
          <5>3. k + x = h + (x - (p - k) + (p - h))
            BY <5>2
          <5>. QED
            BY <5>1, <5>3
        <4>. HIDE DEF y
        <4>2. t[k + x] = s[x] /\ t[h + y] = n[y]
          BY <2>2, <2>3, <4>1 DEF Replaces, Occurs
        <4>3. s[x] = n[y]
          BY <4>1, <4>2
        <4>. QED
          BY <4>3 DEF y
      <3>. HIDE DEF i, j
      <3>4. Meets(s, n)
        BY <3>2, <3>3 DEF Meets
      <3>. QED
        BY <3>4
    <2>. QED
      BY <2>4, <2>5, <2>6, <2>7
  <1>. QED
    BY <1>1, <1>2

-----------------------------------------------------------------------------
(* Counting characters *)

Between(w, t, a, b) == {i \in a + 1 .. b : t[i] = w}

LEMMA BetweenFinite ==
  ASSUME NEW w, NEW t, NEW a \in Nat, NEW b \in Nat
  PROVE  IsFiniteSet(Between(w, t, a, b)) /\ Cardinality(Between(w, t, a, b)) \in Nat
  <1>1. IsFiniteSet(a + 1 .. b) /\ Between(w, t, a, b) \in SUBSET (a + 1 .. b)
    BY FS_Interval DEF Between
  <1>. QED
    BY <1>1, FS_Subset, FS_CardinalityType

LEMMA Counted ==
  ASSUME NEW w, NEW t \in Seq(Char)
  PROVE  /\ IsFiniteSet(Places(w, t)) /\ Count(w, t) \in Nat
         /\ Count(w, t) = Cardinality(Between(w, t, 0, Len(t)))
  <1>1. Places(w, t) = Between(w, t, 0, Len(t)) /\ Len(t) \in Nat
    BY DEF Places, Between
  <1>. QED
    BY <1>1, BetweenFinite DEF Count

LEMMA Adjacent ==
  ASSUME NEW w, NEW t, NEW a \in Nat, NEW b \in Nat, NEW c \in Nat, a <= b, b <= c
  PROVE  Cardinality(Between(w, t, a, c)) =
           Cardinality(Between(w, t, a, b)) + Cardinality(Between(w, t, b, c))
  <1>1. Between(w, t, a, c) = Between(w, t, a, b) \cup Between(w, t, b, c)
    BY DEF Between
  <1>2. Between(w, t, a, b) \cap Between(w, t, b, c) = {}
    BY DEF Between
  <1>3. Cardinality({}) = 0
    BY FS_EmptySet
  <1>4. /\ IsFiniteSet(Between(w, t, a, b)) /\ Cardinality(Between(w, t, a, b)) \in Nat
        /\ IsFiniteSet(Between(w, t, b, c)) /\ Cardinality(Between(w, t, b, c)) \in Nat
    BY BetweenFinite
  <1>. DEFINE A == Between(w, t, a, b)
              B == Between(w, t, b, c)
  <1>. HIDE DEF A, B
  <1>5. IsFiniteSet(A) /\ IsFiniteSet(B)
    BY <1>4 DEF A, B
  <1>6. Cardinality(A \cup B) = Cardinality(A) + Cardinality(B) - Cardinality(A \cap B)
    BY <1>5, FS_Union
  <1>7. Cardinality(A \cap B) = 0
    BY <1>2, <1>3 DEF A, B
  <1>8. Cardinality(A) \in Nat /\ Cardinality(B) \in Nat
    BY <1>4 DEF A, B
  <1>9. Cardinality(A \cup B) = Cardinality(A) + Cardinality(B)
    BY <1>6, <1>7, <1>8
  <1>. QED
    BY <1>1, <1>9 DEF A, B

\* After a characters of t the same n follow as after b characters of u.
Same(t, a, u, b, n) == \A x \in 1 .. n : t[a + x] = u[b + x]

AsMany(w, t, a, u, b, n) ==
  Cardinality(Between(w, t, a, a + n)) = Cardinality(Between(w, u, b, b + n))

LEMMA Moved ==
  ASSUME NEW w, NEW t, NEW u, NEW a \in Nat, NEW b \in Nat, NEW n \in Nat, Same(t, a, u, b, n)
  PROVE  AsMany(w, t, a, u, b, n)
  <1>. DEFINE S == Between(w, t, a, a + n)
              T == Between(w, u, b, b + n)
              f == [i \in S |-> i - a + b]
  <1>1. \A i \in S : i - a \in 1 .. n /\ i = a + (i - a) /\ t[i] = w
    BY DEF Between
  <1>2. \A i \in S : f[i] \in T
    <2>. TAKE i \in S
    <2>1. u[b + (i - a)] = w /\ f[i] = b + (i - a) /\ f[i] \in b + 1 .. b + n
      BY <1>1 DEF Same
    <2>. QED
      BY <2>1 DEF Between
  <1>3. \A i, j \in S : f[i] = f[j] => i = j
    BY DEF Between
  <1>4. \A j \in T : \E i \in S : f[i] = j
    <2>. TAKE j \in T
    <2>1. j - b \in 1 .. n /\ j = b + (j - b) /\ u[j] = w
      BY DEF Between
    <2>2. t[a + (j - b)] = w
      BY <2>1 DEF Same
    <2>3. a + (j - b) \in S
      BY <2>1, <2>2 DEF Between
    <2>. QED
      BY <2>1, <2>3
  <1>. HIDE DEF S, T
  <1>5. f \in Bijection(S, T)
    <2>1. f \in [S -> T]
      BY <1>2
    <2>. HIDE DEF f
    <2>2. f \in Injection(S, T)
      BY <1>3, <2>1 DEF Injection, IsInjective
    <2>3. f \in Surjection(S, T)
      BY <1>4, <2>1 DEF Surjection
    <2>. QED
      BY <2>2, <2>3 DEF Bijection
  <1>6. IsFiniteSet(S) /\ ExistsBijection(S, T)
    <2>1. a + n \in Nat
      OBVIOUS
    <2>. QED
      BY <1>5, <2>1, BetweenFinite DEF S, ExistsBijection
  <1>. QED
    BY <1>6, FS_Bijection DEF S, T, AsMany

\* Of a replacement only the two texts count.
LEMMA ReplacedCount ==
  ASSUME NEW r \in Seq(Char), NEW s \in Seq(Char), NEW t \in Seq(Char), NEW u \in Seq(Char),
         NEW k \in Nat, Replaces(r, s, t, u, k), NEW w
  PROVE  Count(w, u) = Count(w, t) - Count(w, s) + Count(w, r)
  <1>. DEFINE l == Len(s)
              m == Len(r)
              n == Len(t) - Len(s) - k
  <1>0. 0 \in Nat
    OBVIOUS
  <1>1. l \in Nat /\ m \in Nat /\ n \in Nat /\ Len(t) = k + l + n /\ Len(u) = k + m + n
    BY DEF Replaces, Occurs
  <1>2. /\ \A x \in 1 .. k : t[x] = u[x]
        /\ \A x \in 1 .. l : s[x] = t[k + x]
        /\ \A x \in 1 .. m : r[x] = u[k + x]
        /\ \A x \in 1 .. n : t[k + l + x] = u[k + m + x]
    BY DEF Replaces, Occurs
  <1>. HIDE DEF l, m, n
  <1>3. Cardinality(Between(w, t, 0, k)) = Cardinality(Between(w, u, 0, k))
    <2>1. Between(w, t, 0, k) = Between(w, u, 0, k)
      BY <1>2 DEF Between
    <2>. QED
      BY <2>1
  <1>4. Cardinality(Between(w, t, k, k + l)) = Count(w, s)
    <2>1. Same(s, 0, t, k, l) /\ l \in Nat
      BY <1>1, <1>2 DEF Same
    <2>2. AsMany(w, s, 0, t, k, l)
      BY <1>0, <2>1, Moved, Zenon
    <2>3. 0 + l = l
      BY <2>1
    <2>. QED
      BY <2>2, <2>3, Counted DEF l, AsMany
  <1>5. Cardinality(Between(w, u, k, k + m)) = Count(w, r)
    <2>1. Same(r, 0, u, k, m) /\ m \in Nat
      BY <1>1, <1>2 DEF Same
    <2>2. AsMany(w, r, 0, u, k, m)
      BY <1>0, <2>1, Moved, Zenon
    <2>3. 0 + m = m
      BY <2>1
    <2>. QED
      BY <2>2, <2>3, Counted DEF m, AsMany
  <1>6. Cardinality(Between(w, t, k + l, k + l + n)) = Cardinality(Between(w, u, k + m, k + m + n))
    <2>. DEFINE p == k + l
                q == k + m
    <2>1. Same(t, p, u, q, n) /\ p \in Nat /\ q \in Nat /\ n \in Nat
      BY <1>1, <1>2 DEF Same
    <2>. HIDE DEF p, q
    <2>2. AsMany(w, t, p, u, q, n)
      BY <2>1, Moved, Zenon
    <2>. QED
      BY <2>2 DEF p, q, AsMany
  <1>7. Count(w, t) = Cardinality(Between(w, t, 0, k)) + Cardinality(Between(w, t, k, k + l))
                        + Cardinality(Between(w, t, k + l, k + l + n))
    <2>1. k + l \in Nat /\ k + l + n \in Nat /\ k <= k + l /\ k + l <= k + l + n /\ k <= k + l + n
      BY <1>1
    <2>2. Cardinality(Between(w, t, 0, k + l + n)) =
            Cardinality(Between(w, t, 0, k)) + Cardinality(Between(w, t, k, k + l + n))
      BY <2>1, Adjacent
    <2>3. Cardinality(Between(w, t, k, k + l + n)) =
            Cardinality(Between(w, t, k, k + l)) + Cardinality(Between(w, t, k + l, k + l + n))
      BY <2>1, Adjacent
    <2>4. Count(w, t) = Cardinality(Between(w, t, 0, k + l + n))
      BY <1>1, Counted
    <2>. QED
      BY <2>1, <2>2, <2>3, <2>4, BetweenFinite
  <1>8. Count(w, u) = Cardinality(Between(w, u, 0, k)) + Cardinality(Between(w, u, k, k + m))
                        + Cardinality(Between(w, u, k + m, k + m + n))
    <2>1. k + m \in Nat /\ k + m + n \in Nat /\ k <= k + m /\ k + m <= k + m + n /\ k <= k + m + n
      BY <1>1
    <2>2. Cardinality(Between(w, u, 0, k + m + n)) =
            Cardinality(Between(w, u, 0, k)) + Cardinality(Between(w, u, k, k + m + n))
      BY <2>1, Adjacent
    <2>3. Cardinality(Between(w, u, k, k + m + n)) =
            Cardinality(Between(w, u, k, k + m)) + Cardinality(Between(w, u, k + m, k + m + n))
      BY <2>1, Adjacent
    <2>4. Count(w, u) = Cardinality(Between(w, u, 0, k + m + n))
      BY <1>1, Counted
    <2>. QED
      BY <2>1, <2>2, <2>3, <2>4, BetweenFinite
  <1>9. /\ Cardinality(Between(w, t, 0, k)) \in Nat
        /\ Cardinality(Between(w, t, k + l, k + l + n)) \in Nat
        /\ Count(w, s) \in Nat /\ Count(w, r) \in Nat
    <2>1. k + l \in Nat /\ k + l + n \in Nat /\ 0 \in Nat
      BY <1>1
    <2>. QED
      BY <2>1, BetweenFinite, Counted
  <1>. QED
    BY <1>3, <1>4, <1>5, <1>6, <1>7, <1>8, <1>9

\* One more finding counts for what its text holds.
LEMMA CountedOnce ==
  ASSUME NEW w, NEW texts, NEW findings \in SUBSET Finding, NEW f \in Finding \ findings,
         \A g \in findings \cup {f} : texts[g] \in Seq(Char)
  PROVE  /\ CountAll(w, texts, findings) \in Nat
         /\ CountAll(w, texts, findings \cup {f}) = CountAll(w, texts, findings) + Count(w, texts[f])
  <1>. DEFINE Of(g) == {g} \X Places(w, texts[g])
              All(S) == UNION {Of(g) : g \in S}
  <1>1. \A g \in findings \cup {f} :
           IsFiniteSet(Of(g)) /\ Cardinality(Of(g)) = Count(w, texts[g])
    <2>. TAKE g \in findings \cup {f}
    <2>1. IsFiniteSet(Places(w, texts[g])) /\ Count(w, texts[g]) \in Nat
      BY Counted
    <2>2. IsFiniteSet({g}) /\ Cardinality({g}) = 1
      BY FS_Singleton
    <2>3. /\ IsFiniteSet({g} \X Places(w, texts[g]))
          /\ Cardinality({g} \X Places(w, texts[g])) = Cardinality({g}) * Cardinality(Places(w, texts[g]))
      BY <2>1, <2>2, FS_Product
    <2>. QED
      BY <2>1, <2>2, <2>3 DEF Count
  <1>2. IsFiniteSet(findings)
    <2>1. IsFiniteSet(Finding)
      BY FindingCountAssumption, FS_Interval DEF Finding, FindingCountAssumption
    <2>. QED
      BY <2>1, FS_Subset
  <1>3. IsFiniteSet(All(findings))
    <2>. DEFINE parts == {Of(g) : g \in findings}
                part == [g \in findings |-> Of(g)]
    <2>. HIDE DEF Of
    <2>1. IsFiniteSet(parts)
      <3>1. part \in Surjection(findings, parts)
        BY DEF Surjection
      <3>. QED
        BY <1>2, <3>1, FS_Surjection
    <2>2. \A T \in parts : IsFiniteSet(T)
      BY <1>1
    <2>. QED
      BY <2>1, <2>2, FS_UNION
  <1>4. All(findings \cup {f}) = All(findings) \cup Of(f)
    OBVIOUS
  <1>5. All(findings) \cap Of(f) = {}
    OBVIOUS
  <1>6. CountAll(w, texts, findings) = Cardinality(All(findings))
        /\ CountAll(w, texts, findings \cup {f}) = Cardinality(All(findings \cup {f}))
    BY DEF CountAll
  <1>7. Cardinality({}) = 0
    BY FS_EmptySet
  <1>8. Count(w, texts[f]) \in Nat
    BY Counted
  <1>. HIDE DEF Of, All
  <1>9. Cardinality(All(findings)) \in Nat
    BY <1>3, FS_CardinalityType
  <1>10. IsFiniteSet(Of(f)) /\ Cardinality(Of(f)) = Count(w, texts[f])
    BY <1>1
  <1>11. Cardinality(All(findings) \cup Of(f)) =
           Cardinality(All(findings)) + Cardinality(Of(f)) - Cardinality(All(findings) \cap Of(f))
    BY <1>3, <1>10, FS_Union
  <1>12. Cardinality(All(findings) \cap Of(f)) = 0
    BY <1>5, <1>7
  <1>13. Cardinality(All(findings \cup {f})) = Cardinality(All(findings)) + Count(w, texts[f])
    <2>. DEFINE A == All(findings)
                B == Of(f)
    <2>. HIDE DEF A, B
    <2>1. Cardinality(A \cup B) = Cardinality(A) + Count(w, texts[f])
      BY <1>8, <1>9, <1>10, <1>11, <1>12 DEF A, B
    <2>. QED
      BY <1>4, <2>1 DEF A, B
  <1>. QED
    BY <1>6, <1>9, <1>13

-----------------------------------------------------------------------------
(* Reading a diff *)

Token == UNION {Range(Tokens(t)) : t \in Seq(Char)}

\* Whatever a text is cut into, it is a sequence.
LEMMA TokensType ==
  ASSUME NEW t \in Seq(Char)
  PROVE  Tokens(t) \in Seq(Token)
  <1>. DEFINE n == Cardinality(Starts(t))
  <1>1. n \in Nat
    <2>1. IsFiniteSet(1 .. Len(t)) /\ DOMAIN t = 1 .. Len(t) /\ Starts(t) \subseteq DOMAIN t
      BY FS_Interval DEF Starts
    <2>. QED
      BY <2>1, FS_Subset, FS_CardinalityType
  <1>2. DOMAIN Tokens(t) = 1 .. n /\ Tokens(t) = [k \in 1 .. n |-> Tokens(t)[k]]
    BY DEF Tokens
  <1>. HIDE DEF n
  <1>3. Range(Tokens(t)) \subseteq Token
    BY Zenon DEF Token
  <1>4. \A k \in 1 .. n : Tokens(t)[k] \in Token
    BY <1>2, <1>3 DEF Range
  <1>. QED
    BY <1>1, <1>2, <1>4

Entry == {"equal", "delete", "insert"} \X Token

LEMMA MarkedType ==
  ASSUME NEW op \in {"equal", "delete", "insert"}, NEW words \in Seq(Token)
  PROVE  /\ Marked(op, words) \in Seq(Entry) /\ Len(Marked(op, words)) = Len(words)
         /\ DOMAIN Marked(op, words) = DOMAIN words
         /\ \A i \in DOMAIN words : Marked(op, words)[i] = <<op, words[i]>>
  <1>1. DOMAIN words = 1 .. Len(words) /\ Len(words) \in Nat
    OBVIOUS
  <1>2. \A i \in 1 .. Len(words) : <<op, words[i]>> \in Entry
    BY DEF Entry
  <1>3. [i \in 1 .. Len(words) |-> <<op, words[i]>>] \in Seq(Entry)
    BY <1>1, <1>2
  <1>. QED
    BY <1>1, <1>3 DEF Marked

\* What is marked with an operation shown reads as it is, else as nothing.
LEMMA MarkedReads ==
  ASSUME NEW op \in {"equal", "delete", "insert"}, NEW words \in Seq(Token), NEW ops
  PROVE  Reads(Marked(op, words), ops, IF op \in ops THEN words ELSE <<>>)
  <1>. DEFINE d == Marked(op, words)
  <1>1. DOMAIN d = DOMAIN words /\ \A i \in DOMAIN words : d[i] = <<op, words[i]>>
    BY MarkedType
  <1>. HIDE DEF d
  <1>2. \A i \in DOMAIN words : d[i][1] = op /\ d[i][2] = words[i]
    BY <1>1
  <1>3. CASE op \in ops
    <2>. DEFINE at == [i \in DOMAIN words |-> i]
    <2>1. at \in [DOMAIN words -> DOMAIN d]
      BY <1>1
    <2>2. Range(at) = {p \in DOMAIN d : d[p][1] \in ops}
      BY <1>1, <1>2, <1>3 DEF Range
    <2>3. \A i, j \in DOMAIN words : i < j => at[i] < at[j]
      OBVIOUS
    <2>4. \A i \in DOMAIN words : d[at[i]][2] = words[i]
      BY <1>2
    <2>. HIDE DEF at
    <2>5. Reads(d, ops, words)
      BY <2>1, <2>2, <2>3, <2>4 DEF Reads
    <2>. QED
      BY <1>3, <2>5 DEF d
  <1>4. CASE op \notin ops
    <2>. DEFINE at == [i \in {} |-> 0]
    <2>1. DOMAIN <<>> = {}
      OBVIOUS
    <2>2. at \in [{} -> DOMAIN d]
      OBVIOUS
    <2>3. Range(at) = {p \in DOMAIN d : d[p][1] \in ops}
      BY <1>1, <1>2, <1>4 DEF Range
    <2>. HIDE DEF at
    <2>4. Reads(d, ops, <<>>)
      BY <2>1, <2>2, <2>3 DEF Reads
    <2>. QED
      BY <1>4, <2>4 DEF d
  <1>. QED
    BY <1>3, <1>4

\* Two diffs, one after the other, read as their texts do.
LEMMA ConcatReads ==
  ASSUME NEW d \in Seq(Entry), NEW e \in Seq(Entry), NEW s \in Seq(Token), NEW t \in Seq(Token),
         NEW ops, Reads(d, ops, s), Reads(e, ops, t)
  PROVE  Reads(d \o e, ops, s \o t)
  <1>. DEFINE k == Len(s)
              l == Len(t)
              m == Len(d)
              n == Len(e)
              both == d \o e
              text == s \o t
  <1>1. /\ k \in Nat /\ l \in Nat /\ m \in Nat /\ n \in Nat
        /\ DOMAIN s = 1 .. k /\ DOMAIN t = 1 .. l /\ DOMAIN d = 1 .. m /\ DOMAIN e = 1 .. n
    OBVIOUS
  <1>2. /\ DOMAIN both = 1 .. m + n
        /\ \A p \in 1 .. m : both[p] = d[p]
        /\ \A p \in 1 .. n : both[m + p] = e[p]
    <2>1. DOMAIN both = 1 .. m + n /\ \A p \in 1 .. m : both[p] = d[p]
      OBVIOUS
    <2>2. ASSUME NEW p \in 1 .. n PROVE both[m + p] = e[p]
      <3>1. m + p \in 1 .. m + n /\ m + p > m /\ m + p - m = p
        BY <1>1
      <3>. QED
        BY <3>1
    <2>. QED
      BY <2>1, <2>2
  <1>3. /\ DOMAIN text = 1 .. k + l
        /\ \A i \in 1 .. k : text[i] = s[i]
        /\ \A i \in 1 .. l : text[k + i] = t[i]
    <2>1. DOMAIN text = 1 .. k + l
      OBVIOUS
    <2>. QED
      BY <2>1, Concatenation
  <1>4. PICK a \in [DOMAIN s -> DOMAIN d] :
           /\ \A i, j \in DOMAIN s : i < j => a[i] < a[j]
           /\ Range(a) = {p \in DOMAIN d : d[p][1] \in ops}
           /\ \A i \in DOMAIN s : d[a[i]][2] = s[i]
    BY DEF Reads
  <1>5. PICK b \in [DOMAIN t -> DOMAIN e] :
           /\ \A i, j \in DOMAIN t : i < j => b[i] < b[j]
           /\ Range(b) = {p \in DOMAIN e : e[p][1] \in ops}
           /\ \A i \in DOMAIN t : e[b[i]][2] = t[i]
    BY DEF Reads
  <1>. HIDE DEF k, l, m, n, both, text
  <1>. DEFINE at == [i \in 1 .. k + l |-> IF i <= k THEN a[i] ELSE m + b[i - k]]
  <1>6. /\ \A i \in 1 .. k : at[i] = a[i] /\ a[i] \in 1 .. m
        /\ \A i \in 1 .. l : at[k + i] = m + b[i] /\ b[i] \in 1 .. n
    BY <1>1, <1>4, <1>5
  <1>7. \A i \in 1 .. k + l : i \in 1 .. k \/ (i - k \in 1 .. l /\ i = k + (i - k))
    BY <1>1
  <1>8. \A p \in 1 .. m + n : p \in 1 .. m \/ (p - m \in 1 .. n /\ p = m + (p - m))
    BY <1>1
  <1>9. DOMAIN at = 1 .. k + l
    OBVIOUS
  <1>10. ASSUME NEW i \in 1 .. k + l
         PROVE  at[i] \in 1 .. m + n /\ both[at[i]][2] = text[i] /\ both[at[i]][1] \in ops
    <2>1. CASE i \in 1 .. k
      <3>1. at[i] = a[i] /\ a[i] \in 1 .. m /\ text[i] = s[i] /\ both[a[i]] = d[a[i]]
        BY <1>2, <1>3, <1>6, <2>1
      <3>2. a[i] \in Range(a)
        BY <1>1, <1>4, <2>1 DEF Range
      <3>. QED
        BY <1>1, <1>4, <2>1, <3>1, <3>2
    <2>2. CASE i - k \in 1 .. l
      <3>. DEFINE j == i - k
      <3>1. i = k + j /\ j \in 1 .. l
        BY <1>1, <2>2
      <3>. HIDE DEF j
      <3>2. at[i] = m + b[j] /\ b[j] \in 1 .. n /\ text[i] = t[j] /\ both[m + b[j]] = e[b[j]]
        BY <1>2, <1>3, <1>6, <3>1
      <3>3. b[j] \in Range(b)
        BY <1>1, <1>5, <3>1 DEF Range
      <3>4. e[b[j]][1] \in ops /\ e[b[j]][2] = t[j]
        BY <1>1, <1>5, <3>1, <3>3
      <3>5. m + b[j] \in 1 .. m + n
        BY <1>1, <3>2
      <3>. QED
        BY <3>2, <3>4, <3>5
    <2>. QED
      BY <1>7, <2>1, <2>2
  <1>11. ASSUME NEW p \in 1 .. m + n, both[p][1] \in ops
         PROVE  \E i \in 1 .. k + l : at[i] = p
    <2>1. CASE p \in 1 .. m
      <3>1. p \in Range(a)
        BY <1>1, <1>2, <1>4, <1>11, <2>1
      <3>2. PICK i \in 1 .. k : a[i] = p
        BY <1>1, <1>4, <3>1 DEF Range
      <3>3. i \in 1 .. k + l /\ at[i] = p
        BY <1>1, <1>6, <3>2
      <3>. QED
        BY <3>3
    <2>2. CASE p - m \in 1 .. n
      <3>. DEFINE q == p - m
      <3>1. p = m + q /\ q \in 1 .. n
        BY <1>1, <2>2
      <3>. HIDE DEF q
      <3>2. q \in Range(b)
        BY <1>1, <1>2, <1>5, <1>11, <3>1
      <3>3. PICK i \in 1 .. l : b[i] = q
        BY <1>1, <1>5, <3>2 DEF Range
      <3>4. k + i \in 1 .. k + l /\ at[k + i] = p
        BY <1>1, <1>6, <3>1, <3>3
      <3>. QED
        BY <3>4
    <2>. QED
      BY <1>8, <2>1, <2>2
  <1>12. ASSUME NEW i \in 1 .. k + l, NEW j \in 1 .. k + l, i < j PROVE at[i] < at[j]
    <2>1. CASE i \in 1 .. k /\ j \in 1 .. k
      BY <1>1, <1>4, <1>6, <1>12, <2>1
    <2>2. CASE i \in 1 .. k /\ j \notin 1 .. k
      <3>1. j - k \in 1 .. l /\ j = k + (j - k)
        BY <1>1, <2>2
      <3>2. at[j] = m + b[j - k] /\ b[j - k] \in 1 .. n /\ at[i] = a[i] /\ a[i] \in 1 .. m
        BY <1>6, <2>2, <3>1
      <3>. QED
        BY <1>1, <3>2, SMTT(30)
    <2>3. CASE i \notin 1 .. k
      <3>1. i - k \in 1 .. l /\ j - k \in 1 .. l /\ i = k + (i - k) /\ j = k + (j - k) /\ i - k < j - k
        BY <1>1, <1>12, <2>3
      <3>2. /\ at[j] = m + b[j - k] /\ b[j - k] \in 1 .. n
            /\ at[i] = m + b[i - k] /\ b[i - k] \in 1 .. n
        BY <1>6, <3>1
      <3>3. b[i - k] < b[j - k]
        BY <1>1, <1>5, <3>1
      <3>. QED
        BY <1>1, <3>2, <3>3
    <2>. QED
      BY <2>1, <2>2, <2>3
  <1>. HIDE DEF at
  <1>13. at \in [DOMAIN text -> DOMAIN both]
    <2>1. at = [i \in 1 .. k + l |-> at[i]]
      BY DEF at
    <2>. QED
      BY <1>2, <1>3, <1>10, <2>1
  <1>14. Range(at) = {p \in DOMAIN both : both[p][1] \in ops}
    <2>1. Range(at) = {at[i] : i \in 1 .. k + l}
      BY <1>9 DEF Range
    <2>2. \A p : p \in {at[i] : i \in 1 .. k + l} <=> p \in 1 .. m + n /\ both[p][1] \in ops
      BY <1>10, <1>11
    <2>3. \A p : p \in Range(at) <=> p \in DOMAIN both /\ both[p][1] \in ops
      BY <1>2, <2>1, <2>2
    <2>. QED
      BY <2>3
  <1>15. Reads(both, ops, text)
    <2>1. /\ \A i, j \in DOMAIN text : i < j => at[i] < at[j]
          /\ \A i \in DOMAIN text : both[at[i]][2] = text[i]
      BY <1>3, <1>10, <1>12
    <2>. QED
      BY <1>13, <1>14, <2>1, Zenon DEF Reads
  <1>. QED
    BY <1>15 DEF both, text

ShownBefore == {"equal", "delete"}
ShownAfter == {"equal", "insert"}

\* What was changed and the equal tokens after it.
LEMMA PartReads ==
  ASSUME NEW x \in Seq(Token), NEW y \in Seq(Token), NEW z \in Seq(Token)
  PROVE  /\ Changed(x, y) \o Marked("equal", z) \in Seq(Entry)
         /\ Reads(Changed(x, y) \o Marked("equal", z), ShownBefore, x \o z)
         /\ Reads(Changed(x, y) \o Marked("equal", z), ShownAfter, y \o z)
  <1>. DEFINE d == Marked("delete", x)
              i == Marked("insert", y)
              e == Marked("equal", z)
  <1>1. d \in Seq(Entry) /\ i \in Seq(Entry) /\ e \in Seq(Entry)
    BY MarkedType
  <1>2. /\ Reads(d, ShownBefore, x) /\ Reads(i, ShownBefore, <<>>) /\ Reads(e, ShownBefore, z)
        /\ Reads(d, ShownAfter, <<>>) /\ Reads(i, ShownAfter, y) /\ Reads(e, ShownAfter, z)
    <2>1. "delete" \in ShownBefore /\ "insert" \notin ShownBefore /\ "equal" \in ShownBefore
      BY DEF ShownBefore
    <2>2. "delete" \notin ShownAfter /\ "insert" \in ShownAfter /\ "equal" \in ShownAfter
      BY DEF ShownAfter
    <2>3. "delete" \in {"equal", "delete", "insert"} /\ "insert" \in {"equal", "delete", "insert"}
          /\ "equal" \in {"equal", "delete", "insert"}
      OBVIOUS
    <2>4. /\ Reads(d, ShownBefore, IF "delete" \in ShownBefore THEN x ELSE <<>>)
          /\ Reads(i, ShownBefore, IF "insert" \in ShownBefore THEN y ELSE <<>>)
          /\ Reads(e, ShownBefore, IF "equal" \in ShownBefore THEN z ELSE <<>>)
      BY <2>3, MarkedReads
    <2>5. /\ Reads(d, ShownAfter, IF "delete" \in ShownAfter THEN x ELSE <<>>)
          /\ Reads(i, ShownAfter, IF "insert" \in ShownAfter THEN y ELSE <<>>)
          /\ Reads(e, ShownAfter, IF "equal" \in ShownAfter THEN z ELSE <<>>)
      BY <2>3, MarkedReads
    <2>. QED
      BY <2>1, <2>2, <2>4, <2>5
  <1>. HIDE DEF d, i, e
  <1>3. <<>> \in Seq(Token) /\ d \o i \in Seq(Entry) /\ x \o <<>> = x /\ <<>> \o y = y
    BY <1>1
  <1>4. Reads(d \o i, ShownBefore, x) /\ Reads(d \o i, ShownAfter, y)
    <2>1. Reads(d \o i, ShownBefore, x \o <<>>) /\ Reads(d \o i, ShownAfter, <<>> \o y)
      BY <1>1, <1>2, <1>3, ConcatReads
    <2>. QED
      BY <1>3, <2>1
  <1>5. Reads(d \o i \o e, ShownBefore, x \o z) /\ Reads(d \o i \o e, ShownAfter, y \o z)
    BY <1>1, <1>2, <1>3, <1>4, ConcatReads
  <1>6. d \o i \o e \in Seq(Entry) /\ Changed(x, y) \o Marked("equal", z) = d \o i \o e
    BY <1>1, <1>3 DEF Changed, d, i, e
  <1>. QED
    BY <1>5, <1>6

\* A stretch of a text behind what comes before it.
LEMMA Joined ==
  ASSUME NEW t \in Seq(Token), NEW a \in 0 .. Len(t), NEW b \in a .. Len(t)
  PROVE  /\ SubSeq(t, 1, a) \o SubSeq(t, a + 1, b) = SubSeq(t, 1, b)
         /\ b > a => SubSeq(t, a + 1, b - 1) \o <<t[b]>> = SubSeq(t, a + 1, b)
  <1>0. a \in Nat /\ b \in Nat /\ b - a \in Nat /\ (b > a => b - a - 1 \in Nat)
    OBVIOUS
  <1>1. SubSeq(t, 1, a) \in Seq(Token) /\ Len(SubSeq(t, 1, a)) = a
        /\ \A x \in 1 .. a : SubSeq(t, 1, a)[x] = t[x]
    OBVIOUS
  <1>2. SubSeq(t, 1, b) \in Seq(Token) /\ Len(SubSeq(t, 1, b)) = b
        /\ \A x \in 1 .. b : SubSeq(t, 1, b)[x] = t[x]
    OBVIOUS
  <1>3. SubSeq(t, a + 1, b) \in Seq(Token) /\ Len(SubSeq(t, a + 1, b)) = b - a
        /\ \A x \in 1 .. b - a : SubSeq(t, a + 1, b)[x] = t[a + x]
    OBVIOUS
  <1>4. SubSeq(t, 1, a) \o SubSeq(t, a + 1, b) = SubSeq(t, 1, b)
    <2>. DEFINE p == SubSeq(t, 1, a)
                q == SubSeq(t, a + 1, b)
                r == SubSeq(t, 1, b)
    <2>. HIDE DEF p, q, r
    <2>1. /\ p \in Seq(Token) /\ Len(p) = a /\ \A x \in 1 .. a : p[x] = t[x]
          /\ q \in Seq(Token) /\ Len(q) = b - a /\ \A x \in 1 .. b - a : q[x] = t[a + x]
          /\ r \in Seq(Token) /\ Len(r) = b /\ \A x \in 1 .. b : r[x] = t[x]
      BY <1>1, <1>2, <1>3 DEF p, q, r
    <2>2. p \o q \in Seq(Token) /\ Len(p \o q) = b
      BY <2>1
    <2>3. ASSUME NEW x \in 1 .. b PROVE (p \o q)[x] = r[x]
      <3>1. CASE x <= a
        <4>1. x \in 1 .. a
          BY <1>0, <3>1
        <4>2. (p \o q)[x] = p[x]
          BY <2>1, <4>1
        <4>. QED
          BY <2>1, <4>1, <4>2
      <3>2. CASE x > a
        <4>1. x - a \in 1 .. b - a /\ a + (x - a) = x
          BY <1>0, <3>2
        <4>2. (p \o q)[x] = q[x - a]
          BY <1>0, <2>1, <3>2
        <4>. QED
          BY <2>1, <4>1, <4>2
      <3>3. x <= a \/ x > a
        BY <1>0
      <3>. QED
        BY <3>1, <3>2, <3>3, Zenon
    <2>4. p \o q = r
      BY <2>1, <2>2, <2>3
    <2>. QED
      BY <2>4 DEF p, q, r
  <1>5. ASSUME b > a PROVE SubSeq(t, a + 1, b - 1) \o <<t[b]>> = SubSeq(t, a + 1, b)
    <2>. DEFINE p == SubSeq(t, a + 1, b - 1)
                q == SubSeq(t, a + 1, b)
    <2>1. p \in Seq(Token) /\ Len(p) = b - a - 1 /\ \A x \in 1 .. b - a - 1 : p[x] = t[a + x]
      BY <1>5
    <2>2. q \in Seq(Token) /\ Len(q) = b - a /\ \A x \in 1 .. b - a : q[x] = t[a + x]
      BY <1>3
    <2>. HIDE DEF p, q
    <2>3. t[b] \in Token
      BY <1>5
    <2>4. p \o <<t[b]>> \in Seq(Token) /\ Len(p \o <<t[b]>>) = b - a
      BY <2>1, <2>3
    <2>5. ASSUME NEW x \in 1 .. b - a PROVE (p \o <<t[b]>>)[x] = q[x]
      BY <1>5, <2>1, <2>2
    <2>6. p \o <<t[b]>> = q
      <3>. DEFINE l == p \o <<t[b]>>
                  n == b - a
      <3>1. l \in Seq(Token) /\ Len(l) = n /\ q \in Seq(Token) /\ Len(q) = n /\ n \in Nat
            /\ \A x \in 1 .. n : l[x] = q[x]
        BY <1>0, <2>2, <2>4, <2>5
      <3>. HIDE DEF l, n
      <3>2. l = q
        BY <3>1
      <3>. QED
        BY <3>2 DEF l
    <2>. QED
      BY <2>6 DEF p, q
  <1>. QED
    BY <1>4, <1>5

\* The recursion of FlattenSeq, up to the k-th list.
Flattens(parts, g, k) ==
  g = [i \in 1 .. k |-> IF i = 1 THEN parts[i] ELSE g[i - 1] \o parts[i]]

LEMMA FlattenExists ==
  ASSUME NEW parts, NEW n \in Nat
  PROVE  \E g : Flattens(parts, g, n)
  <1>. DEFINE Missing == {k \in Nat : ~\E g : Flattens(parts, g, k)}
  <1>. SUFFICES ASSUME Missing # {} PROVE FALSE
    OBVIOUS
  <1>1. PICK k \in Missing : \A j \in Missing : k <= j
    BY Least
  <1>2. k \in Nat /\ ~\E g : Flattens(parts, g, k)
    OBVIOUS
  <1>3. CASE k = 0
    <2>1. Flattens(parts, [i \in 1 .. 0 |-> 0], 0)
      BY DEF Flattens
    <2>. QED
      BY <1>2, <1>3, <2>1
  <1>4. CASE k # 0
    <2>1. k - 1 \in Nat /\ k - 1 \notin Missing
      BY <1>1, <1>2, <1>4
    <2>2. PICK g : Flattens(parts, g, k - 1)
      BY <2>1
    <2>. DEFINE h == [i \in 1 .. k |-> IF i < k THEN g[i]
                                       ELSE IF i = 1 THEN parts[i] ELSE g[i - 1] \o parts[i]]
    <2>3. ASSUME NEW i \in 1 .. k
          PROVE  h[i] = IF i = 1 THEN parts[i] ELSE h[i - 1] \o parts[i]
      <3>1. i # 1 => i - 1 \in 1 .. k /\ i - 1 < k
        BY <1>2
      <3>2. i # 1 => h[i - 1] = g[i - 1]
        BY <3>1
      <3>3. CASE i < k
        <4>1. i \in 1 .. k - 1
          BY <1>2, <3>3
        <4>2. g[i] = IF i = 1 THEN parts[i] ELSE g[i - 1] \o parts[i]
          BY <2>2, <4>1 DEF Flattens
        <4>. QED
          BY <3>2, <3>3, <4>2
      <3>4. CASE ~(i < k)
        BY <3>2, <3>4
      <3>. QED
        BY <3>3, <3>4
    <2>4. h = [i \in 1 .. k |-> IF i = 1 THEN parts[i] ELSE h[i - 1] \o parts[i]]
      BY <2>3
    <2>5. Flattens(parts, h, k)
      <3>. HIDE DEF h
      <3>. QED
        BY <2>4 DEF Flattens
    <2>. QED
      BY <1>2, <2>5
  <1>. QED
    BY <1>3, <1>4

\* The equal tokens of an alignment ascend in both texts.
LEMMA AlignmentType ==
  ASSUME NEW old \in Seq(Token), NEW new \in Seq(Token), NEW M \in Alignments(old, new)
  PROVE  /\ M \in Seq(Nat \X Nat)
         /\ \A k \in 1 .. Len(M) :
              /\ M[k][1] \in 1 .. Len(old) /\ M[k][2] \in 1 .. Len(new)
              /\ old[M[k][1]] = new[M[k][2]]
         /\ \A k, l \in 1 .. Len(M) : k < l => M[k][1] < M[l][1] /\ M[k][2] < M[l][2]
  <1>. DEFINE Pairs == (DOMAIN old) \X (DOMAIN new)
  <1>1. M \in SeqOf(Pairs, Len(old)) /\ Aligned(M, old, new)
    BY DEF Alignments
  <1>2. PICK m \in 0 .. Len(old) : M \in [1 .. m -> Pairs]
    BY <1>1 DEF SeqOf
  <1>3. M \in Seq(Pairs) /\ Len(M) = m /\ DOMAIN M = 1 .. Len(M)
    BY <1>2
  <1>4. ASSUME NEW k \in 1 .. Len(M) PROVE M[k][1] \in 1 .. Len(old) /\ M[k][2] \in 1 .. Len(new)
    <2>1. M[k] \in Pairs /\ DOMAIN old = 1 .. Len(old) /\ DOMAIN new = 1 .. Len(new)
      BY <1>3
    <2>. QED
      BY <2>1
  <1>5. Pairs \subseteq Nat \X Nat
    OBVIOUS
  <1>6. M \in Seq(Nat \X Nat)
    BY <1>2, <1>5
  <1>. QED
    BY <1>1, <1>3, <1>4, <1>6 DEF Aligned

\* Leaving out the insertions, or the deletions, a diff gives back the text.
LEMMA DiffReads ==
  ASSUME NEW old \in Seq(Token), NEW new \in Seq(Token), NEW M \in Alignments(old, new)
  PROVE  /\ Reads(generate_diff(M, old, new), ShownBefore, old)
         /\ Reads(generate_diff(M, old, new), ShownAfter, new)
  <1>. DEFINE n == Len(M) + 1
              ends == Append(M, <<Len(old) + 1, Len(new) + 1>>)
              start(k) == IF k = 1 THEN <<0, 0>> ELSE ends[k - 1]
              changed(k) == Changed(SubSeq(old, start(k)[1] + 1, ends[k][1] - 1),
                                    SubSeq(new, start(k)[2] + 1, ends[k][2] - 1))
              same(k) == IF k = Len(ends) THEN <<>> ELSE Marked("equal", <<old[ends[k][1]]>>)
              parts == [k \in DOMAIN ends |-> changed(k) \o same(k)]
              o(k) == IF k = 0 THEN 0 ELSE IF k = n THEN Len(old) ELSE M[k][1]
              w(k) == IF k = 0 THEN 0 ELSE IF k = n THEN Len(new) ELSE M[k][2]
  <1>0. /\ M \in Seq(Nat \X Nat)
        /\ \A k \in 1 .. Len(M) : /\ M[k][1] \in 1 .. Len(old) /\ M[k][2] \in 1 .. Len(new)
                                  /\ old[M[k][1]] = new[M[k][2]]
        /\ \A k, l \in 1 .. Len(M) : k < l => M[k][1] < M[l][1] /\ M[k][2] < M[l][2]
    BY AlignmentType
  <1>1. /\ M \in Seq(Nat \X Nat) /\ Len(M) \in Nat /\ n \in Nat /\ n >= 1
        /\ \A k \in 1 .. Len(M) : /\ M[k][1] \in 1 .. Len(old) /\ M[k][2] \in 1 .. Len(new)
                                  /\ old[M[k][1]] = new[M[k][2]]
        /\ \A k, l \in 1 .. Len(M) : k < l => M[k][1] < M[l][1] /\ M[k][2] < M[l][2]
        /\ Len(old) \in Nat /\ Len(new) \in Nat
    <2>1. Len(M) \in Nat /\ n \in Nat /\ n >= 1 /\ Len(old) \in Nat /\ Len(new) \in Nat
      BY <1>0
    <2>. QED
      BY <1>0, <2>1
  <1>2. /\ Len(ends) = n /\ DOMAIN ends = 1 .. n
        /\ \A k \in 1 .. Len(M) : ends[k] = M[k]
        /\ ends[n] = <<Len(old) + 1, Len(new) + 1>>
    <2>1. <<Len(old) + 1, Len(new) + 1>> \in Nat \X Nat
      BY <1>1
    <2>. QED
      BY <1>1, <2>1
  <1>3. generate_diff(M, old, new) = FlattenSeq(parts)
    BY Zenon DEF generate_diff
  <1>4. \A k \in 1 .. n : parts[k] = changed(k) \o same(k)
    BY <1>2
  <1>5. Len(parts) = n
    BY <1>1, <1>2
  <1>. HIDE DEF ends, parts, n
  <1>6. ASSUME NEW k \in 1 .. n
        PROVE  /\ k - 1 \in 0 .. n - 1 /\ k \in 0 .. n
               /\ o(k - 1) \in 0 .. Len(old) /\ o(k) \in o(k - 1) .. Len(old)
               /\ w(k - 1) \in 0 .. Len(new) /\ w(k) \in w(k - 1) .. Len(new)
               /\ start(k)[1] = o(k - 1) /\ start(k)[2] = w(k - 1)
               /\ k # n => k \in 1 .. Len(M) /\ o(k) > o(k - 1) /\ w(k) > w(k - 1)
    <2>1. k \in Nat /\ k - 1 \in Nat /\ k - 1 # n /\ k # 0 /\ (k # n => k \in 1 .. Len(M))
      BY <1>1 DEF n
    <2>2. CASE k = 1
      <3>1. o(k - 1) = 0 /\ w(k - 1) = 0 /\ start(k) = <<0, 0>>
        BY <2>2
      <3>2. k # n => o(k) = M[k][1] /\ w(k) = M[k][2]
        BY <2>1
      <3>3. k = n => o(k) = Len(old) /\ w(k) = Len(new)
        BY <2>1
      <3>4. k # n => M[k][1] \in 1 .. Len(old) /\ M[k][2] \in 1 .. Len(new)
        BY <1>1, <2>1
      <3>5. start(k)[1] = o(k - 1) /\ start(k)[2] = w(k - 1)
        BY <3>1
      <3>. HIDE DEF o, w, start
      <3>6. o(k - 1) \in 0 .. Len(old) /\ w(k - 1) \in 0 .. Len(new)
        BY <1>1, <3>1
      <3>7. o(k) \in o(k - 1) .. Len(old) /\ w(k) \in w(k - 1) .. Len(new)
        BY <1>1, <3>1, <3>2, <3>3, <3>4
      <3>8. k # n => o(k) > o(k - 1) /\ w(k) > w(k - 1)
        BY <3>1, <3>2, <3>4
      <3>. QED
        BY <1>1, <2>1, <3>5, <3>6, <3>7, <3>8
    <2>3. CASE k # 1
      <3>1. k - 1 \in 1 .. Len(M) /\ k - 1 # 0
        BY <1>1, <2>1, <2>3, SMTT(30) DEF n
      <3>2. o(k - 1) = M[k - 1][1] /\ w(k - 1) = M[k - 1][2] /\ start(k) = M[k - 1]
        BY <1>2, <2>1, <2>3, <3>1
      <3>3. k # n => o(k) = M[k][1] /\ w(k) = M[k][2]
        BY <2>1
      <3>4. k = n => o(k) = Len(old) /\ w(k) = Len(new)
        BY <2>1
      <3>5. k # n => M[k - 1][1] < M[k][1] /\ M[k - 1][2] < M[k][2]
        <4>1. k # n => k - 1 < k /\ k \in 1 .. Len(M) /\ k - 1 \in 1 .. Len(M)
          BY <2>1, <3>1
        <4>2. \A i, j \in 1 .. Len(M) : i < j => M[i][1] < M[j][1] /\ M[i][2] < M[j][2]
          BY <1>1
        <4>. QED
          BY <4>1, <4>2, Zenon
      <3>6. /\ k # n => M[k][1] \in 1 .. Len(old) /\ M[k][2] \in 1 .. Len(new)
            /\ M[k - 1][1] \in 1 .. Len(old) /\ M[k - 1][2] \in 1 .. Len(new)
        BY <1>1, <2>1, <3>1
      <3>7. start(k)[1] = o(k - 1) /\ start(k)[2] = w(k - 1)
        BY <3>2
      <3>. HIDE DEF o, w, start
      <3>8. o(k - 1) \in 0 .. Len(old) /\ w(k - 1) \in 0 .. Len(new)
        BY <1>1, <3>2, <3>6
      <3>9. o(k) \in o(k - 1) .. Len(old) /\ w(k) \in w(k - 1) .. Len(new)
        <4>1. CASE k = n
          BY <1>1, <3>2, <3>4, <3>6, <4>1, SMTT(30)
        <4>2. CASE k # n
          <5>1. o(k) > o(k - 1) /\ w(k) > w(k - 1)
            BY <3>2, <3>3, <3>5, <3>6, <4>2
          <5>2. o(k) \in 1 .. Len(old) /\ w(k) \in 1 .. Len(new)
            BY <3>3, <3>6, <4>2
          <5>. QED
            BY <1>1, <3>8, <5>1, <5>2
        <4>. QED
          BY <4>1, <4>2
      <3>10. k # n => o(k) > o(k - 1) /\ w(k) > w(k - 1)
        BY <3>2, <3>3, <3>5, <3>6
      <3>. QED
        BY <1>1, <2>1, <3>7, <3>8, <3>9, <3>10
    <2>. QED
      BY <2>2, <2>3
  <1>7. ASSUME NEW k \in 1 .. n
        PROVE  /\ parts[k] \in Seq(Entry)
               /\ Reads(parts[k], ShownBefore, SubSeq(old, o(k - 1) + 1, o(k)))
               /\ Reads(parts[k], ShownAfter, SubSeq(new, w(k - 1) + 1, w(k)))
    <2>. DEFINE x == SubSeq(old, o(k - 1) + 1, ends[k][1] - 1)
                y == SubSeq(new, w(k - 1) + 1, ends[k][2] - 1)
    <2>1. changed(k) = Changed(x, y)
      BY <1>6
    <2>0. /\ o(k - 1) \in 0 .. Len(old) /\ o(k) \in o(k - 1) .. Len(old)
          /\ w(k - 1) \in 0 .. Len(new) /\ w(k) \in w(k - 1) .. Len(new)
      <3>. HIDE DEF o, w
      <3>. QED
        BY <1>6
    <2>2. CASE k = n
      <3>1. ends[k][1] - 1 = Len(old) /\ ends[k][2] - 1 = Len(new) /\ o(k) = Len(old) /\ w(k) = Len(new)
        BY <1>1, <1>2, <2>2
      <3>2. same(k) = Marked("equal", <<>>)
        BY <1>2, <2>2 DEF Marked
      <3>. HIDE DEF o, w, changed, same
      <3>3. x = SubSeq(old, o(k - 1) + 1, o(k)) /\ y = SubSeq(new, w(k - 1) + 1, w(k))
        BY <3>1
      <3>4. x \in Seq(Token) /\ y \in Seq(Token)
        <4>1. SubSeq(old, o(k - 1) + 1, o(k)) \in Seq(Token) /\ SubSeq(new, w(k - 1) + 1, w(k)) \in Seq(Token)
          BY <2>0
        <4>. HIDE DEF x, y
        <4>. QED
          BY <3>3, <4>1
      <3>. HIDE DEF x, y
      <3>5. parts[k] = Changed(x, y) \o Marked("equal", <<>>)
        BY <1>4, <2>1, <3>2
      <3>6. <<>> \in Seq(Token) /\ x \o <<>> = x /\ y \o <<>> = y
        BY <3>4
      <3>7. /\ parts[k] \in Seq(Entry)
            /\ Reads(parts[k], ShownBefore, x \o <<>>) /\ Reads(parts[k], ShownAfter, y \o <<>>)
        BY <3>4, <3>5, <3>6, PartReads
      <3>. QED
        BY <3>3, <3>6, <3>7
    <2>3. CASE k # n
      <3>1. /\ k \in 1 .. Len(M) /\ ends[k] = M[k] /\ o(k) = M[k][1] /\ w(k) = M[k][2]
            /\ o(k) \in 1 .. Len(old) /\ w(k) \in 1 .. Len(new) /\ old[o(k)] = new[w(k)]
        <4>1. k \in 1 .. Len(M) /\ k # 0
          BY <1>6, <2>3
        <4>. QED
          BY <1>1, <1>2, <2>3, <4>1
      <3>. DEFINE z == <<old[o(k)]>>
      <3>2. same(k) = Marked("equal", z)
        BY <1>2, <2>3, <3>1
      <3>3. o(k) > o(k - 1) /\ w(k) > w(k - 1)
        BY <1>6, <2>3
      <3>. HIDE DEF o, w, changed, same
      <3>4. x = SubSeq(old, o(k - 1) + 1, o(k) - 1) /\ y = SubSeq(new, w(k - 1) + 1, w(k) - 1)
        BY <3>1
      <3>5. z \in Seq(Token) /\ z = <<new[w(k)]>>
        BY <3>1
      <3>6. x \in Seq(Token) /\ y \in Seq(Token)
        <4>1. /\ SubSeq(old, o(k - 1) + 1, o(k) - 1) \in Seq(Token)
              /\ SubSeq(new, w(k - 1) + 1, w(k) - 1) \in Seq(Token)
          BY <2>0, <3>3, SMTT(30)
        <4>. HIDE DEF x, y
        <4>. QED
          BY <3>4, <4>1
      <3>7. x \o z = SubSeq(old, o(k - 1) + 1, o(k))
        BY <2>0, <3>3, <3>4, Joined
      <3>9. SubSeq(new, w(k - 1) + 1, w(k) - 1) \o <<new[w(k)]>> = SubSeq(new, w(k - 1) + 1, w(k))
        BY <2>0, <3>3, Joined
      <3>10. y \o z = SubSeq(new, w(k - 1) + 1, w(k))
        <4>. HIDE DEF z
        <4>. QED
          BY <3>4, <3>5, <3>9
      <3>. HIDE DEF x, y, z
      <3>8. parts[k] = Changed(x, y) \o Marked("equal", z)
        BY <1>4, <2>1, <3>2
      <3>. QED
        BY <3>5, <3>6, <3>7, <3>8, <3>10, PartReads
    <2>. QED
      BY <2>2, <2>3
  <1>. HIDE DEF o, w, start, changed, same
  <1>. DEFINE flat == CHOOSE g : Flattens(parts, g, n)
  <1>8. FlattenSeq(parts) = flat[n]
    BY <1>1, <1>5 DEF FlattenSeq, Flattens
  <1>9. Flattens(parts, flat, n)
    BY <1>1, FlattenExists
  <1>. HIDE DEF flat
  <1>10. \A k \in 1 .. n : flat[k] = IF k = 1 THEN parts[k] ELSE flat[k - 1] \o parts[k]
    BY <1>9 DEF Flattens
  <1>. DEFINE Right(k) == /\ flat[k] \in Seq(Entry)
                          /\ Reads(flat[k], ShownBefore, SubSeq(old, 1, o(k)))
                          /\ Reads(flat[k], ShownAfter, SubSeq(new, 1, w(k)))
              Wrong == {k \in 1 .. n : ~Right(k)}
  <1>11. Wrong = {}
    <2>. SUFFICES ASSUME Wrong # {} PROVE FALSE
      OBVIOUS
    <2>1. PICK k \in Wrong : \A j \in Wrong : k <= j
      <3>1. Wrong \in SUBSET Nat
        BY <1>1
      <3>. QED
        BY <3>1, Least
    <2>2. k \in 1 .. n /\ ~Right(k)
      OBVIOUS
    <2>3. CASE k = 1
      <3>1. flat[k] = parts[k] /\ k - 1 = 0
        BY <1>10, <2>2, <2>3
      <3>2. o(0) = 0 /\ w(0) = 0
        BY DEF o, w
      <3>3. o(k - 1) + 1 = 1 /\ w(k - 1) + 1 = 1
        BY <3>1, <3>2
      <3>. QED
        BY <1>7, <2>2, <3>1, <3>3
    <2>4. CASE k # 1
      <3>. DEFINE before == flat[k - 1]
                  last == parts[k]
      <3>1. k - 1 \in 1 .. n /\ k - 1 < k
        BY <1>1, <2>2, <2>4
      <3>2. k - 1 \notin Wrong
        BY <2>1, <2>2, <3>1
      <3>3. Right(k - 1)
        BY <3>1, <3>2
      <3>4. flat[k] = before \o last
        BY <1>10, <2>2, <2>4
      <3>5. /\ before \in Seq(Entry) /\ last \in Seq(Entry)
            /\ Reads(before, ShownBefore, SubSeq(old, 1, o(k - 1)))
            /\ Reads(before, ShownAfter, SubSeq(new, 1, w(k - 1)))
            /\ Reads(last, ShownBefore, SubSeq(old, o(k - 1) + 1, o(k)))
            /\ Reads(last, ShownAfter, SubSeq(new, w(k - 1) + 1, w(k)))
        BY <1>7, <2>2, <3>3
      <3>. HIDE DEF before, last
      <3>6. /\ o(k - 1) \in 0 .. Len(old) /\ o(k) \in o(k - 1) .. Len(old)
            /\ w(k - 1) \in 0 .. Len(new) /\ w(k) \in w(k - 1) .. Len(new)
        BY <1>6, <2>2
      <3>7. /\ SubSeq(old, 1, o(k - 1)) \in Seq(Token) /\ SubSeq(old, o(k - 1) + 1, o(k)) \in Seq(Token)
            /\ SubSeq(new, 1, w(k - 1)) \in Seq(Token) /\ SubSeq(new, w(k - 1) + 1, w(k)) \in Seq(Token)
        BY <3>6, SMTT(30)
      <3>8. /\ Reads(before \o last, ShownBefore, SubSeq(old, 1, o(k - 1)) \o SubSeq(old, o(k - 1) + 1, o(k)))
            /\ Reads(before \o last, ShownAfter, SubSeq(new, 1, w(k - 1)) \o SubSeq(new, w(k - 1) + 1, w(k)))
        BY <3>5, <3>7, ConcatReads
      <3>9. /\ SubSeq(old, 1, o(k - 1)) \o SubSeq(old, o(k - 1) + 1, o(k)) = SubSeq(old, 1, o(k))
            /\ SubSeq(new, 1, w(k - 1)) \o SubSeq(new, w(k - 1) + 1, w(k)) = SubSeq(new, 1, w(k))
        BY <3>6, Joined
      <3>10. before \o last \in Seq(Entry)
        BY <3>5
      <3>. QED
        BY <2>2, <3>4, <3>8, <3>9, <3>10
    <2>. QED
      BY <2>3, <2>4
  <1>12. n \in 1 .. n
    BY <1>1
  <1>13. Right(n)
    BY <1>11, <1>12
  <1>14. o(n) = Len(old) /\ w(n) = Len(new)
    BY <1>1 DEF o, w
  <1>15. SubSeq(old, 1, Len(old)) = old /\ SubSeq(new, 1, Len(new)) = new
    OBVIOUS
  <1>. QED
    BY <1>3, <1>8, <1>13, <1>14, <1>15

-----------------------------------------------------------------------------
(* The stages of the report *)

\* The stages call rewrite_all and leave its state alone: its properties are
\* theirs.
THEOREM StagesRewrite == SpecStages => Spec
  <1>1. InitStages => Init
    BY DEF InitStages
  <1>2. [NextStages]_<<vars, stageVars>> => [Next]_vars
    <2>1. CASE Rewriting
      BY <2>1 DEF Rewriting
    <2>2. CASE AttachDiffs
      BY <2>2 DEF AttachDiffs
    <2>3. CASE CollectRaises
      BY <2>3 DEF CollectRaises
    <2>4. CASE Assemble
      BY <2>4 DEF Assemble
    <2>5. CASE \E f \in Finding : ApplyRewrite(f)
      BY <2>5 DEF ApplyRewrite
    <2>. QED
      BY <2>1, <2>2, <2>3, <2>4, <2>5 DEF NextStages
  <1>. QED
    BY <1>1, <1>2, PTL DEF SpecStages, Spec

\* So no report carries a rewrite that its validator did not approve, and no
\* prompt the feedback of another finding.
THEOREM ReportsApproved == SpecStages => [](AdoptedIsApproved /\ FeedbackIsLatest)
  BY StagesRewrite, OnlyApprovedAdopted, FeedbackNotStale, PTL

\* The turn of f puts its own rewrite where its clause stood.
LEMMA OwnTurn ==
  ASSUME StagesInv, NEW f \in Finding, ApplyRewrite(f), Placed(f)
  PROVE  Placed(f)'
  <1>1. clause[f] \in Seq(Char) /\ wording[f] \in Seq(Char) /\ full \in Seq(Char)
    BY DEF StagesInv, ApplyRewrite, AllText
  <1>2. clause[f] \in SubSeqs(full)
    BY DEF Placed, ApplyRewrite
  <1>3. wording[f] \in SubSeqs(full')
    BY <1>1, <1>2, ReplacedOccurs DEF ApplyRewrite, Applied
  <1>. QED
    BY <1>3 DEF Placed, ApplyRewrite

\* The turn of f leaves an independent g where it is.
LEMMA OthersTurn ==
  ASSUME StagesInv, NEW f \in Finding, ApplyRewrite(f),
         NEW g \in Rewritten, g # f, Independent(g), Placed(g)
  PROVE  Placed(g)'
  <1>. DEFINE here == IF g \in applied THEN wording[g] ELSE clause[g]
  <1>1. g \in Finding /\ f \in Rewritten \ {g}
    BY DEF Rewritten, ApplyRewrite
  <1>2. /\ clause[f] \in Seq(Char) /\ wording[f] \in Seq(Char) /\ full \in Seq(Char)
        /\ clause[g] \in Seq(Char) /\ wording[g] \in Seq(Char)
    BY <1>1 DEF StagesInv, ApplyRewrite, AllText
  <1>3. ~Meets(clause[f], clause[g]) /\ ~Meets(clause[f], wording[g])
    BY <1>1 DEF Independent
  <1>4. here \in Seq(Char) /\ ~Meets(clause[f], here)
    BY <1>2, <1>3
  <1>5. here \in SubSeqs(full)
    BY DEF Placed
  <1>. HIDE DEF here
  <1>6. here \in SubSeqs(full')
    BY <1>2, <1>4, <1>5, OthersOccur DEF ApplyRewrite, Applied
  <1>7. clause' = clause /\ wording' = wording /\ (g \in applied' <=> g \in applied)
    BY DEF ApplyRewrite
  <1>. QED
    BY <1>6, <1>7 DEF Placed, here

LEMMA SubSeqsType ==
  ASSUME NEW t \in Seq(Char), NEW s \in SubSeqs(t)
  PROVE  s \in Seq(Char)
  <1>1. PICK i \in 0 .. Len(t), j \in 0 .. Len(t) : s = SubSeq(t, i + 1, j)
    BY DEF SubSeqs
  <1>. QED
    BY <1>1

\* The turn of f leaves what no clause meets where it is.
LEMMA UnmetTurn ==
  ASSUME StagesInv, NEW f \in Finding, ApplyRewrite(f), UnmetStays
  PROVE  UnmetStays'
  <1>1. /\ f \in Rewritten /\ Rewritten' = Rewritten /\ clause' = clause
        /\ clause[f] \in Seq(Char) /\ wording[f] \in Seq(Char) /\ full \in Seq(Char)
    BY DEF StagesInv, ApplyRewrite, AllText, Rewritten
  <1>2. ASSUME NEW text \in SubSeqs(Contract), \A g \in Rewritten : ~Meets(clause[g], text)
        PROVE  text \in SubSeqs(full')
    <2>1. text \in Seq(Char)
      BY WordingAssumption, SubSeqsType DEF WordingAssumption
    <2>2. text \in SubSeqs(full)
      BY <1>2 DEF UnmetStays
    <2>. QED
      BY <1>1, <1>2, <2>1, <2>2, OthersOccur DEF ApplyRewrite, Applied
  <1>. QED
    BY <1>1, <1>2 DEF UnmetStays

\* No findings yet: the text is the contract.
LEMMA NothingChangedYet ==
  ASSUME NEW w, full' = Contract, applied' = {}
  PROVE  KeptBut(applied, w)'
  <1>1. Count(w, Contract) \in Nat
    BY WordingAssumption, Counted DEF WordingAssumption
  <1>2. \A texts : CountAll(w, texts, {}) = 0
    BY FS_EmptySet DEF CountAll
  <1>3. CountAll(w, clause', applied') = 0 /\ CountAll(w, wording', applied') = 0
    BY <1>2
  <1>4. KeptBut(applied, w)' =
          (Count(w, full') \in Count(w, Contract) - CountAll(w, clause', applied') ..
                               Count(w, Contract) + CountAll(w, wording', applied'))
    BY DEF KeptBut, Count, Places, CountAll
  <1>5. Count(w, full') = Count(w, Contract)
    OBVIOUS
  <1>6. Count(w, full') \in Count(w, Contract) - CountAll(w, clause', applied') ..
                            Count(w, Contract) + CountAll(w, wording', applied')
    BY <1>1, <1>3, <1>5
  <1>. QED
    BY <1>4, <1>6

\* A turn takes the clause of its finding at most, and adds its rewrite at most.
LEMMA TurnKeeps ==
  ASSUME StagesInv, NEW f \in Finding, ApplyRewrite(f), NEW w, KeptBut(applied, w)
  PROVE  KeptBut(applied, w)'
  <1>1. /\ clause[f] \in Seq(Char) /\ wording[f] \in Seq(Char) /\ full \in Seq(Char)
        /\ \A g \in Finding : clause[g] \in Seq(Char) /\ wording[g] \in Seq(Char)
        /\ applied \in SUBSET Finding /\ f \in Finding \ applied
    BY DEF StagesInv, ApplyRewrite, AllText
  <1>2. \/ Count(w, full') = Count(w, full)
        \/ Count(w, full') = Count(w, full) - Count(w, clause[f]) + Count(w, wording[f])
    <2>1. full' = ReplaceFirstSubSeq(wording[f], clause[f], full)
      BY DEF ApplyRewrite, Applied
    <2>2. CASE clause[f] \notin SubSeqs(full)
      BY <2>1, <2>2 DEF ReplaceFirstSubSeq
    <2>3. CASE clause[f] \in SubSeqs(full)
      <3>1. full' \in Seq(Char) /\ \E k \in Nat : Replaces(wording[f], clause[f], full, full', k)
        BY <1>1, <2>1, <2>3, Replacement
      <3>. QED
        BY <1>1, <3>1, ReplacedCount
    <2>. QED
      BY <2>2, <2>3
  <1>3. Count(w, full) \in Nat /\ Count(w, clause[f]) \in Nat /\ Count(w, wording[f]) \in Nat
    BY <1>1, Counted
  <1>4. Count(w, Contract) \in Nat
    BY WordingAssumption, Counted DEF WordingAssumption
  <1>5. /\ CountAll(w, clause, applied) \in Nat
        /\ CountAll(w, clause, applied \cup {f}) = CountAll(w, clause, applied) + Count(w, clause[f])
    BY <1>1, CountedOnce
  <1>6. /\ CountAll(w, wording, applied) \in Nat
        /\ CountAll(w, wording, applied \cup {f}) = CountAll(w, wording, applied) + Count(w, wording[f])
    BY <1>1, CountedOnce
  <1>7. Count(w, full) \in Count(w, Contract) - CountAll(w, clause, applied) ..
                           Count(w, Contract) + CountAll(w, wording, applied)
    BY DEF KeptBut
  <1>8. Count(w, full') \in Count(w, Contract) - CountAll(w, clause, applied \cup {f}) ..
                            Count(w, Contract) + CountAll(w, wording, applied \cup {f})
    BY <1>2, <1>3, <1>4, <1>5, <1>6, <1>7
  <1>9. clause' = clause /\ wording' = wording /\ applied' = applied \cup {f}
    BY DEF ApplyRewrite
  <1>10. KeptBut(applied, w)' =
           (Count(w, full') \in Count(w, Contract) - CountAll(w, clause', applied') ..
                                Count(w, Contract) + CountAll(w, wording', applied'))
    BY DEF KeptBut, Count, Places, CountAll
  <1>. QED
    BY <1>8, <1>9, <1>10

\* Throughout the stages independent rewrites and unmet stretches stand where
\* they should.
THEOREM StagesInvariant == SpecStages => []StagesInv
  <1>. USE WordingAssumption
  <1>1. InitStages => StagesInv
    <2>. SUFFICES ASSUME InitStages PROVE StagesInv
      OBVIOUS
    <2>1. PICK drafts \in [Finding -> Draft] :
             /\ clause = [f \in Finding |-> drafts[f].clause]
             /\ wording = [f \in Finding |-> drafts[f].rewrite]
      BY DEF InitStages
    <2>2. \A f \in Finding : drafts[f].clause \in Seq(Char) /\ drafts[f].rewrite \in Seq(Char)
      <3>. TAKE f \in Finding
      <3>1. drafts[f] \in [clause : Seq(Char), rewrite : Seq(Char)]
        OBVIOUS
      <3>. QED
        BY <3>1
    <2>. QED
      BY <2>1, <2>2 DEF InitStages, StagesInv
  <1>2. StagesInv /\ [NextStages]_<<vars, stageVars>> => StagesInv'
    <2>. SUFFICES ASSUME StagesInv, [NextStages]_<<vars, stageVars>> PROVE StagesInv'
      OBVIOUS
    <2>1. CASE Rewriting
      <3>1. PICK text \in Wording \cup {<<>>} :
               \A f \in Finding : wording'[f] \in {text, wording[f]}
        BY <2>1 DEF Rewriting
      <3>2. wording' \in [Finding -> Seq(Char) \cup {NonText}]
        <4>1. DOMAIN wording' = Finding /\ wording' = [f \in Finding |-> wording'[f]]
          BY <2>1 DEF Rewriting
        <4>2. text \in Seq(Char) \cup {NonText}
          <5>1. <<>> \in Seq(Char) /\ Wording \subseteq Seq(Char) \cup {NonText}
            OBVIOUS
          <5>. QED
            BY <3>1, <5>1, Zenon
        <4>3. \A f \in Finding : wording'[f] \in Seq(Char) \cup {NonText}
          BY <3>1, <4>2 DEF StagesInv
        <4>. QED
          BY <4>1, <4>3
      <3>. QED
        BY <2>1, <3>2 DEF Rewriting, StagesInv
    <2>2. CASE AttachDiffs
      <3>1. /\ stage' \in {"raised", "build"} /\ UNCHANGED <<clause, wording, full, applied>>
            /\ applied = {} /\ full = Contract
        BY <2>2 DEF AttachDiffs, StagesInv
      <3>2. \A f \in Finding : clause[f] \in SubSeqs(Contract) => Placed(f)'
        BY <3>1 DEF Placed
      <3>3. Rewritten' \subseteq Finding
        BY DEF Rewritten
      <3>4. UnmetStays'
        BY <3>1 DEF UnmetStays
      <3>. QED
        BY <3>1, <3>2, <3>3, <3>4 DEF StagesInv
    <2>3. CASE CollectRaises
      BY <2>3 DEF CollectRaises, StagesInv
    <2>4. CASE Assemble
      BY <2>4 DEF Assemble, StagesInv, AllText, Rewritten, Independent, Placed, UnmetStays
    <2>5. CASE \E f \in Finding : ApplyRewrite(f)
      <3>1. PICK f \in Finding : ApplyRewrite(f)
        BY <2>5
      <3>2. /\ clause' = clause /\ wording' = wording /\ stage' = stage
            /\ stage = "build" /\ AllText /\ applied' = applied \cup {f}
        BY <3>1 DEF ApplyRewrite
      <3>3. Rewritten' = Rewritten /\ (AllText)' = AllText
        BY <3>2 DEF Rewritten, AllText
      <3>4. full' \in Seq(Char)
        <4>1. clause[f] \in Seq(Char) /\ wording[f] \in Seq(Char) /\ full \in Seq(Char)
          BY <3>2 DEF StagesInv, AllText
        <4>2. CASE clause[f] \in SubSeqs(full)
          BY <3>1, <4>1, <4>2, Replacement DEF ApplyRewrite, Applied
        <4>3. CASE clause[f] \notin SubSeqs(full)
          BY <3>1, <4>1, <4>3 DEF ApplyRewrite, Applied, ReplaceFirstSubSeq
        <4>. QED
          BY <4>2, <4>3
      <3>5. ASSUME NEW g \in Rewritten', clause'[g] \in SubSeqs(Contract), Independent(g)'
            PROVE  Placed(g)'
        <4>1. g \in Rewritten /\ Independent(g)
          BY <3>2, <3>3, <3>5 DEF Independent
        <4>2. Placed(g)
          BY <3>2, <3>5, <4>1 DEF StagesInv
        <4>. QED
          BY <3>1, <4>1, <4>2, OwnTurn, OthersTurn
      <3>6. UnmetStays'
        BY <3>1, <3>2, UnmetTurn DEF StagesInv
      <3>. QED
        BY <3>2, <3>3, <3>4, <3>5, <3>6 DEF StagesInv
    <2>6. CASE UNCHANGED <<vars, stageVars>>
      BY <2>6 DEF stageVars, StagesInv, AllText, Rewritten, Independent, Placed, UnmetStays
    <2>. QED
      BY <2>1, <2>2, <2>3, <2>4, <2>5, <2>6 DEF NextStages
  <1>. QED
    BY <1>1, <1>2, PTL DEF SpecStages

\* In every full text the report gives, each rewrite whose clause stands in the
\* contract and that no other one meets is applied, whatever became of the
\* others, for any contract and any number of findings.
THEOREM IndependentApplied == SpecStages => []IndependentRewritesApplied
  <1>1. StagesInv => IndependentRewritesApplied
    <2>. SUFFICES ASSUME StagesInv, stage = "built", NEW f \in Rewritten,
                         clause[f] \in SubSeqs(Contract), Independent(f)
                  PROVE  wording[f] \in SubSeqs(full)
      BY DEF IndependentRewritesApplied
    <2>1. AllText /\ applied = Rewritten
      BY DEF StagesInv
    <2>2. Placed(f)
      BY <2>1 DEF StagesInv
    <2>. QED
      BY <2>1, <2>2 DEF Placed
  <1>. QED
    BY <1>1, StagesInvariant, PTL

\* attach_diffs attaches readable diffs, and nothing touches one afterwards.
LEMMA DiffsStay ==
  ASSUME StagesInv, DiffReadsBothWays, [NextStages]_<<vars, stageVars>>
  PROVE  DiffReadsBothWays'
  <1>1. CASE Rewriting
    BY <1>1 DEF Rewriting, DiffReadsBothWays
  <1>2. CASE AttachDiffs
    <2>. DEFINE due == {f \in Finding : wording[f] # <<>> /\ clause[f] # <<>>}
    <2>1. stage = "rewrite" /\ diff = [f \in Finding |-> <<>>] /\ UNCHANGED <<clause, wording>>
      BY <1>2 DEF AttachDiffs, StagesInv
    <2>2. CASE \E f \in due : wording[f] = NonText
      BY <1>2, <2>2 DEF AttachDiffs, DiffReadsBothWays
    <2>3. CASE ~ \E f \in due : wording[f] = NonText
      <3>1. PICK d \in [due -> UNION {Diffs(f) : f \in due}] :
               /\ \A f \in due : d[f] \in Diffs(f)
               /\ diff' = [f \in Finding |-> IF f \in due THEN d[f] ELSE diff[f]]
        BY <1>2, <2>3 DEF AttachDiffs
      <3>2. ASSUME NEW f \in Finding \ due PROVE diff'[f] = <<>>
        BY <2>1, <3>1
      <3>3. ASSUME NEW f \in due
            PROVE  /\ Reads(diff'[f], {"equal", "delete"}, Tokens(clause[f]))
                   /\ Reads(diff'[f], {"equal", "insert"}, Tokens(wording[f]))
        <4>1. f \in Finding /\ clause[f] \in Seq(Char) /\ wording[f] \in Seq(Char)
          BY <2>3 DEF StagesInv
        <4>2. diff'[f] \in Diffs(f)
          BY <3>1, <4>1
        <4>. DEFINE old == Tokens(clause[f])
                    new == Tokens(wording[f])
        <4>3. PICK M \in Alignments(old, new) : diff'[f] = generate_diff(M, old, new)
          BY <4>2 DEF Diffs
        <4>5. old \in Seq(Token) /\ new \in Seq(Token)
          BY <4>1, TokensType
        <4>. HIDE DEF old, new
        <4>4. /\ Reads(generate_diff(M, old, new), ShownBefore, old)
              /\ Reads(generate_diff(M, old, new), ShownAfter, new)
          BY <4>5, DiffReads
        <4>. QED
          BY <4>3, <4>4, Zenon DEF ShownBefore, ShownAfter, old, new
      <3>4. \A f \in due : wording[f] \notin {<<>>, NonText} /\ clause[f] # <<>>
        BY <2>3
      <3>5. \A f \in Finding \ due : wording[f] = <<>> \/ clause[f] = <<>>
        OBVIOUS
      <3>. HIDE DEF due
      <3>6. \A f \in Finding :
               IF wording'[f] \in {<<>>, NonText} \/ clause'[f] = <<>> THEN diff'[f] = <<>>
               ELSE /\ Reads(diff'[f], {"equal", "delete"}, Tokens(clause'[f]))
                    /\ Reads(diff'[f], {"equal", "insert"}, Tokens(wording'[f]))
        <4>. TAKE f \in Finding
        <4>1. CASE f \in due
          BY <2>1, <3>3, <3>4, <4>1
        <4>2. CASE f \notin due
          BY <2>1, <3>2, <3>5, <4>2
        <4>. QED
          BY <4>1, <4>2
      <3>. QED
        BY <3>6 DEF DiffReadsBothWays, Reads
    <2>. QED
      BY <2>2, <2>3
  <1>3. CASE CollectRaises
    BY <1>3 DEF CollectRaises, DiffReadsBothWays
  <1>4. CASE Assemble
    BY <1>4 DEF Assemble, DiffReadsBothWays
  <1>5. CASE \E f \in Finding : ApplyRewrite(f)
    BY <1>5 DEF ApplyRewrite, DiffReadsBothWays
  <1>6. CASE UNCHANGED <<vars, stageVars>>
    BY <1>6 DEF stageVars, DiffReadsBothWays
  <1>. QED
    BY <1>1, <1>2, <1>3, <1>4, <1>5, <1>6 DEF NextStages

\* What the text owes to the rewrites is kept by every step.
LEMMA ChangesStep ==
  ASSUME StagesInv, ChangesInv, [NextStages]_<<vars, stageVars>>
  PROVE  ChangesInv'
  <1>1. CASE Rewriting
    BY <1>1 DEF Rewriting, StagesInv, ChangesInv
  <1>2. CASE AttachDiffs
    <2>1. full' = Contract /\ applied' = {}
      BY <1>2 DEF AttachDiffs, StagesInv
    <2>2. \A w \in Char : KeptBut(applied, w)'
      BY <2>1, NothingChangedYet
    <2>. QED
      BY <2>2 DEF ChangesInv
  <1>3. CASE CollectRaises
    BY <1>3 DEF CollectRaises, ChangesInv
  <1>4. CASE Assemble
    BY <1>4 DEF Assemble, ChangesInv, AllText, KeptBut
  <1>5. CASE \E f \in Finding : ApplyRewrite(f)
    <2>1. PICK f \in Finding : ApplyRewrite(f)
      BY <1>5
    <2>2. \A w \in Char : KeptBut(applied, w)
      BY <2>1 DEF ApplyRewrite, ChangesInv
    <2>3. \A w \in Char : KeptBut(applied, w)'
      BY <2>1, <2>2, TurnKeeps
    <2>. QED
      BY <2>3 DEF ChangesInv
  <1>6. CASE UNCHANGED <<vars, stageVars>>
    BY <1>6 DEF stageVars, ChangesInv, AllText, KeptBut
  <1>. QED
    BY <1>1, <1>2, <1>3, <1>4, <1>5, <1>6 DEF NextStages

\* The inductive invariant of the report: where independent rewrites stand, what
\* the text owes to rewrites, and the diffs.
THEOREM ReportInvariant == SpecStages => []ReportInv
  <1>1. InitStages => ChangesInv /\ DiffReadsBothWays
    BY DEF InitStages, ChangesInv, DiffReadsBothWays
  <1>2. StagesInv /\ (ChangesInv /\ DiffReadsBothWays) /\ [NextStages]_<<vars, stageVars>>
          => (ChangesInv /\ DiffReadsBothWays)'
    BY ChangesStep, DiffsStay
  <1>3. StagesInv /\ (ChangesInv /\ DiffReadsBothWays) => ReportInv
    BY DEF ReportInv
  <1>. QED
    BY <1>1, <1>2, <1>3, StagesInvariant, PTL DEF SpecStages

\* For any clauses and rewrites, however difflib aligns them, the diff of a
\* finding reads as its clause and as the rewrite it was given.
THEOREM DiffsReadBothWays == SpecStages => []DiffReadsBothWays
  <1>1. ReportInv => DiffReadsBothWays
    BY DEF ReportInv
  <1>. QED
    BY <1>1, ReportInvariant, PTL

\* For any contract and any number of rewrites, found or not, overlapping or
\* not, no character of the full text comes or goes but for a rewrite, and what no
\* clause meets stays as the contract has it.
THEOREM OnlyRewritesChangeText == SpecStages => []NothingElseChanges
  <1>1. ReportInv => NothingElseChanges
    <2>. SUFFICES ASSUME ReportInv, stage = "built"
                  PROVE  UnmetStays /\ \A c \in ToSet(Contract) \cup ToSet(full) : KeptBut(Rewritten, c)
      BY DEF NothingElseChanges
    <2>1. AllText /\ applied = Rewritten /\ full \in Seq(Char) /\ UnmetStays
      BY DEF ReportInv, StagesInv
    <2>2. ToSet(Contract) \cup ToSet(full) \subseteq Char
      BY <2>1, WordingAssumption DEF WordingAssumption, ToSet
    <2>. QED
      BY <2>1, <2>2 DEF ReportInv, ChangesInv
  <1>. QED
    BY <1>1, ReportInvariant, PTL
=============================================================================
