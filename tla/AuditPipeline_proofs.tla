------------------------ MODULE AuditPipeline_proofs ------------------------
(***************************************************************************)
(* Proofs about AuditPipeline and the score that it gives, for any         *)
(* analyzers, any number of findings on any clauses, and any weights that  *)
(* charge a point per finding.                                             *)
(***************************************************************************)
EXTENDS AuditPipeline, FindingMerge_proofs, WellFoundedInduction

-----------------------------------------------------------------------------
(* RCS *)

\* The total pays for every finding, no finding means no rounding, and a score
\* that was set is one of those the findings allow.
RCSInv ==
  /\ ScoreTypeOK
  /\ total >= 10 * Count
  /\ Count = 0 => total = 0 /\ exact
  /\ score # -1 => score \in Scores

\* One step of the loop adds one finding.
LEMMA CountGrows ==
  ASSUME ScoreTypeOK, NEW s \in Severity, counts' = [counts EXCEPT ![s] = @ + 1]
  PROVE  /\ Count \in Nat
         /\ Count' = Count + 1
         /\ counts' \in [Severity -> Nat]
         /\ counts'["critical"] \in {counts["critical"], counts["critical"] + 1}
  BY DEF ScoreTypeOK, Count, Severity

\* A score is between 0 and 100, at most the floor of what is left, and within
\* a point of it unless a cap applies.
LEMMA ScoresBound ==
  ASSUME total \in Nat, NEW c \in Nat, exact \in BOOLEAN,
         NEW p \in Truncations(total, exact)
  PROVE  /\ p \in 0 .. 100
         /\ p <= RawScore(total) \div 10
         /\ Capped(p, c) \in 0 .. 100
         /\ Capped(p, c) <= p
  <1>1. RawScore(total) \in 0 .. 1000
    BY DEF RawScore
  <1>2. RawScore(total) \div 10 \in 0 .. 100 
    BY <1>1
  <1>3. ASSUME RawScore(total) > 0, RawScore(total) % 10 = 0
        PROVE  RawScore(total) \div 10 >= 1
    BY <1>1, <1>3
  <1>4. p \in 0 .. 100 /\ p <= RawScore(total) \div 10
    BY <1>2, <1>3 DEF Truncations
  <1>. QED
    BY <1>4 DEF Capped

LEMMA ScoreInit == InitScore => RCSInv
  BY DEF InitScore, RCSInv, ScoreTypeOK, Count, Severity

LEMMA ScoreStep == RCSInv /\ [NextScore]_scoreVars => RCSInv'
  <1>. SUFFICES ASSUME RCSInv, [NextScore]_scoreVars PROVE RCSInv'
    OBVIOUS
  <1>1. ASSUME NEW s \in Severity, NEW c \in Category, AddFinding(s, c) PROVE RCSInv'
    <2>1. Weighted(s, c) \in Nat /\ Weighted(s, c) >= 10
      BY WeightAssumption
    <2>2. /\ Count \in Nat
          /\ Count' = Count + 1
          /\ counts' \in [Severity -> Nat]
      BY <1>1, CountGrows DEF AddFinding, RCSInv
    <2>3. total' \in Nat /\ total' >= 10 * Count'
      BY <1>1, <2>1, <2>2 DEF AddFinding, RCSInv, ScoreTypeOK
    <2>4. exact' \in BOOLEAN /\ score' = -1
      BY <1>1 DEF AddFinding, RCSInv, ScoreTypeOK
    <2>. QED
      BY <2>2, <2>3, <2>4 DEF RCSInv, ScoreTypeOK
  <1>2. CASE Finish
    <2>1. counts["critical"] \in Nat
      BY DEF RCSInv, ScoreTypeOK, Severity
    <2>2. Scores' = Scores /\ Count' = Count
      BY <1>2 DEF Finish, Scores, Count
    <2>3. score' \in 0 .. 100
      BY <1>2, <2>1, ScoresBound DEF Finish, Scores, RCSInv, ScoreTypeOK
    <2>. QED
      BY <1>2, <2>2, <2>3 DEF Finish, RCSInv, ScoreTypeOK
  <1>3. CASE UNCHANGED scoreVars
    BY <1>3 DEF scoreVars, RCSInv, ScoreTypeOK, Scores, Count
  <1>. QED
    BY <1>1, <1>2, <1>3 DEF NextScore

\* At every turn of the loop the deduction is at least a point for each finding.
THEOREM ScoreInvariant == SpecScore => []RCSInv
  BY ScoreInit, ScoreStep, PTL DEF SpecScore

\* Types, for every state of every run.
THEOREM ScoreTypeCorrect == SpecScore => []ScoreTypeOK
  <1>1. RCSInv => ScoreTypeOK
    BY DEF RCSInv
  <1>. QED
    BY <1>1, ScoreInvariant, PTL

LEMMA ScoreBounds == RCSInv => ScoreInRange /\ CriticalsDecideTheLabel
  <1>1. RCSInv => ScoreInRange
    <2>. SUFFICES ASSUME RCSInv, score # -1
                  PROVE  score \in 0 .. 100 /\ (score = 100 <=> Count = 0)
      BY DEF ScoreInRange
    <2>1. Count \in Nat /\ counts["critical"] \in Nat /\ counts["critical"] <= Count
      BY DEF RCSInv, ScoreTypeOK, Count, Severity
    <2>2. PICK p \in Truncations(total, exact) : score = Capped(p, counts["critical"])
      BY DEF RCSInv, Scores
    <2>3. p \in 0 .. 100 /\ score \in 0 .. 100 /\ score <= p /\ p <= RawScore(total) \div 10
      BY <2>1, <2>2, ScoresBound DEF RCSInv, ScoreTypeOK
    <2>4. CASE Count = 0
      <3>1. total = 0 /\ exact /\ counts["critical"] = 0
        BY <2>1, <2>4 DEF RCSInv
      <3>2. p = 100
        BY <3>1 DEF Truncations, RawScore
      <3>. QED
        BY <2>2, <2>4, <3>1, <3>2 DEF Capped
    <2>5. CASE Count # 0
      <3>1. total >= 10 /\ total \in Nat
        BY <2>1, <2>5 DEF RCSInv, ScoreTypeOK
      <3>2. RawScore(total) \in 0 .. 990
        BY <3>1 DEF RawScore
      <3>3. RawScore(total) \div 10 <= 99
        BY <3>2
      <3>4. RawScore(total) \div 10 \in Int
        BY <3>2
      <3>5. score <= 99
        BY <2>3, <3>3, <3>4
      <3>. QED
        BY <2>3, <2>5, <3>5
    <2>. QED
      BY <2>4, <2>5
  <1>2. RCSInv => CriticalsDecideTheLabel
    <2>. SUFFICES ASSUME RCSInv, score # -1 PROVE CriticalsDecideTheLabel
      BY DEF CriticalsDecideTheLabel
    <2>1. counts["critical"] \in Nat
      BY DEF RCSInv, ScoreTypeOK, Severity
    <2>2. PICK p \in Truncations(total, exact) : score = Capped(p, counts["critical"])
      BY DEF RCSInv, Scores
    <2>3. p \in 0 .. 100
      BY <2>1, ScoresBound DEF RCSInv, ScoreTypeOK
    <2>. QED
      BY <2>1, <2>2, <2>3 DEF CriticalsDecideTheLabel, Capped, score_to_label
  <1>. QED
    BY <1>1, <1>2

\* The schema's bounds, and 100 for contracts without findings only.
THEOREM InRange == SpecScore => []ScoreInRange
  BY ScoreInvariant, ScoreBounds, PTL

\* One critical finding, and a second one, decide the label.
THEOREM CriticalsDecide == SpecScore => []CriticalsDecideTheLabel
  BY ScoreInvariant, ScoreBounds, PTL

\* Rounding never costs more than one point.
LEMMA TruncationsClose ==
  ASSUME NEW t \in Nat, NEW b \in BOOLEAN, NEW p \in Truncations(t, b)
  PROVE  /\ p \in Int
         /\ p <= RawScore(t) \div 10
         /\ 10 * p >= RawScore(t) - 10
         /\ p >= 0
  <1>1. RawScore(t) \in 0 .. 1000
    BY DEF RawScore
  <1>2. PICK raw \in 0 .. 1000 : raw = RawScore(t)
    BY <1>1
  <1>3. raw \div 10 \in Nat /\ 10 * (raw \div 10) >= raw - 9
    BY <1>2
  <1>4. CASE p = raw \div 10
    BY <1>2, <1>3, <1>4
  <1>5. CASE raw > 0 /\ raw % 10 = 0 /\ p = raw \div 10 - 1
    <2>1. 10 * (raw \div 10) = raw
      BY <1>2, <1>5
    <2>. QED
      BY <1>2, <1>3, <1>5, <2>1
  <1>. QED
    BY <1>2, <1>4, <1>5 DEF Truncations

\* A point more of penalty outweighs any rounding of the other sum.
LEMMA MorePenalty ==
  ASSUME NEW u \in Nat, NEW t \in Nat, t >= u + 10,
         NEW b \in BOOLEAN, NEW d \in BOOLEAN,
         NEW p \in Truncations(u, b), NEW q \in Truncations(t, d)
  PROVE  p \in Int /\ q \in Int /\ q <= p
  <1>1. /\ p \in Int /\ 10 * p >= RawScore(u) - 10 /\ p >= 0
        /\ q \in Int /\ q <= RawScore(t) \div 10
    BY TruncationsClose
  <1>2. CASE t > 1000
    <2>1. RawScore(t) = 0
      BY <1>2 DEF RawScore
    <2>. QED
      BY <1>1, <2>1
  <1>3. CASE ~(t > 1000)
    <2>1. RawScore(t) = 1000 - t /\ RawScore(u) = 1000 - u
      BY <1>3 DEF RawScore
    <2>2. 10 * ((1000 - t) \div 10) <= 1000 - t /\ (1000 - t) \div 10 \in Int
      BY <1>3
    <2>. QED
      BY <1>1, <2>1, <2>2
  <1>. QED
    BY <1>2, <1>3

\* A finding costs a point at least, so no rounding makes up for one; nor does
\* a cap, since more criticals only cap lower.
THEOREM FindingsNeverHelp == SpecScore => NeverImproves
  <1>1. RCSInv /\ [NextScore]_scoreVars =>
          (counts' # counts => \A before \in Scores, after \in Scores' : after <= before)
    <2>. SUFFICES ASSUME RCSInv, [NextScore]_scoreVars, counts' # counts,
                         NEW before \in Scores, NEW after \in Scores'
                  PROVE  after <= before
      OBVIOUS
    <2>1. PICK s \in Severity, c \in Category : AddFinding(s, c)
      BY DEF NextScore, Finish, scoreVars
    <2>2. /\ total \in Nat /\ total' \in Nat /\ total' >= total + 10
          /\ exact \in BOOLEAN /\ exact' \in BOOLEAN
      BY <2>1, WeightAssumption DEF AddFinding, RCSInv, ScoreTypeOK
    <2>3. PICK p \in Truncations(total, exact) : before = Capped(p, counts["critical"])
      BY DEF Scores
    <2>4. PICK q \in Truncations(total', exact') : after = Capped(q, counts'["critical"])
      BY DEF Scores
    <2>5. /\ counts["critical"] \in Nat
          /\ counts'["critical"] \in {counts["critical"], counts["critical"] + 1}
      BY <2>1, CountGrows DEF AddFinding, RCSInv, ScoreTypeOK, Severity
    <2>6. p \in Int /\ q \in Int /\ q <= p
      BY <2>2, MorePenalty
    <2>. QED
      BY <2>3, <2>4, <2>5, <2>6 DEF Capped
  <1>. QED
    BY <1>1, ScoreInvariant, PTL DEF SpecScore, NeverImproves

-----------------------------------------------------------------------------
(* Putting the lists of the analyzers together *)

\* Numbers have a least one.
LEMMA Least ==
  ASSUME NEW S \in SUBSET Nat, S # {}
  PROVE  \E i \in S : \A j \in S : i <= j
  <1>. DEFINE R == {pair \in Nat \X Nat : pair[1] < pair[2]}
  <1>1. IsWellFoundedOn(R, Nat)
    BY NatLessThanWellFounded DEF OpToRel
  <1>2. PICK i \in S : \A j \in S : <<j, i>> \notin R
    <2>. HIDE DEF R
    <2>. QED
      BY <1>1, WFMin
  <1>3. \A j \in S : ~(j < i)
    BY <1>2
  <1>. QED
    BY <1>3

\* The recursion of FlattenSeq, up to the k-th list.
Flattens(parts, g, k) ==
  g = [i \in 1 .. k |-> IF i = 1 THEN parts[i] ELSE g[i - 1] \o parts[i]]

LEMMA FlattenExists ==
  ASSUME NEW parts, NEW n \in Nat
  PROVE  \E g : Flattens(parts, g, n)
  <1>. DEFINE Missing == {k \in Nat : ~\E g : Flattens(parts, g, k)}
  <1>. SUFFICES ASSUME Missing # {} PROVE FALSE
    OBVIOUS
  <1>1. PICK k \in Missing : \A j \in Missing : k <= j
    BY Least
  <1>2. k \in Nat /\ ~\E g : Flattens(parts, g, k)
    OBVIOUS
  <1>3. CASE k = 0
    <2>1. Flattens(parts, [i \in 1 .. 0 |-> 0], 0)
      BY DEF Flattens
    <2>. QED
      BY <1>2, <1>3, <2>1
  <1>4. CASE k # 0
    <2>1. k - 1 \in Nat /\ k - 1 \notin Missing
      BY <1>1, <1>2, <1>4
    <2>2. PICK g : Flattens(parts, g, k - 1)
      BY <2>1
    <2>. DEFINE h == [i \in 1 .. k |-> IF i < k THEN g[i]
                                       ELSE IF i = 1 THEN parts[i] ELSE g[i - 1] \o parts[i]]
    <2>3. ASSUME NEW i \in 1 .. k
          PROVE  h[i] = IF i = 1 THEN parts[i] ELSE h[i - 1] \o parts[i]
      <3>1. i # 1 => i - 1 \in 1 .. k /\ i - 1 < k
        BY <1>2
      <3>2. i # 1 => h[i - 1] = g[i - 1]
        BY <3>1
      <3>3. CASE i < k
        <4>1. i \in 1 .. k - 1
          BY <1>2, <3>3
        <4>2. g[i] = IF i = 1 THEN parts[i] ELSE g[i - 1] \o parts[i]
          BY <2>2, <4>1 DEF Flattens
        <4>. QED
          BY <3>2, <3>3, <4>2
      <3>4. CASE ~(i < k)
        BY <3>2, <3>4
      <3>. QED
        BY <3>3, <3>4
    <2>4. h = [i \in 1 .. k |-> IF i = 1 THEN parts[i] ELSE h[i - 1] \o parts[i]]
      BY <2>3
    <2>5. Flattens(parts, h, k)
      <3>. HIDE DEF h
      <3>. QED
        BY <2>4 DEF Flattens
    <2>. QED
      BY <1>2, <2>5
  <1>. QED
    BY <1>3, <1>4

\* The first k lists put together.
Holds(flat, parts, k, S) ==
  /\ flat \in Seq(S)
  /\ \A i \in 1 .. k : \A j \in DOMAIN parts[i] : \E p \in DOMAIN flat : flat[p] = parts[i][j]
  /\ \A p \in DOMAIN flat : \E i \in 1 .. k : \E j \in DOMAIN parts[i] : flat[p] = parts[i][j]

\* FlattenSeq loses nothing and adds nothing.
LEMMA Flattened ==
  ASSUME NEW S, NEW parts \in Seq(Seq(S))
  PROVE  Holds(FlattenSeq(parts), parts, Len(parts), S)
  <1>. DEFINE n == Len(parts)
  <1>0. n \in Nat /\ DOMAIN parts = 1 .. n
    OBVIOUS
  <1>1. CASE n = 0
    <2>1. parts = <<>> /\ FlattenSeq(parts) = <<>>
      BY <1>1 DEF FlattenSeq
    <2>2. DOMAIN <<>> = {} /\ 1 .. n = {} /\ <<>> \in Seq(S)
      BY <1>1
    <2>. QED
      BY <2>1, <2>2 DEF Holds
  <1>2. CASE n # 0
    <2>. DEFINE flat == CHOOSE g : Flattens(parts, g, n)
    <2>1. FlattenSeq(parts) = flat[n]
      BY <1>2 DEF FlattenSeq, Flattens
    <2>2. Flattens(parts, flat, n)
      BY <1>0, FlattenExists
    <2>. HIDE DEF flat
    <2>3. \A i \in 1 .. n : flat[i] = IF i = 1 THEN parts[i] ELSE flat[i - 1] \o parts[i]
      BY <2>2 DEF Flattens
    <2>. DEFINE Wrong == {k \in 1 .. n : ~Holds(flat[k], parts, k, S)}
    <2>4. Wrong = {}
      <3>. SUFFICES ASSUME Wrong # {} PROVE FALSE
        OBVIOUS
      <3>1. PICK k \in Wrong : \A j \in Wrong : k <= j
        <4>1. Wrong \in SUBSET Nat
          BY <1>0
        <4>. QED
          BY <4>1, Least
      <3>2. k \in 1 .. n /\ ~Holds(flat[k], parts, k, S) /\ parts[k] \in Seq(S)
        BY <1>0
      <3>3. CASE k = 1
        <4>1. flat[1] = parts[1]
          BY <2>3, <3>2, <3>3
        <4>. QED
          BY <3>2, <3>3, <4>1 DEF Holds
      <3>4. CASE k # 1
        <4>. DEFINE before == flat[k - 1]
                    last == parts[k]
        <4>1. k - 1 \in 1 .. n /\ k - 1 \notin Wrong
          BY <1>0, <3>1, <3>2, <3>4
        <4>2. Holds(before, parts, k - 1, S) /\ before \in Seq(S) /\ last \in Seq(S)
          BY <3>2, <4>1 DEF Holds
        <4>3. flat[k] = before \o last
          BY <2>3, <3>2, <3>4
        <4>. HIDE DEF before, last
        <4>4. /\ before \o last \in Seq(S)
              /\ \A p \in DOMAIN before : p \in DOMAIN (before \o last) /\ (before \o last)[p] = before[p]
              /\ \A p \in DOMAIN last :
                   Len(before) + p \in DOMAIN (before \o last) /\ (before \o last)[Len(before) + p] = last[p]
              /\ \A p \in DOMAIN (before \o last) :
                   \/ p \in DOMAIN before /\ (before \o last)[p] = before[p]
                   \/ p - Len(before) \in DOMAIN last /\ (before \o last)[p] = last[p - Len(before)]
          <5>. DEFINE both == before \o last
          <5>1. /\ DOMAIN before = 1 .. Len(before) /\ DOMAIN last = 1 .. Len(last)
                /\ Len(before) \in Nat /\ Len(last) \in Nat
                /\ both \in Seq(S) /\ DOMAIN both = 1 .. Len(before) + Len(last)
            BY <4>2
          <5>2. \A p \in 1 .. Len(before) + Len(last) :
                   both[p] = IF p <= Len(before) THEN before[p] ELSE last[p - Len(before)]
            BY <4>2
          <5>. HIDE DEF both
          <5>3. \A p \in DOMAIN before : p \in DOMAIN both /\ both[p] = before[p]
            BY <5>1, <5>2
          <5>4. ASSUME NEW p \in DOMAIN last
                PROVE  Len(before) + p \in DOMAIN both /\ both[Len(before) + p] = last[p]
            <6>. DEFINE q == Len(before) + p
            <6>1. q \in 1 .. Len(before) + Len(last) /\ ~(q <= Len(before)) /\ q - Len(before) = p
              BY <5>1
            <6>. HIDE DEF q
            <6>2. both[q] = last[p]
              BY <5>2, <6>1
            <6>. QED
              BY <5>1, <6>1, <6>2 DEF q
          <5>5. ASSUME NEW p \in DOMAIN both
                PROVE  \/ p \in DOMAIN before /\ both[p] = before[p]
                       \/ p - Len(before) \in DOMAIN last /\ both[p] = last[p - Len(before)]
            BY <5>1, <5>2
          <5>. QED
            BY <5>1, <5>3, <5>4, <5>5 DEF both
        <4>5. \A i \in 1 .. k : i = k \/ i \in 1 .. k - 1
          BY <3>2
        <4>6. ASSUME NEW i \in 1 .. k, NEW j \in DOMAIN parts[i]
              PROVE  \E p \in DOMAIN flat[k] : flat[k][p] = parts[i][j]
          <5>1. CASE i = k
            <6>1. j \in DOMAIN last /\ last[j] = parts[i][j]
              BY <5>1 DEF last
            <6>2. PICK p \in DOMAIN (before \o last) : (before \o last)[p] = last[j]
              BY <4>4, <6>1, Zenon
            <6>. QED
              BY <4>3, <6>1, <6>2
          <5>2. CASE i \in 1 .. k - 1
            <6>1. PICK p \in DOMAIN before : before[p] = parts[i][j]
              BY <4>2, <5>2 DEF Holds
            <6>. QED
              BY <4>3, <4>4, <6>1
          <5>. QED
            BY <4>5, <5>1, <5>2
        <4>7. ASSUME NEW p \in DOMAIN flat[k]
              PROVE  \E i \in 1 .. k : \E j \in DOMAIN parts[i] : flat[k][p] = parts[i][j]
          <5>1. CASE p \in DOMAIN before /\ flat[k][p] = before[p]
            <6>1. \A i \in 1 .. k - 1 : i \in 1 .. k
              BY <3>2
            <6>. QED
              BY <4>2, <5>1, <6>1 DEF Holds
          <5>2. CASE p - Len(before) \in DOMAIN last /\ flat[k][p] = last[p - Len(before)]
            <6>1. k \in 1 .. k
              BY <3>2
            <6>. QED
              BY <5>2, <6>1 DEF last
          <5>. QED
            BY <4>3, <4>4, <5>1, <5>2
        <4>. QED
          BY <3>2, <4>3, <4>4, <4>6, <4>7 DEF Holds
      <3>. QED
        BY <3>3, <3>4
    <2>5. n \in 1 .. n
      BY <1>0, <1>2
    <2>. QED
      BY <2>1, <2>4, <2>5
  <1>. QED
    BY <1>1, <1>2

-----------------------------------------------------------------------------
(* Steps of the pipeline *)

\* Analyzers are categories.
LEMMA AnalyzerType == Analyzer \subseteq Category /\ \A i \in DOMAIN Analyzers : Analyzers[i] \in Analyzer
  BY AnalyzersAssumption DEF AnalyzersAssumption, Analyzer, Range

\* The lists that the analyzers return are findings of their category.
LEMMA FindingType ==
  ASSUME NEW a \in Analyzer, NEW s \in Severity, NEW c \in Clause
  PROVE  /\ NewFinding(a, s, c) \in Finding
         /\ NewFinding(a, s, c).category = a /\ NewFinding(a, s, c).severity = s
  BY AnalyzerType DEF NewFinding, Finding

LEMMA ParsedType ==
  ASSUME NEW a \in Analyzer, NEW answer \in Answer
  PROVE  Parsed(a, answer) \in Seq(Finding) /\ \A i \in DOMAIN Parsed(a, answer) : Parsed(a, answer)[i].category = a
  <1>. DEFINE f(i) == NewFinding(a, answer[i].severity, answer[i].clause)
  <1>1. answer \in Seq([severity : Severity, clause : Clause])
    BY AnswerAssumption DEF AnswerAssumption
  <1>2. DOMAIN answer = 1 .. Len(answer) /\ Len(answer) \in Nat
    BY <1>1
  <1>3. \A i \in DOMAIN answer : answer[i].severity \in Severity /\ answer[i].clause \in Clause
    <2>. DEFINE R == [severity : Severity, clause : Clause]
    <2>1. \A i \in DOMAIN answer : answer[i] \in R
      <3>1. answer \in Seq(R)
        BY <1>1
      <3>. HIDE DEF R
      <3>. QED
        BY <3>1
    <2>. QED
      BY <2>1
  <1>4. \A i \in DOMAIN answer : f(i) \in Finding /\ f(i).category = a
    BY <1>3, FindingType
  <1>5. Parsed(a, answer) = [i \in 1 .. Len(answer) |-> f(i)]
    BY <1>2 DEF Parsed
  <1>. HIDE DEF f
  <1>. QED
    BY <1>2, <1>4, <1>5

\* A finding put before, or behind, the others.
LEMMA OneMore ==
  ASSUME NEW S, NEW x \in S, NEW s \in Seq(S)
  PROVE  /\ <<x>> \o s \in Seq(S)
         /\ 1 \in DOMAIN (<<x>> \o s) /\ (<<x>> \o s)[1] = x
         /\ \A i \in DOMAIN (<<x>> \o s) : (<<x>> \o s)[i] = x \/ \E j \in DOMAIN s : (<<x>> \o s)[i] = s[j]
         /\ Append(s, x) \in Seq(S) /\ Append(s, x) # <<>>
         /\ \A i \in DOMAIN Append(s, x) : Append(s, x)[i] = x \/ \E j \in DOMAIN s : Append(s, x)[i] = s[j]
  <1>. DEFINE t == <<x>> \o s
              u == Append(s, x)
              n == Len(s)
  <1>1. /\ t \in Seq(S) /\ n \in Nat /\ DOMAIN s = 1 .. n /\ DOMAIN t = 1 .. n + 1 /\ t[1] = x
        /\ \A i \in 2 .. n + 1 : t[i] = s[i - 1]
    OBVIOUS
  <1>2. \A i \in 1 .. n + 1 : i # 1 => i \in 2 .. n + 1 /\ i - 1 \in 1 .. n
    BY <1>1
  <1>3. /\ u \in Seq(S) /\ DOMAIN u = 1 .. n + 1 /\ u[n + 1] = x
        /\ \A i \in 1 .. n : u[i] = s[i]
    OBVIOUS
  <1>4. \A i \in DOMAIN u : i = n + 1 \/ i \in 1 .. n
    BY <1>1, <1>3
  <1>5. 1 \in 1 .. n + 1 /\ u # <<>>
    BY <1>1, <1>3
  <1>. HIDE DEF t, u
  <1>6. \A i \in DOMAIN t : t[i] = x \/ \E j \in DOMAIN s : t[i] = s[j]
    BY <1>1, <1>2
  <1>7. \A i \in DOMAIN u : u[i] = x \/ \E j \in DOMAIN s : u[i] = s[j]
    BY <1>1, <1>3, <1>4
  <1>. QED
    BY <1>1, <1>3, <1>5, <1>6, <1>7 DEF t, u

\* What any step of an analyzer does: it gets as far as "where" with the
\* findings in list, and with a check of its own if it has one.
Moves(a, list, where) ==
  /\ stage = "analyze" /\ at[a] # "returned" /\ where \in {"post", "returned"}
  /\ list \in Seq(Finding) /\ \A i \in DOMAIN list : list[i].category = a
  /\ at' = [at EXCEPT ![a] = where] /\ result' = [result EXCEPT ![a] = list]
  /\ UNCHANGED running
  /\ \/ errors' = errors \cup {a} /\ list = <<>> /\ where = "returned" /\ probe' = probe
     \/ errors' = errors /\ where = "post" /\ probe' = probe
     \/ /\ errors' = errors /\ where = "returned"
        /\ a = "timing_ambiguity" /\ contract.no_timezone => list # <<>>
        /\ \/ probe' = probe
           \/ /\ a = "source_failure" /\ probe' \in {"dead", "alive"}
              /\ probe' = "dead" => \E i \in DOMAIN list : list[i].severity = "critical"

AnalyzerStep == \E a \in Analyzer, list \in Seq(Finding), where \in {"post", "returned"} : Moves(a, list, where)

LEMMA AnswerMoves ==
  ASSUME TypeOK, AnalysisInv, NEW a \in Analyzer, LLMAnswers(a) \/ LLMFails(a) \/ TimeOut(a)
  PROVE  AnalyzerStep
  <1>0. <<>> \in Seq(Finding) /\ DOMAIN <<>> = {}
    OBVIOUS
  <1>1. CASE LLMAnswers(a)
    <2>1. PICK answer \in Answer : result' = [result EXCEPT ![a] = Parsed(a, answer)]
      BY <1>1 DEF LLMAnswers
    <2>2. Moves(a, Parsed(a, answer), "post")
      BY <1>1, <2>1, ParsedType DEF LLMAnswers, Moves
    <2>. QED
      BY <2>2, ParsedType DEF AnalyzerStep
  <1>2. CASE LLMFails(a)
    <2>1. result[a] = <<>> /\ result \in [Analyzer -> Seq(Finding)]
      BY <1>2 DEF LLMFails, AnalysisInv, TypeOK
    <2>2. result' = [result EXCEPT ![a] = <<>>]
      BY <1>2, <2>1 DEF LLMFails
    <2>3. Moves(a, <<>>, "returned")
      BY <1>0, <1>2, <2>2 DEF LLMFails, Moves
    <2>. QED
      BY <1>0, <2>3 DEF AnalyzerStep
  <1>3. CASE TimeOut(a)
    <2>1. Moves(a, <<>>, "returned")
      BY <1>0, <1>3 DEF TimeOut, Moves
    <2>. QED
      BY <1>0, <2>1 DEF AnalyzerStep
  <1>. QED
    BY <1>1, <1>2, <1>3

LEMMA ReturnMoves ==
  ASSUME TypeOK, NEW a \in Analyzer, PostProcess(a)
  PROVE  AnalyzerStep
  <1>1. result[a] \in Seq(Finding) /\ \A i \in DOMAIN result[a] : result[a][i].category = a
    BY DEF TypeOK
  <1>2. Moves(a, result[a], "returned")
    BY <1>1 DEF PostProcess, Return, Moves
  <1>. QED
    BY <1>1, <1>2 DEF AnalyzerStep

LEMMA ProbeMoves ==
  ASSUME TypeOK, "source_failure" \in Analyzer, ProbeSource
  PROVE  AnalyzerStep
  <1>. DEFINE a == "source_failure"
              dead == NewFinding(a, "critical", SourceClause)
              old == result[a]
              new == <<dead>> \o old
  <1>1. old \in Seq(Finding) /\ \A i \in DOMAIN old : old[i].category = a
    BY DEF TypeOK
  <1>2. dead \in Finding /\ dead.category = a /\ dead.severity = "critical"
    BY FindingType, AnswerAssumption DEF AnswerAssumption, Severity
  <1>3. /\ new \in Seq(Finding) /\ 1 \in DOMAIN new /\ new[1] = dead
        /\ \A i \in DOMAIN new : new[i] = dead \/ \E j \in DOMAIN old : new[i] = old[j]
    <2>. HIDE DEF dead, old
    <2>. QED
      BY <1>1, <1>2, OneMore
  <1>6. \A i \in DOMAIN new : new[i].category = a
    <2>. HIDE DEF dead, old, new
    <2>. QED
      BY <1>1, <1>2, <1>3
  <1>7. PICK answer \in {"dead", "alive"} :
          /\ probe' = answer
          /\ Return(a, IF answer = "dead" THEN new ELSE old)
    BY DEF ProbeSource
  <1>8. UNCHANGED <<running, errors>>
    BY DEF ProbeSource
  <1>9. CASE answer = "dead"
    <2>. HIDE DEF new, dead, old
    <2>1. Moves(a, new, "returned")
      BY <1>2, <1>3, <1>6, <1>7, <1>8, <1>9 DEF Return, Moves
    <2>. QED
      BY <1>3, <2>1 DEF AnalyzerStep
  <1>10. CASE answer = "alive"
    <2>. HIDE DEF new, dead, old
    <2>1. Moves(a, old, "returned")
      BY <1>1, <1>7, <1>8, <1>10 DEF Return, Moves
    <2>. QED
      BY <1>1, <2>1 DEF AnalyzerStep
  <1>. QED
    BY <1>7, <1>9, <1>10

LEMMA TimezoneMoves ==
  ASSUME TypeOK, "timing_ambiguity" \in Analyzer, CheckTimezone
  PROVE  AnalyzerStep
  <1>. DEFINE a == "timing_ambiguity"
              noted == NewFinding(a, "medium", TimezoneClause)
              old == result[a]
              new == Append(old, noted)
  <1>1. old \in Seq(Finding) /\ \A i \in DOMAIN old : old[i].category = a
    BY DEF TypeOK
  <1>2. noted \in Finding /\ noted.category = a
    BY FindingType, AnswerAssumption DEF AnswerAssumption, Severity
  <1>3. /\ new \in Seq(Finding) /\ new # <<>>
        /\ \A i \in DOMAIN new : new[i] = noted \/ \E j \in DOMAIN old : new[i] = old[j]
    <2>. HIDE DEF noted, old
    <2>. QED
      BY <1>1, <1>2, OneMore
  <1>5. \A i \in DOMAIN new : new[i].category = a
    <2>. HIDE DEF noted, old, new
    <2>. QED
      BY <1>1, <1>2, <1>3
  <1>6. PICK flagged \in BOOLEAN : (flagged => old # <<>>) /\ Return(a, IF flagged THEN old ELSE new)
    BY DEF CheckTimezone
  <1>7. UNCHANGED <<running, errors, probe>>
    BY DEF CheckTimezone
  <1>8. CASE flagged
    <2>. HIDE DEF new, noted, old
    <2>1. Moves(a, old, "returned")
      BY <1>1, <1>6, <1>7, <1>8 DEF Return, Moves
    <2>. QED
      BY <1>1, <2>1 DEF AnalyzerStep
  <1>9. CASE ~flagged
    <2>. HIDE DEF new, noted, old
    <2>1. Moves(a, new, "returned")
      BY <1>3, <1>5, <1>6, <1>7, <1>9 DEF Return, Moves
    <2>. QED
      BY <1>3, <2>1 DEF AnalyzerStep
  <1>. QED
    BY <1>8, <1>9

\* All steps but those of the analyzers are the pipeline's own.
LEMMA Steps ==
  ASSUME TypeOK, AnalysisInv, [Next]_vars
  PROVE  \/ AnalyzerStep \/ Parse \/ Gather \/ Merge \/ Merged
         \/ ScoreFinding \/ Score \/ RewriteRaises \/ Build \/ UNCHANGED vars
  BY AnswerMoves, ReturnMoves, ProbeMoves, TimezoneMoves DEF Next

\* The scoring does to the total and the counts what calculate does.
LEMMA ScoringStep ==
  ASSUME TypeOK, AnalysisInv, [Next]_vars
  PROVE  [NextScore]_scoreVars
  <1>1. CASE ScoreFinding
    <2>. DEFINE f == deduplicated[Count + 1]
    <2>1. Count \in Nat /\ Count + 1 \in DOMAIN deduplicated
      BY <1>1 DEF ScoreFinding, TypeOK, MergeTypeOK, ScoreTypeOK, Count, Severity
    <2>2. f \in Finding
      BY <2>1 DEF TypeOK, MergeTypeOK
    <2>3. AddFinding(f.severity, f.category)
      BY <1>1 DEF ScoreFinding
    <2>. QED
      BY <2>2, <2>3 DEF Finding, NextScore
  <1>2. CASE Score
    BY <1>2 DEF Score, NextScore
  <1>3. CASE AnalyzerStep
    BY <1>3 DEF AnalyzerStep, Moves, running
  <1>. QED
    BY <1>1, <1>2, <1>3, Steps DEF Parse, Gather, Merge, Merged, RewriteRaises, Build, vars

\* And the merge works as FindingMerge does, from where Gather starts it.
LEMMA MergingStep ==
  ASSUME TypeOK, AnalysisInv, [Next]_vars
  PROVE  [NextMerge]_mergeVars \/ Gather
  <1>1. CASE AnalyzerStep
    BY <1>1 DEF AnalyzerStep, Moves, running
  <1>. QED
    BY <1>1, Steps DEF Parse, Merge, Merged, ScoreFinding, Score, RewriteRaises, Build, vars

LEMMA GatherResult ==
  ASSUME TypeOK, Gather
  PROVE  /\ found' \in Seq(Finding)
         /\ \A a \in Analyzer : \A i \in DOMAIN result[a] : \E k \in DOMAIN found' : found'[k] = result[a][i]
         /\ \A k \in DOMAIN found' : \E a \in Analyzer : \E i \in DOMAIN result[a] : found'[k] = result[a][i]
  <1>. DEFINE parts == [i \in DOMAIN Analyzers |-> result[Analyzers[i]]]
              flat == FlattenSeq(parts)
  <1>1. DOMAIN Analyzers = 1 .. Len(Analyzers) /\ Len(Analyzers) \in Nat
    BY AnalyzersAssumption DEF AnalyzersAssumption
  <1>2. \A i \in DOMAIN Analyzers : result[Analyzers[i]] \in Seq(Finding)
    BY AnalyzerType DEF TypeOK
  <1>3. parts \in Seq(Seq(Finding)) /\ Len(parts) = Len(Analyzers)
    BY <1>1, <1>2
  <1>4. Holds(flat, parts, Len(Analyzers), Finding)
    <2>. HIDE DEF parts
    <2>. QED
      BY <1>3, Flattened
  <1>5. found' = flat
    BY DEF Gather
  <1>. HIDE DEF flat
  <1>6. ASSUME NEW a \in Analyzer, NEW i \in DOMAIN result[a]
        PROVE  \E k \in DOMAIN flat : flat[k] = result[a][i]
    <2>1. PICK n \in DOMAIN Analyzers : Analyzers[n] = a
      BY DEF Analyzer, Range
    <2>2. n \in 1 .. Len(Analyzers) /\ parts[n] = result[a]
      BY <1>1, <2>1
    <2>. HIDE DEF parts
    <2>. QED
      BY <1>4, <2>2 DEF Holds
  <1>7. ASSUME NEW k \in DOMAIN flat
        PROVE  \E a \in Analyzer : \E i \in DOMAIN result[a] : flat[k] = result[a][i]
    <2>1. PICK n \in 1 .. Len(Analyzers) : \E i \in DOMAIN parts[n] : flat[k] = parts[n][i]
      <3>. HIDE DEF parts
      <3>. QED
        BY <1>4 DEF Holds
    <2>2. parts[n] = result[Analyzers[n]] /\ Analyzers[n] \in Analyzer
      BY <1>1, AnalyzerType
    <2>. QED
      BY <2>1, <2>2
  <1>8. flat \in Seq(Finding)
    BY <1>4 DEF Holds
  <1>. QED
    BY <1>5, <1>6, <1>7, <1>8

-----------------------------------------------------------------------------
(* The inductive invariant, one lemma for each part *)

\* The parts that the loops keep by themselves.
LoopInv == MergeInv /\ OriginInv /\ RCSInv

LEMMA LoopTypes ==
  ASSUME TypeOK, AnalysisInv, RCSInv, [Next]_vars
  PROVE  MergeTypeOK' /\ ScoreTypeOK'
  <1>1. ScoreTypeOK'
    BY ScoringStep, ScoreStep DEF RCSInv
  <1>2. MergeTypeOK
    BY DEF TypeOK
  <1>3. CASE Gather
    <2>1. found' \in Seq(Finding)
      BY <1>3, GatherResult
    <2>2. sorted' = sorted /\ remaining' = remaining /\ deduplicated' = deduplicated
      BY <1>3 DEF Gather
    <2>. QED
      BY <1>1, <1>2, <2>1, <2>2, Zenon DEF MergeTypeOK
  <1>4. CASE [NextMerge]_mergeVars
    BY <1>1, <1>2, <1>4, MergeTypeStep
  <1>. QED
    BY <1>3, <1>4, MergingStep

LEMMA TypeStep ==
  ASSUME TypeOK, AnalysisInv, RCSInv, [Next]_vars
  PROVE  TypeOK'
  <1>1. MergeTypeOK' /\ ScoreTypeOK'
    BY LoopTypes
  <1>2. CASE AnalyzerStep
    <2>1. PICK a \in Analyzer, list \in Seq(Finding), where \in {"post", "returned"} : Moves(a, list, where)
      BY <1>2 DEF AnalyzerStep
    <2>2. /\ stage' = stage /\ contract' = contract /\ probe' \in {"unsent", "dead", "alive"}
          /\ errors' \subseteq Analyzer
      BY <2>1 DEF Moves, running, TypeOK
    <2>3. at' \in [Analyzer -> {"llm", "post", "returned"}]
      BY <2>1 DEF Moves, TypeOK
    <2>4. result' \in [Analyzer -> Seq(Finding)]
      BY <2>1 DEF Moves, TypeOK
    <2>5. \A b \in Analyzer : \A i \in DOMAIN result'[b] : result'[b][i].category = b
      <3>1. result'[a] = list /\ \A b \in Analyzer : b # a => result'[b] = result[b]
        BY <2>1 DEF Moves, TypeOK
      <3>. QED
        BY <2>1, <3>1 DEF Moves, TypeOK
    <2>. QED
      BY <1>1, <2>2, <2>3, <2>4, <2>5 DEF TypeOK
  <1>3. CASE Parse
    BY <1>1, <1>3 DEF Parse, TypeOK
  <1>4. ASSUME UNCHANGED <<contract, probe, at, result, errors>>,
               stage' \in {"merge", "score", "build", "done", "raised", stage}
        PROVE  TypeOK'
    BY <1>1, <1>4 DEF TypeOK
  <1>. QED
    BY <1>2, <1>3, <1>4, Steps
       DEF Gather, Merge, Merged, ScoreFinding, Score, RewriteRaises, Build, vars

LEMMA AnalysisStep ==
  ASSUME TypeOK, AnalysisInv, [Next]_vars
  PROVE  AnalysisInv'
  <1>1. CASE AnalyzerStep
    <2>1. PICK a \in Analyzer, list \in Seq(Finding), where \in {"post", "returned"} : Moves(a, list, where)
      BY <1>1 DEF AnalyzerStep
    <2>2. /\ stage = "analyze" /\ stage' = "analyze" /\ contract' = contract
          /\ at[a] # "returned" /\ at'[a] = where /\ result'[a] = list
          /\ \A b \in Analyzer : b # a => at'[b] = at[b] /\ result'[b] = result[b]
      BY <2>1 DEF Moves, running, TypeOK
    <2>3. a \notin errors /\ (probe # "unsent" => a # "source_failure")
      BY <2>2 DEF AnalysisInv
    <2>4. /\ \A b \in Analyzer : at'[b] = "llm" => result'[b] = <<>> /\ b \notin errors'
          /\ \A b \in errors' : at'[b] = "returned" /\ result'[b] = <<>>
      BY <2>1, <2>2, <2>3 DEF Moves, AnalysisInv, TypeOK
    <2>5. probe' # "unsent" => "source_failure" \in Analyzer /\ at'["source_failure"] = "returned"
      BY <2>1, <2>2, <2>3 DEF Moves, AnalysisInv
    <2>6. probe' = "dead" /\ "source_failure" \notin errors' =>
            \E i \in DOMAIN result'["source_failure"] : result'["source_failure"][i].severity = "critical"
      BY <2>1, <2>2, <2>3 DEF Moves, AnalysisInv
    <2>7. \A b \in Analyzer \ errors' :
            b = "timing_ambiguity" /\ contract'.no_timezone /\ at'[b] = "returned" => result'[b] # <<>>
      BY <2>1, <2>2, <2>3 DEF Moves, AnalysisInv
    <2>. QED
      BY <2>2, <2>4, <2>5, <2>6, <2>7 DEF AnalysisInv
  <1>2. CASE Parse
    BY <1>2 DEF Parse, AnalysisInv
  <1>3. CASE Gather
    BY <1>3 DEF Gather, AnalysisInv
  <1>4. ASSUME UNCHANGED <<contract, probe, at, result, errors>>,
               \/ stage' = stage \/ stage' = "raised"
               \/ stage \in {"merge", "score", "build"} /\ stage' # "parse"
        PROVE  AnalysisInv'
    BY <1>4 DEF AnalysisInv
  <1>. QED
    BY <1>1, <1>2, <1>3, <1>4, Steps
       DEF Merge, Merged, ScoreFinding, Score, RewriteRaises, Build, vars

\* The loop begins once, and not before the lists are put together.
LEMMA GatheredStep ==
  ASSUME TypeOK, AnalysisInv, GatheredInv, [Next]_vars
  PROVE  GatheredInv'
  <1>1. CASE AnalyzerStep
    BY <1>1 DEF AnalyzerStep, Moves, running, mergeVars, GatheredInv
  <1>2. CASE Gather
    <2>1. stage = "analyze" /\ stage' = "merge" /\ result' = result
      BY <1>2 DEF Gather
    <2>2. /\ \A a \in Analyzer : \A i \in DOMAIN result'[a] : \E k \in DOMAIN found' : found'[k] = result'[a][i]
          /\ \A k \in DOMAIN found' : \E a \in Analyzer : \E i \in DOMAIN result'[a] : found'[k] = result'[a][i]
      BY <1>2, <2>1, GatherResult
    <2>. QED
      BY <2>1, <2>2, Zenon DEF GatheredInv
  <1>3. CASE Merge
    <2>1. stage = "merge" /\ stage' = "merge" /\ found' = found /\ result' = result
      BY <1>3 DEF Merge, NextMerge, Sort, KeepFinding, MergeDuplicate
    <2>. QED
      BY <2>1 DEF GatheredInv
  <1>4. CASE Merged
    BY <1>4 DEF Merged, mergeVars, Done, GatheredInv
  <1>5. ASSUME UNCHANGED <<result, mergeVars>>,
               \/ stage' = stage \/ stage' = "raised"
               \/ stage = "parse" /\ stage' = "analyze"
               \/ stage = "score" /\ stage' = "build"
               \/ stage = "build" /\ stage' = "done"
        PROVE  GatheredInv'
    BY <1>5 DEF mergeVars, Done, GatheredInv
  <1>. QED
    BY <1>1, <1>2, <1>3, <1>4, <1>5, Steps
       DEF Parse, ScoreFinding, Score, RewriteRaises, Build, vars

LEMMA CountedStep ==
  ASSUME TypeOK, AnalysisInv, RCSInv, CountedInv, [Next]_vars
  PROVE  CountedInv'
  <1>1. /\ Count \in Nat /\ counts["critical"] \in Nat /\ counts \in [Severity -> Nat]
        /\ deduplicated \in Seq(Finding) /\ score \in -1 .. 100
    BY DEF TypeOK, MergeTypeOK, ScoreTypeOK, Count, Severity
  <1>2. CASE ScoreFinding
    <2>. DEFINE s == deduplicated[Count + 1].severity
    <2>1. /\ stage = "score" /\ stage' = "score" /\ deduplicated' = deduplicated
          /\ Count < Len(deduplicated) /\ score = -1 /\ score' = -1
          /\ counts' = [counts EXCEPT ![s] = @ + 1]
      BY <1>2 DEF ScoreFinding, AddFinding, mergeVars
    <2>2. s \in Severity
      <3>1. Count + 1 \in DOMAIN deduplicated
        BY <1>1, <2>1
      <3>2. deduplicated[Count + 1] \in Finding
        BY <1>1, <3>1
      <3>. QED
        BY <3>2 DEF Finding
    <2>. HIDE DEF s
    <2>3. Count' = Count + 1
      BY <2>1, <2>2, CountGrows DEF TypeOK
    <2>4. ASSUME NEW i \in DOMAIN deduplicated, i <= Count', deduplicated[i].severity = "critical"
          PROVE  counts'["critical"] >= 1
      <3>1. CASE i <= Count
        <4>1. counts["critical"] >= 1
          BY <2>4, <3>1 DEF CountedInv
        <4>. QED
          BY <1>1, <2>1, <2>2, <4>1 DEF Severity
      <3>2. CASE i = Count + 1
        BY <1>1, <2>1, <2>4, <3>2 DEF s, Severity
      <3>3. i <= Count \/ i = Count + 1
        <4>1. i \in Nat
          BY <1>1
        <4>. QED
          BY <1>1, <2>3, <2>4, <4>1
      <3>. QED
        BY <3>1, <3>2, <3>3
    <2>5. Count' <= Len(deduplicated')
      BY <1>1, <2>1, <2>3
    <2>6. \A i \in DOMAIN deduplicated' :
             i <= Count' /\ deduplicated'[i].severity = "critical" => counts'["critical"] >= 1
      BY <2>1, <2>4
    <2>. QED
      BY <2>1, <2>5, <2>6 DEF CountedInv
  <1>3. CASE Score
    <2>1. /\ stage' = "build" /\ deduplicated' = deduplicated /\ counts' = counts
          /\ Count = Len(deduplicated) /\ score' \in Scores
      BY <1>3 DEF Score, Finish, mergeVars
    <2>2. Count' = Count
      BY <2>1 DEF Count
    <2>3. score' # -1
      <3>1. total \in Nat /\ exact \in BOOLEAN
        BY DEF TypeOK, ScoreTypeOK
      <3>2. PICK q \in Truncations(total, exact) : score' = Capped(q, counts["critical"])
        BY <2>1 DEF Scores
      <3>3. score' \in 0 .. 100
        BY <1>1, <3>1, <3>2, ScoresBound
      <3>. QED
        BY <3>3
    <2>. QED
      BY <2>1, <2>2, <2>3 DEF CountedInv
  <1>4. ASSUME Count = 0, score = -1, UNCHANGED scoreVars, stage' \in {"parse", "analyze", "merge", "raised"}
        PROVE  CountedInv'
    <2>1. Count' = 0 /\ counts' = counts /\ score' = -1
      BY <1>4 DEF Count, scoreVars
    <2>2. deduplicated' \in Seq(Finding)
      BY LoopTypes DEF MergeTypeOK
    <2>3. \A i \in DOMAIN deduplicated' : ~(i <= 0)
      BY <2>2
    <2>4. Len(deduplicated') >= 0
      BY <2>2
    <2>. QED
      BY <1>4, <2>1, <2>3, <2>4 DEF CountedInv
  <1>5. ASSUME UNCHANGED <<mergeVars, scoreVars>>,
               \/ stage' = stage \/ stage' = "raised"
               \/ stage = "build" /\ stage' = "done"
        PROVE  CountedInv'
    <2>1. Count' = Count /\ counts' = counts /\ score' = score /\ deduplicated' = deduplicated
      BY <1>5 DEF Count, mergeVars, scoreVars
    <2>. QED
      BY <1>5, <2>1 DEF CountedInv
  <1>6. CASE Merged
    <2>1. stage = "merge" /\ stage' = "score" /\ UNCHANGED <<mergeVars, scoreVars>>
      BY <1>6 DEF Merged
    <2>2. Count' = Count /\ counts' = counts /\ score' = score /\ deduplicated' = deduplicated
      BY <2>1 DEF Count, mergeVars, scoreVars
    <2>3. score = -1
      BY <2>1 DEF CountedInv
    <2>. QED
      BY <2>1, <2>2, <2>3 DEF CountedInv
  <1>7. CASE AnalyzerStep \/ Parse \/ Gather \/ Merge
    <2>1. /\ stage \in {"parse", "analyze", "merge"} /\ UNCHANGED scoreVars
          /\ stage' \in {"parse", "analyze", "merge", "raised"}
      BY <1>7 DEF AnalyzerStep, Moves, running, Parse, Gather, Merge
    <2>2. Count = 0 /\ score = -1
      BY <2>1 DEF CountedInv
    <2>. QED
      BY <1>4, <2>1, <2>2
  <1>. QED
    BY <1>2, <1>3, <1>5, <1>6, <1>7, Steps DEF RewriteRaises, Build, vars

LEMMA LoopStep ==
  ASSUME TypeOK, AnalysisInv, GatheredInv, LoopInv, [Next]_vars
  PROVE  LoopInv'
  <1>1. MergeTypeOK' /\ RCSInv'
    BY LoopTypes, ScoringStep, ScoreStep DEF LoopInv
  <1>2. CASE [NextMerge]_mergeVars
    BY <1>1, <1>2, MergeInvStep, OriginStep DEF LoopInv
  <1>3. CASE Gather
    <2>1. /\ ~sorted /\ sorted' = sorted /\ remaining' = remaining /\ deduplicated' = deduplicated
      BY <1>3 DEF Gather, GatheredInv
    <2>2. remaining = <<>> /\ deduplicated = <<>>
      BY <2>1 DEF LoopInv, MergeInv
    <2>3. DOMAIN remaining' = {} /\ DOMAIN deduplicated' = {}
      BY <2>1, <2>2
    <2>4. MergeInv'
      BY <1>1, <2>1, <2>2, <2>3
         DEF MergeInv, NoDuplicatesLeft, SortedBySeverity, RemainingSorted, WaitsOrRepresented
    <2>5. OriginInv'
      BY <1>1, <2>3 DEF OriginInv, OnlyFound
    <2>. QED
      BY <1>1, <2>4, <2>5 DEF LoopInv
  <1>. QED
    BY <1>2, <1>3, MergingStep

LEMMA PipelineInit == Init => PipelineInv /\ LoopInv
  <1>. SUFFICES ASSUME Init PROVE PipelineInv /\ LoopInv
    OBVIOUS
  <1>1. /\ stage = "parse" /\ contract = [source_url |-> FALSE, no_timezone |-> FALSE]
        /\ probe = "unsent" /\ errors = {}
        /\ at = [a \in Analyzer |-> "llm"] /\ result = [a \in Analyzer |-> <<>>]
        /\ found = <<>> /\ sorted = FALSE /\ remaining = <<>> /\ deduplicated = <<>>
    BY DEF Init
  <1>2. /\ <<>> \in Seq(Finding) /\ DOMAIN <<>> = {} /\ Len(<<>>) = 0
    OBVIOUS
  <1>3. RCSInv /\ Count = 0 /\ score = -1
    BY ScoreInit DEF Init, InitScore, Count, Severity
  <1>4. MergeTypeOK
    <2>1. sorted \in BOOLEAN
      BY <1>1
    <2>. QED
      BY <1>1, <1>2, <2>1 DEF MergeTypeOK
  <1>5. TypeOK
    <2>1. result \in [Analyzer -> Seq(Finding)] /\ \A a \in Analyzer : DOMAIN result[a] = {}
      BY <1>1, <1>2
    <2>2. contract \in [source_url : BOOLEAN, no_timezone : BOOLEAN]
      BY <1>1
    <2>. QED
      BY <1>1, <1>3, <1>4, <2>1, <2>2 DEF TypeOK, RCSInv
  <1>6. AnalysisInv
    BY <1>1 DEF AnalysisInv
  <1>7. GatheredInv
    BY <1>1 DEF GatheredInv
  <1>8. CountedInv
    BY <1>1, <1>2, <1>3 DEF CountedInv
  <1>9. MergeInv
    BY <1>1, <1>2, <1>4
       DEF MergeInv, NoDuplicatesLeft, SortedBySeverity, RemainingSorted, WaitsOrRepresented
  <1>10. OriginInv
    BY <1>1, <1>2, <1>4 DEF OriginInv, OnlyFound
  <1>. QED
    BY <1>3, <1>5, <1>6, <1>7, <1>8, <1>9, <1>10 DEF PipelineInv, LoopInv

\* The invariant of the stages, and those of the loops that run inside of them.
THEOREM PipelineInvariant == Spec => [](PipelineInv /\ LoopInv)
  <1>1. PipelineInv /\ LoopInv /\ [Next]_vars => PipelineInv' /\ LoopInv'
    <2>. SUFFICES ASSUME TypeOK, AnalysisInv, GatheredInv, CountedInv, LoopInv, [Next]_vars
                  PROVE  PipelineInv' /\ LoopInv'
      BY DEF PipelineInv
    <2>. QED
      BY TypeStep, AnalysisStep, GatheredStep, CountedStep, LoopStep DEF PipelineInv, LoopInv
  <1>. QED
    BY <1>1, PipelineInit, PTL DEF Spec

-----------------------------------------------------------------------------
(* What the report says *)

\* Types, and every finding under the category of its analyzer.
THEOREM TypeCorrect == Spec => []TypeOK
  <1>1. PipelineInv => TypeOK
    BY DEF PipelineInv
  <1>. QED
    BY <1>1, PipelineInvariant, PTL

\* The pipeline's scoring is the loop of RCS, so what is proved of every run of
\* that holds for every report.
THEOREM ScoringImplemented == Spec => SpecScore
  <1>1. Init => InitScore
    BY DEF Init
  <1>2. PipelineInv /\ [Next]_vars => [NextScore]_scoreVars
    BY ScoringStep DEF PipelineInv
  <1>. QED
    BY <1>1, <1>2, PipelineInvariant, PTL DEF Spec, SpecScore

\* The pipeline's merge starts from nothing found until the analyzers are through,
\* so it is no run of SpecMerge; what that promises holds of every report still:
\* by severity, without duplicates, without loss and without invention.
THEOREM ReportIsMerged ==
  Spec => [](NoDuplicatesLeft /\ SortedBySeverity /\ NothingLost /\ NothingInvented)
  <1>1. MergeInv => NoDuplicatesLeft /\ SortedBySeverity /\ NothingLost
    BY DEF MergeInv, NothingLost, Done, WaitsOrRepresented
  <1>2. OriginInv => NothingInvented
    BY DEF OriginInv, MadeOf, NothingInvented
  <1>3. LoopInv => MergeInv /\ OriginInv
    BY DEF LoopInv
  <1>. QED
    BY <1>1, <1>2, <1>3, PipelineInvariant, PTL

\* What an entry of the report is made of, once the merge is over.
LEMMA ReportEntries ==
  ASSUME PipelineInv, LoopInv, stage \in {"score", "build", "done"}
  PROVE  /\ \A k \in DOMAIN deduplicated :
              deduplicated[k] \in Finding /\ deduplicated[k].category \in Analyzer \ errors
         /\ \A a \in Analyzer : \A i \in DOMAIN result[a] :
              \E k \in DOMAIN deduplicated : Represents(deduplicated[k], result[a][i])
  <1>1. ASSUME NEW k \in DOMAIN deduplicated
        PROVE  deduplicated[k] \in Finding /\ deduplicated[k].category \in Analyzer \ errors
    <2>1. deduplicated[k] \in Finding
      BY DEF PipelineInv, TypeOK, MergeTypeOK
    <2>2. PICK i \in DOMAIN found : [found[i] EXCEPT !.evidence = deduplicated[k].evidence] = deduplicated[k]
      BY DEF LoopInv, OriginInv, MadeOf
    <2>3. found[i] \in Finding
      BY DEF PipelineInv, TypeOK, MergeTypeOK
    <2>4. deduplicated[k].category = found[i].category
      BY <2>2, <2>3 DEF Finding
    <2>5. PICK a \in Analyzer : \E j \in DOMAIN result[a] : found[i] = result[a][j]
      BY DEF PipelineInv, GatheredInv
    <2>6. found[i].category = a /\ result[a] # <<>>
      BY <2>5 DEF PipelineInv, TypeOK
    <2>7. a \notin errors
      BY <2>6 DEF PipelineInv, AnalysisInv
    <2>. QED
      BY <2>1, <2>4, <2>6, <2>7
  <1>2. ASSUME NEW a \in Analyzer, NEW i \in DOMAIN result[a]
        PROVE  \E k \in DOMAIN deduplicated : Represents(deduplicated[k], result[a][i])
    <2>1. PICK j \in DOMAIN found : found[j] = result[a][i]
      BY DEF PipelineInv, GatheredInv
    <2>2. sorted /\ DOMAIN remaining = {}
      BY DEF PipelineInv, GatheredInv, Done
    <2>. QED
      BY <2>1, <2>2 DEF LoopInv, MergeInv, WaitsOrRepresented
  <1>. QED
    BY <1>1, <1>2

\* A failure neither aborts the audit nor leaks into the report, and it costs
\* the other analyzers nothing.
THEOREM FailuresIsolated == Spec => []FailureIsIsolated
  <1>1. PipelineInv /\ LoopInv => FailureIsIsolated
    BY ReportEntries DEF FailureIsIsolated, Entry
  <1>. QED
    BY <1>1, PipelineInvariant, PTL

\* What an analyzer's finding makes of the report.
LEMMA FindingReported ==
  ASSUME PipelineInv, LoopInv, stage = "done", NEW a \in Analyzer, NEW i \in DOMAIN result[a]
  PROVE  /\ Entry(Severity, a) /\ score < 100
         /\ result[a][i].severity = "critical" => Entry({"critical"}, a) /\ score <= 50
  <1>1. PICK k \in DOMAIN deduplicated : Represents(deduplicated[k], result[a][i])
    BY ReportEntries
  <1>2. /\ deduplicated[k] \in Finding /\ result[a][i] \in Finding /\ result[a][i].category = a
        /\ deduplicated[k].category = a
    BY <1>1, ReportEntries DEF Represents, PipelineInv, TypeOK
  <1>3. Entry(Severity, a)
    BY <1>1, <1>2 DEF Entry, Finding
  <1>4. /\ score # -1 /\ Count = Len(deduplicated) /\ Count \in Nat /\ Count # 0 /\ k <= Count
        /\ score \in Int
    <2>1. score # -1 /\ Count = Len(deduplicated)
      BY DEF PipelineInv, CountedInv
    <2>2. deduplicated \in Seq(Finding) /\ score \in Int
      BY DEF PipelineInv, TypeOK, MergeTypeOK, ScoreTypeOK
    <2>3. k \in 1 .. Len(deduplicated) /\ Len(deduplicated) \in Nat
      BY <2>2
    <2>. QED
      BY <2>1, <2>2, <2>3
  <1>5. ScoreInRange /\ CriticalsDecideTheLabel
    BY ScoreBounds DEF LoopInv
  <1>6. score < 100
    BY <1>4, <1>5 DEF ScoreInRange
  <1>7. ASSUME result[a][i].severity = "critical" PROVE Entry({"critical"}, a) /\ score <= 50
    <2>1. deduplicated[k].severity = "critical"
      BY <1>1, <1>2, <1>7 DEF Represents, Rank, severity_order, Finding, Severity
    <2>2. counts["critical"] >= 1
      BY <1>4, <2>1 DEF PipelineInv, CountedInv
    <2>. QED
      BY <1>2, <1>4, <1>5, <2>1, <2>2 DEF Entry, CriticalsDecideTheLabel
  <1>. QED
    BY <1>3, <1>6, <1>7

\* A dead source is in every report and caps its score.
THEOREM DeadSourcesReported == Spec => []DeadSourceReported
  <1>1. PipelineInv /\ LoopInv => DeadSourceReported
    <2>. SUFFICES ASSUME PipelineInv, LoopInv, stage = "done", probe = "dead", "source_failure" \notin errors
                  PROVE  Entry({"critical"}, "source_failure") /\ score <= 50
      BY DEF DeadSourceReported
    <2>1. "source_failure" \in Analyzer
      BY DEF PipelineInv, AnalysisInv
    <2>2. PICK i \in DOMAIN result["source_failure"] : result["source_failure"][i].severity = "critical"
      BY DEF PipelineInv, AnalysisInv
    <2>. QED
      BY <2>1, <2>2, FindingReported
  <1>. QED
    BY <1>1, PipelineInvariant, PTL

\* So is a time without a timezone, and no report that has one is perfect.
THEOREM TimezonesReported == Spec => []TimezoneReported
  <1>1. PipelineInv /\ LoopInv => TimezoneReported
    <2>. SUFFICES ASSUME PipelineInv, LoopInv, stage = "done", contract.no_timezone,
                         "timing_ambiguity" \in Analyzer \ errors
                  PROVE  Entry(Severity, "timing_ambiguity") /\ score < 100
      BY DEF TimezoneReported
    <2>1. result["timing_ambiguity"] # <<>> /\ result["timing_ambiguity"] \in Seq(Finding)
      BY DEF PipelineInv, AnalysisInv, TypeOK
    <2>2. 1 \in DOMAIN result["timing_ambiguity"]
      BY <2>1
    <2>. QED
      BY <2>2, FindingReported
  <1>. QED
    BY <1>1, PipelineInvariant, PTL

-----------------------------------------------------------------------------
(* Every run comes to an end *)

LEMMA AnalyzersFinite == IsFiniteSet(Analyzer)
  <1>1. Analyzers \in Seq(Category) /\ DOMAIN Analyzers = 1 .. Len(Analyzers) /\ Len(Analyzers) \in Nat
    BY AnalyzersAssumption DEF AnalyzersAssumption
  <1>2. IsFiniteSet(1 .. Len(Analyzers))
    BY <1>1, FS_Interval
  <1>3. Analyzers \in Surjection(1 .. Len(Analyzers), Analyzer)
    BY <1>1 DEF Surjection, Analyzer, Range
  <1>. QED
    BY <1>2, <1>3, FS_Surjection

\* A step of an analyzer, by what the others see of it.
GetsOn(a) ==
  /\ stage = "analyze" /\ UNCHANGED running
  /\ \/ at[a] = "llm" /\ at' = [at EXCEPT ![a] = "post"]
     \/ at[a] # "returned" /\ at' = [at EXCEPT ![a] = "returned"]

\* It takes the analyzer from one of two sets or from both, and adds it to none.
LEMMA FewerAtWork ==
  ASSUME TypeOK, NEW a \in Analyzer, GetsOn(a)
  PROVE  StepsLeft' \in Nat /\ stage' = stage /\ StepsLeft' < StepsLeft
  <1>. DEFINE L == {b \in Analyzer : at[b] = "llm"}
              R == {b \in Analyzer : at[b] # "returned"}
              L2 == {b \in Analyzer : at'[b] = "llm"}
              R2 == {b \in Analyzer : at'[b] # "returned"}
  <1>1. at \in [Analyzer -> {"llm", "post", "returned"}] /\ a \in Analyzer
    BY DEF TypeOK
  <1>2. stage = "analyze" /\ stage' = "analyze"
    BY DEF GetsOn, running
  <1>3. StepsLeft = Cardinality(L) + Cardinality(R) /\ StepsLeft' = Cardinality(L2) + Cardinality(R2)
    BY <1>2 DEF StepsLeft
  <1>4. /\ a \in R /\ L2 = L \ {a}
        /\ (R2 = R /\ a \in L) \/ R2 = R \ {a}
    <2>1. CASE at[a] = "llm" /\ at' = [at EXCEPT ![a] = "post"]
      BY <1>1, <2>1
    <2>2. CASE at[a] # "returned" /\ at' = [at EXCEPT ![a] = "returned"]
      BY <1>1, <2>2
    <2>. QED
      BY <2>1, <2>2 DEF GetsOn
  <1>5. IsFiniteSet(L) /\ IsFiniteSet(R)
    BY AnalyzersFinite, FS_Subset
  <1>. HIDE DEF L, R, L2, R2
  <1>6. /\ Cardinality(L) \in Nat /\ Cardinality(R) \in Nat
        /\ Cardinality(L \ {a}) \in Nat /\ Cardinality(R \ {a}) \in Nat
        /\ Cardinality(L \ {a}) = IF a \in L THEN Cardinality(L) - 1 ELSE Cardinality(L)
        /\ Cardinality(R \ {a}) = IF a \in R THEN Cardinality(R) - 1 ELSE Cardinality(R)
    BY <1>5, FS_RemoveElement, FS_CardinalityType
  <1>7. Cardinality(L2) + Cardinality(R2) \in Nat
    BY <1>4, <1>6
  <1>8. Cardinality(L2) + Cardinality(R2) < Cardinality(L) + Cardinality(R)
    <2>1. CASE R2 = R /\ a \in L
      BY <1>4, <1>6, <2>1
    <2>2. CASE R2 = R \ {a}
      BY <1>4, <1>6, <2>2
    <2>. QED
      BY <1>4, <2>1, <2>2
  <1>. QED
    BY <1>2, <1>3, <1>7, <1>8

LEMMA FewerToMerge ==
  ASSUME TypeOK, MergeInv, Merge
  PROVE  StepsLeft' \in Nat /\ stage' = stage /\ StepsLeft' < StepsLeft
  <1>1. stage = "merge" /\ stage' = "merge" /\ NextMerge
    BY DEF Merge
  <1>2. /\ StepsLeft = IF sorted THEN Len(remaining) ELSE Len(found) + 1
        /\ StepsLeft' = IF sorted' THEN Len(remaining') ELSE Len(found') + 1
    BY <1>1 DEF StepsLeft
  <1>3. found \in Seq(Finding) /\ remaining \in Seq(Finding) /\ sorted \in BOOLEAN
    BY DEF TypeOK, MergeTypeOK
  <1>4. CASE Sort
    <2>. DEFINE order == SortOrder(found)
    <2>1. ~sorted /\ sorted' /\ remaining' = [i \in DOMAIN found |-> found[order[i]]]
      BY <1>4 DEF Sort
    <2>. HIDE DEF order
    <2>2. Len(found) \in Nat /\ DOMAIN found = 1 .. Len(found)
      BY <1>3
    <2>3. Len(remaining') = Len(found)
      BY <2>1, <2>2
    <2>. QED
      BY <1>1, <1>2, <2>1, <2>2, <2>3
  <1>5. CASE KeepFinding \/ \E i \in DOMAIN deduplicated : MergeDuplicate(i)
    <2>1. remaining # <<>> /\ remaining' = Tail(remaining) /\ sorted' = sorted /\ found' = found
      BY <1>5 DEF KeepFinding, MergeDuplicate
    <2>2. Len(remaining') \in Nat /\ Len(remaining') = Len(remaining) - 1
      BY <1>3, <2>1
    <2>3. sorted
      BY <1>3, <2>1 DEF MergeInv
    <2>. QED
      BY <1>1, <1>2, <1>3, <2>1, <2>2, <2>3
  <1>. QED
    BY <1>1, <1>4, <1>5 DEF NextMerge

LEMMA FewerToScore ==
  ASSUME TypeOK, CountedInv, ScoreFinding
  PROVE  StepsLeft' \in Nat /\ stage' = stage /\ StepsLeft' < StepsLeft
  <1>. DEFINE f == deduplicated[Count + 1]
  <1>1. /\ stage = "score" /\ stage' = "score" /\ Count < Len(deduplicated)
        /\ deduplicated' = deduplicated /\ AddFinding(f.severity, f.category)
    BY DEF ScoreFinding, mergeVars
  <1>2. Count \in Nat /\ Len(deduplicated) \in Nat
    BY DEF TypeOK, MergeTypeOK, ScoreTypeOK, Count, Severity
  <1>3. f \in Finding
    BY <1>1, <1>2 DEF TypeOK, MergeTypeOK
  <1>. HIDE DEF f
  <1>4. Count' = Count + 1
    <2>1. ScoreTypeOK /\ f.severity \in Severity
      BY <1>3 DEF TypeOK, Finding
    <2>2. counts' = [counts EXCEPT ![f.severity] = @ + 1]
      BY <1>1 DEF AddFinding
    <2>. QED
      BY <2>1, <2>2, CountGrows
  <1>5. StepsLeft = Len(deduplicated) - Count /\ StepsLeft' = Len(deduplicated') - Count'
    BY <1>1 DEF StepsLeft
  <1>. QED
    BY <1>1, <1>2, <1>4, <1>5

\* The stages follow each other, and what is left in one is finite.
LEMMA LaterStages ==
  /\ Later("analyze", "parse") /\ Later("raised", "parse") /\ Later("merge", "analyze")
  /\ Later("score", "merge") /\ Later("build", "score") /\ Later("raised", "score")
  /\ Later("done", "build") /\ Later("raised", "build")
  <1>1. DOMAIN Stages = 1 .. 7
    BY DEF Stages
  <1>2. /\ Stages[1] = "parse" /\ Stages[2] = "analyze" /\ Stages[3] = "merge" /\ Stages[4] = "score"
        /\ Stages[5] = "build" /\ Stages[6] = "done" /\ Stages[7] = "raised"
    BY DEF Stages
  <1>. HIDE DEF Stages
  <1>. QED
    BY <1>1, <1>2 DEF Later

LEMMA StepsAreCounted == PipelineInv => StepsLeft \in Nat
  <1>. SUFFICES ASSUME TypeOK, CountedInv PROVE StepsLeft \in Nat
    BY DEF PipelineInv
  <1>1. CASE stage = "analyze"
    <2>. DEFINE L == {b \in Analyzer : at[b] = "llm"}
                R == {b \in Analyzer : at[b] # "returned"}
    <2>1. Cardinality(L) \in Nat /\ Cardinality(R) \in Nat
      BY AnalyzersFinite, FS_Subset, FS_CardinalityType
    <2>2. StepsLeft = Cardinality(L) + Cardinality(R)
      BY <1>1 DEF StepsLeft
    <2>. HIDE DEF L, R
    <2>. QED
      BY <2>1, <2>2
  <1>2. CASE stage = "merge"
    BY <1>2 DEF StepsLeft, TypeOK, MergeTypeOK
  <1>3. CASE stage = "score"
    <2>1. Count \in Nat /\ Len(deduplicated) \in Nat /\ Count <= Len(deduplicated)
      BY DEF TypeOK, MergeTypeOK, ScoreTypeOK, CountedInv, Count, Severity
    <2>2. StepsLeft = Len(deduplicated) - Count
      BY <1>3 DEF StepsLeft
    <2>. QED
      BY <2>1, <2>2
  <1>4. CASE stage \notin {"analyze", "merge", "score"}
    BY <1>4 DEF StepsLeft
  <1>. QED
    BY <1>1, <1>2, <1>3, <1>4

\* What the analyzers, the merge and the score do is finite: with any analyzers
\* and whatever they find, no run of the pipeline goes on forever.
THEOREM StepsRunOut == Spec => StepsUsedUp
  <1>1. ASSUME PipelineInv, LoopInv, Next
        PROVE  Later(stage', stage) \/ (stage' = stage /\ StepsLeft' < StepsLeft)
    <2>. USE <1>1 DEF PipelineInv, LoopInv
    <2>1. CASE \E a \in Analyzer : GetsOn(a)
      BY <2>1, FewerAtWork
    <2>2. CASE Merge
      BY <2>2, FewerToMerge
    <2>3. CASE ScoreFinding
      BY <2>3, FewerToScore
    <2>4. CASE Parse \/ Gather \/ Merged \/ Score \/ RewriteRaises \/ Build
      BY <2>4, LaterStages DEF Parse, Gather, Merged, Score, RewriteRaises, Build
    <2>5. (\E a \in Analyzer : LLMAnswers(a) \/ LLMFails(a) \/ PostProcess(a) \/ TimeOut(a))
            => \E a \in Analyzer : GetsOn(a)
      BY DEF LLMAnswers, LLMFails, PostProcess, TimeOut, Return, GetsOn
    <2>6. "source_failure" \in Analyzer /\ ProbeSource => \E a \in Analyzer : GetsOn(a)
      BY DEF ProbeSource, Return, GetsOn
    <2>7. "timing_ambiguity" \in Analyzer /\ CheckTimezone => \E a \in Analyzer : GetsOn(a)
      BY DEF CheckTimezone, Return, GetsOn
    <2>. QED
      BY <2>1, <2>2, <2>3, <2>4, <2>5, <2>6, <2>7 DEF Next
  <1>2. PipelineInv /\ LoopInv /\ (StepsLeft \in Nat)' /\ [Next]_vars
          => [/\ StepsLeft' \in Nat
              /\ Later(stage', stage) \/ (stage' = stage /\ StepsLeft' < StepsLeft)]_vars
    BY <1>1
  <1>. QED
    BY <1>2, StepsAreCounted, PipelineInvariant, PTL DEF Spec, StepsUsedUp

=============================================================================
