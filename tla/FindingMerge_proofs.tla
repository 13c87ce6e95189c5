------------------------- MODULE FindingMerge_proofs -------------------------
(***************************************************************************)
(* Proofs about FindingMerge, for lists of findings of any length, on any  *)
(* clauses.                                                                *)
(***************************************************************************)
EXTENDS FindingMerge, FiniteSetTheorems, TLAPS

\* What one turn of the loop takes from the front.
LEMMA HeadTail ==
  ASSUME NEW S, NEW s \in Seq(S), s # <<>>
  PROVE  /\ Head(s) \in S
         /\ Head(s) = s[1] /\ 1 \in DOMAIN s
         /\ Tail(s) \in Seq(S)
         /\ \A i \in DOMAIN Tail(s) : i + 1 \in DOMAIN s /\ Tail(s)[i] = s[i + 1]
         /\ \A i \in DOMAIN s : i # 1 => i - 1 \in DOMAIN Tail(s) /\ Tail(s)[i - 1] = s[i]
         /\ DOMAIN Tail(s) \subseteq Int /\ DOMAIN s \subseteq Int
  OBVIOUS

\* Ranks are numbers.
LEMMA RankType == \A f \in Finding : Rank(f) \in 0 .. 3
  BY DEF Finding, Rank, severity_order, Severity

-----------------------------------------------------------------------------
(* The sort *)

\* Where a finding comes to stand: behind those that go before it.
Place(i) == Cardinality(Predecessors(found, i)) + 1

\* Each place has at most one finding, and a place before another one a finding
\* that is as severe.
LEMMA PlacesDiffer ==
  ASSUME found \in Seq(Finding)
  PROVE  /\ \A i \in DOMAIN found : Place(i) \in DOMAIN found
         /\ \A i, j \in DOMAIN found : GoesBefore(found, j, i) => Place(j) < Place(i)
         /\ \A i, j \in DOMAIN found : i # j => GoesBefore(found, i, j) \/ GoesBefore(found, j, i)
  <1>. DEFINE n == Len(found)
  <1>1. DOMAIN found = 1 .. n /\ n \in Nat
    OBVIOUS
  <1>2. \A i \in 1 .. n : Rank(found[i]) \in 0 .. 3
    BY RankType
  <1>3. IsFiniteSet(1 .. n) /\ Cardinality(1 .. n) = n
    BY <1>1, FS_Interval
  <1>4. \A i \in 1 .. n : /\ Predecessors(found, i) \subseteq 1 .. n
                           /\ i \notin Predecessors(found, i)
                           /\ IsFiniteSet(Predecessors(found, i))
                           /\ Cardinality(Predecessors(found, i)) \in Nat
    <2>. SUFFICES ASSUME NEW i \in 1 .. n
                  PROVE  /\ Predecessors(found, i) \subseteq 1 .. n
                         /\ i \notin Predecessors(found, i)
                         /\ IsFiniteSet(Predecessors(found, i))
                         /\ Cardinality(Predecessors(found, i)) \in Nat
      OBVIOUS
    <2>1. Predecessors(found, i) \subseteq 1 .. n
      BY <1>1 DEF Predecessors
    <2>2. i \notin Predecessors(found, i)
      BY <1>1, <1>2 DEF Predecessors, GoesBefore
    <2>. QED
      BY <1>3, <2>1, <2>2, FS_Subset, FS_CardinalityType
  <1>5. \A i \in 1 .. n : Place(i) \in 1 .. n
    <2>. SUFFICES ASSUME NEW i \in 1 .. n PROVE Place(i) \in 1 .. n
      OBVIOUS
    <2>1. Predecessors(found, i) \subseteq (1 .. n) /\ Predecessors(found, i) # 1 .. n
      BY <1>4
    <2>2. /\ Cardinality(Predecessors(found, i)) <= Cardinality(1 .. n)
          /\ Cardinality(1 .. n) # Cardinality(Predecessors(found, i))
      BY <1>3, <2>1, FS_Subset
    <2>. QED
      BY <1>1, <1>3, <1>4, <2>2 DEF Place
  <1>6. ASSUME NEW i \in 1 .. n, NEW j \in 1 .. n, GoesBefore(found, j, i)
        PROVE  Place(j) < Place(i)
    <2>1. \A k \in 1 .. n : GoesBefore(found, k, j) => GoesBefore(found, k, i)
      BY <1>2, <1>6 DEF GoesBefore
    <2>2. Predecessors(found, j) \subseteq Predecessors(found, i)
      BY <1>1, <2>1 DEF Predecessors
    <2>3. j \in Predecessors(found, i)
      BY <1>1, <1>6 DEF Predecessors
    <2>4. Predecessors(found, j) # Predecessors(found, i)
      BY <1>4, <2>3
    <2>5. Cardinality(Predecessors(found, j)) < Cardinality(Predecessors(found, i))
      BY <1>4, <2>2, <2>4, FS_Subset
    <2>. QED
      BY <1>4, <2>5 DEF Place
  <1>7. \A i, j \in 1 .. n : i # j => GoesBefore(found, i, j) \/ GoesBefore(found, j, i)
    BY <1>2 DEF GoesBefore
  <1>. QED
    BY <1>1, <1>5, <1>6, <1>7

\* The sort by severity is one, and stable as list.sort is: every finding is in
\* the sorted list, behind the more severe ones and behind those that are as
\* severe and were found before it.
THEOREM SortIsStable ==
  ASSUME found \in Seq(Finding)
  PROVE  LET order == SortOrder(found) IN
         /\ order \in [DOMAIN found -> DOMAIN found]
         /\ \A i \in DOMAIN found : \E k \in DOMAIN found : order[k] = i
         /\ \A k, l \in DOMAIN found : k < l => GoesBefore(found, order[k], order[l])
  <1>. DEFINE order == SortOrder(found)
              D == DOMAIN found
              n == Len(found)
              place == [i \in D |-> Place(i)]
  <1>0. D = 1 .. n /\ n \in Nat
    OBVIOUS
  <1>1. D = 1 .. n /\ n \in Nat /\ IsFiniteSet(D) /\ Cardinality(D) = n
    BY <1>0, FS_Interval
  <1>2. \A i, j \in D : i # j => Place(i) # Place(j)
    <2>. SUFFICES ASSUME NEW i \in D, NEW j \in D, i # j PROVE Place(i) # Place(j)
      OBVIOUS
    <2>1. Place(i) \in Int /\ Place(j) \in Int
      BY <1>1, PlacesDiffer
    <2>2. Place(i) < Place(j) \/ Place(j) < Place(i)
      BY PlacesDiffer
    <2>. QED
      BY <2>1, <2>2
  <1>3. ASSUME NEW k \in D PROVE \E i \in D : Place(i) = k
    <2>. SUFFICES ASSUME \A i \in D : Place(i) # k PROVE FALSE
      OBVIOUS
    <2>1. place \in [D -> D \ {k}]
      BY PlacesDiffer
    <2>2. IsFiniteSet(D \ {k}) /\ Cardinality(D \ {k}) = n - 1
      BY <1>1, FS_RemoveElement
    <2>3. Cardinality(D \ {k}) < Cardinality(D)
      BY <1>1, <2>2
    <2>4. \E i, j \in D : i # j /\ place[i] = place[j]
      <3>. DEFINE rest == D \ {k}
      <3>1. IsFiniteSet(D) /\ IsFiniteSet(rest) /\ Cardinality(rest) < Cardinality(D) /\ place \in [D -> rest]
        BY <1>1, <2>1, <2>2, <2>3
      <3>. HIDE DEF place, D, rest
      <3>. QED
        BY <3>1, FS_PigeonHole, Zenon
    <2>. QED
      BY <1>2, <2>4
  <1>4. \A k \in D : order[k] \in D /\ Place(order[k]) = k
    <2>. SUFFICES ASSUME NEW k \in D PROVE order[k] \in D /\ Place(order[k]) = k
      OBVIOUS
    <2>1. order[k] = CHOOSE i \in D : Cardinality(Predecessors(found, i)) = k - 1
      BY DEF SortOrder
    <2>2. PICK i \in D : Place(i) = k
      BY <1>3
    <2>3. k \in Int
      BY <1>1
    <2>4. \A j \in D : Predecessors(found, j) \subseteq D
      BY DEF Predecessors
    <2>5. \A j \in D : Cardinality(Predecessors(found, j)) \in Int
      BY <1>1, <2>4, FS_Subset, FS_CardinalityType
    <2>6. Cardinality(Predecessors(found, i)) = k - 1
      BY <2>2, <2>3, <2>5 DEF Place
    <2>7. order[k] \in D /\ Cardinality(Predecessors(found, order[k])) = k - 1
      BY <2>1, <2>6
    <2>. QED
      BY <2>3, <2>5, <2>7 DEF Place
  <1>5. order \in [D -> D]
    BY <1>4 DEF SortOrder
  <1>6. ASSUME NEW i \in D PROVE \E k \in D : order[k] = i
    <2>1. Place(i) \in D
      BY PlacesDiffer
    <2>2. order[Place(i)] \in D /\ Place(order[Place(i)]) = Place(i)
      BY <1>4, <2>1
    <2>3. order[Place(i)] = i
      BY <1>2, <2>2
    <2>. QED
      BY <2>1, <2>3
  <1>7. ASSUME NEW k \in D, NEW l \in D, k < l
        PROVE  GoesBefore(found, order[k], order[l])
    <2>. DEFINE a == order[k]
                b == order[l]
    <2>1. a \in D /\ b \in D /\ Place(a) = k /\ Place(b) = l
      BY <1>4
    <2>. HIDE DEF a, b, order
    <2>2. a # b /\ ~(Place(b) < Place(a))
      BY <1>1, <1>7, <2>1
    <2>3. ~GoesBefore(found, b, a)
      BY <2>1, <2>2, PlacesDiffer
    <2>4. GoesBefore(found, a, b)
      BY <2>1, <2>2, <2>3, PlacesDiffer
    <2>. QED
      BY <2>4 DEF a, b
  <1>. QED
    BY <1>5, <1>6, <1>7

\* What the loop is given after the sort.
LEMMA SortResult ==
  ASSUME found \in Seq(Finding), Sort
  PROVE  /\ remaining' \in Seq(Finding)
         /\ \A r \in DOMAIN remaining' : \E i \in DOMAIN found : found[i] = remaining'[r]
         /\ \A i \in DOMAIN found : \E r \in DOMAIN remaining' : remaining'[r] = found[i]
         /\ \A k, l \in DOMAIN remaining' : k < l => Rank(remaining'[k]) <= Rank(remaining'[l])
  <1>. DEFINE order == SortOrder(found)
  <1>1. remaining' = [i \in DOMAIN found |-> found[order[i]]]
    BY DEF Sort
  <1>2. DOMAIN found = 1 .. Len(found) /\ Len(found) \in Nat
    OBVIOUS
  <1>. HIDE DEF order
  <1>3. /\ order \in [DOMAIN found -> DOMAIN found]
        /\ \A i \in DOMAIN found : \E k \in DOMAIN found : order[k] = i
        /\ \A k, l \in DOMAIN found : k < l => GoesBefore(found, order[k], order[l])
    BY SortIsStable DEF order
  <1>4. \A i \in DOMAIN found : found[order[i]] \in Finding
    BY <1>3
  <1>5. remaining' \in Seq(Finding)
    BY <1>1, <1>2, <1>4
  <1>6. \A k, l \in DOMAIN found : k < l => Rank(found[order[k]]) <= Rank(found[order[l]])
    <2>1. \A k \in DOMAIN found : Rank(found[order[k]]) \in 0 .. 3
      BY <1>4, RankType
    <2>2. \A k, l \in DOMAIN found : GoesBefore(found, order[k], order[l]) =>
            Rank(found[order[k]]) <= Rank(found[order[l]])
      BY <2>1 DEF GoesBefore
    <2>. HIDE DEF order
    <2>. QED
      BY <1>3, <2>2, Zenon
  <1>. QED
    BY <1>1, <1>3, <1>5, <1>6

-----------------------------------------------------------------------------
(* Types *)

LEMMA MergeTypeInit == InitMerge => MergeTypeOK
  <1>. SUFFICES ASSUME InitMerge PROVE MergeTypeOK
    OBVIOUS
  <1>1. found \in Seq(Finding) /\ remaining = <<>> /\ deduplicated = <<>>
    BY FoundAssumption DEF InitMerge
  <1>2. sorted \in BOOLEAN
    BY DEF InitMerge
  <1>. QED
    BY <1>1, <1>2 DEF MergeTypeOK

LEMMA MergeTypeStep == MergeTypeOK /\ [NextMerge]_mergeVars => MergeTypeOK'
  <1>. SUFFICES ASSUME MergeTypeOK, [NextMerge]_mergeVars PROVE MergeTypeOK'
    OBVIOUS
  <1>1. CASE Sort
    BY <1>1, SortResult DEF Sort, MergeTypeOK
  <1>2. CASE KeepFinding
    BY <1>2, HeadTail DEF KeepFinding, MergeTypeOK
  <1>3. ASSUME NEW i \in DOMAIN deduplicated, MergeDuplicate(i) PROVE MergeTypeOK'
    <2>1. Head(remaining) \in Finding /\ Tail(remaining) \in Seq(Finding)
      BY <1>3, HeadTail DEF MergeDuplicate, MergeTypeOK
    <2>2. deduplicated[i] \in Finding
      BY DEF MergeTypeOK
    <2>3. [deduplicated[i] EXCEPT !.evidence = @ \cup Head(remaining).evidence] \in Finding
      BY <2>1, <2>2 DEF Finding
    <2>. QED
      BY <1>3, <2>1, <2>3 DEF MergeDuplicate, MergeTypeOK
  <1>4. CASE UNCHANGED mergeVars
    BY <1>4 DEF mergeVars, MergeTypeOK
  <1>. QED
    BY <1>1, <1>2, <1>3, <1>4 DEF NextMerge

\* Types, for every state of every run.
THEOREM MergeTypeCorrect == SpecMerge => []MergeTypeOK
  BY MergeTypeInit, MergeTypeStep, PTL DEF SpecMerge

-----------------------------------------------------------------------------
(* The inductive invariant, one lemma for each action *)

LEMMA SortStep == MergeInv /\ MergeTypeOK' /\ Sort => MergeInv'
  <1>. SUFFICES ASSUME MergeInv, MergeTypeOK', Sort PROVE MergeInv'
    OBVIOUS
  <1>1. /\ found \in Seq(Finding) /\ found' = found /\ sorted' = TRUE
        /\ deduplicated = <<>> /\ deduplicated' = <<>>
        /\ DOMAIN deduplicated = {} /\ DOMAIN deduplicated' = {}
    BY DEF Sort, MergeInv, MergeTypeOK
  <1>2. /\ \A i \in DOMAIN found : \E r \in DOMAIN remaining' : remaining'[r] = found[i]
        /\ \A k, l \in DOMAIN remaining' : k < l => Rank(remaining'[k]) <= Rank(remaining'[l])
    BY <1>1, SortResult
  <1>3. RemainingSorted' /\ WaitsOrRepresented'
    BY <1>1, <1>2 DEF RemainingSorted, WaitsOrRepresented
  <1>4. NoDuplicatesLeft' /\ SortedBySeverity'
    BY <1>1 DEF NoDuplicatesLeft, SortedBySeverity
  <1>. QED
    BY <1>1, <1>3, <1>4 DEF MergeInv

\* Both turns of the loop take the first remaining finding away.
LEMMA RestStaysSorted ==
  ASSUME MergeInv, remaining # <<>>, remaining' = Tail(remaining),
         \A k \in DOMAIN deduplicated' :
            \/ k \in DOMAIN deduplicated /\ Rank(deduplicated'[k]) = Rank(deduplicated[k])
            \/ Rank(deduplicated'[k]) = Rank(Head(remaining))
  PROVE  RemainingSorted'
  <1>1. remaining \in Seq(Finding)
    BY DEF MergeInv, MergeTypeOK
  <1>2. ASSUME NEW i \in DOMAIN remaining', NEW j \in DOMAIN remaining', i < j
        PROVE  Rank(remaining'[i]) <= Rank(remaining'[j])
    <2>1. /\ i + 1 \in DOMAIN remaining /\ j + 1 \in DOMAIN remaining /\ i + 1 < j + 1
          /\ remaining'[i] = remaining[i + 1] /\ remaining'[j] = remaining[j + 1]
      BY <1>1, <1>2, HeadTail
    <2>. QED
      BY <2>1 DEF MergeInv, RemainingSorted
  <1>3. ASSUME NEW k \in DOMAIN deduplicated', NEW i \in DOMAIN remaining'
        PROVE  Rank(deduplicated'[k]) <= Rank(remaining'[i])
    <2>1. /\ i + 1 \in DOMAIN remaining /\ 1 \in DOMAIN remaining /\ 1 < i + 1
          /\ remaining'[i] = remaining[i + 1] /\ Head(remaining) = remaining[1]
      <3>1. DOMAIN Tail(remaining) = 1 .. Len(remaining) - 1 /\ Len(remaining) \in Nat
        BY <1>1
      <3>. QED
        BY <1>1, <1>3, <3>1, HeadTail
    <2>2. CASE k \in DOMAIN deduplicated /\ Rank(deduplicated'[k]) = Rank(deduplicated[k])
      BY <2>1, <2>2 DEF MergeInv, RemainingSorted
    <2>3. CASE Rank(deduplicated'[k]) = Rank(Head(remaining))
      BY <2>1, <2>3 DEF MergeInv, RemainingSorted
    <2>. QED
      BY <2>2, <2>3
  <1>. QED
    BY <1>2, <1>3 DEF RemainingSorted

LEMMA KeepStep == MergeInv /\ MergeTypeOK' /\ KeepFinding => MergeInv'
  <1>. SUFFICES ASSUME MergeInv, MergeTypeOK', KeepFinding PROVE MergeInv'
    OBVIOUS
  <1>. DEFINE f == Head(remaining)
              n == Len(deduplicated)
  <1>1. /\ remaining \in Seq(Finding) /\ remaining # <<>> /\ f \in Finding
        /\ deduplicated \in Seq(Finding) /\ n \in Nat
        /\ remaining' = Tail(remaining) /\ found' = found /\ sorted' = sorted
        /\ sorted
    BY HeadTail DEF MergeInv, MergeTypeOK, KeepFinding
  <1>2. /\ DOMAIN deduplicated = 1 .. n /\ DOMAIN deduplicated' = 1 .. n + 1
        /\ \A k \in 1 .. n : deduplicated'[k] = deduplicated[k]
        /\ deduplicated'[n + 1] = f
    BY <1>1 DEF KeepFinding
  <1>3. NoDuplicatesLeft'
    <2>. SUFFICES ASSUME NEW i \in 1 .. n + 1, NEW j \in 1 .. n + 1, i < j
                  PROVE  ~Duplicate(deduplicated'[i], deduplicated'[j])
      BY <1>2 DEF NoDuplicatesLeft
    <2>1. i \in 1 .. n
      BY <1>1
    <2>2. CASE j = n + 1
      BY <1>2, <2>1, <2>2 DEF KeepFinding
    <2>3. CASE j \in 1 .. n
      BY <1>2, <2>1, <2>3 DEF MergeInv, NoDuplicatesLeft
    <2>4. j = n + 1 \/ j \in 1 .. n
      BY <1>1
    <2>. QED
      BY <2>2, <2>3, <2>4
  <1>4. SortedBySeverity'
    <2>. SUFFICES ASSUME NEW i \in 1 .. n + 1, NEW j \in 1 .. n + 1, i < j
                  PROVE  Rank(deduplicated'[i]) <= Rank(deduplicated'[j])
      BY <1>2 DEF SortedBySeverity
    <2>1. i \in 1 .. n
      BY <1>1
    <2>2. CASE j = n + 1
      <3>1. 1 \in DOMAIN remaining /\ remaining[1] = f
        BY <1>1, HeadTail
      <3>. QED
        BY <1>2, <2>1, <2>2, <3>1 DEF MergeInv, RemainingSorted
    <2>3. CASE j \in 1 .. n
      BY <1>2, <2>1, <2>3 DEF MergeInv, SortedBySeverity
    <2>4. j = n + 1 \/ j \in 1 .. n
      BY <1>1
    <2>. QED
      BY <2>2, <2>3, <2>4
  <1>5. RemainingSorted'
    <2>1. \A k \in DOMAIN deduplicated' :
            \/ k \in DOMAIN deduplicated /\ Rank(deduplicated'[k]) = Rank(deduplicated[k])
            \/ Rank(deduplicated'[k]) = Rank(f)
      BY <1>1, <1>2
    <2>. QED
      BY <1>1, <2>1, RestStaysSorted
  <1>6. WaitsOrRepresented'
    <2>. SUFFICES ASSUME NEW i \in DOMAIN found
                  PROVE  \/ \E r \in DOMAIN remaining' : remaining'[r] = found[i]
                         \/ \E k \in DOMAIN deduplicated' : Represents(deduplicated'[k], found[i])
      BY <1>1 DEF WaitsOrRepresented
    <2>1. CASE \E k \in DOMAIN deduplicated : Represents(deduplicated[k], found[i])
      BY <1>1, <1>2, <2>1
    <2>2. ASSUME NEW r \in DOMAIN remaining, remaining[r] = found[i], r # 1
          PROVE  \E q \in DOMAIN remaining' : remaining'[q] = found[i]
      <3>1. r - 1 \in DOMAIN Tail(remaining) /\ Tail(remaining)[r - 1] = found[i]
        BY <1>1, <2>2, HeadTail
      <3>. QED
        BY <1>1, <3>1
    <2>3. CASE f = found[i]
      <3>1. Represents(f, f)
        BY <1>1, RankType DEF Represents
      <3>. QED
        BY <1>1, <1>2, <2>3, <3>1
    <2>. QED
      BY <1>1, <2>1, <2>2, <2>3, HeadTail DEF MergeInv, WaitsOrRepresented
  <1>. QED
    BY <1>1, <1>3, <1>4, <1>5, <1>6 DEF MergeInv

LEMMA MergeStep ==
  ASSUME MergeInv, MergeTypeOK', NEW i \in DOMAIN deduplicated, MergeDuplicate(i)
  PROVE  MergeInv'
  <1>. DEFINE f == Head(remaining)
  <1>1. /\ remaining \in Seq(Finding) /\ remaining # <<>> /\ f \in Finding
        /\ 1 \in DOMAIN remaining /\ remaining[1] = f
        /\ deduplicated \in Seq(Finding)
        /\ remaining' = Tail(remaining) /\ found' = found /\ sorted' = sorted
        /\ sorted
    BY HeadTail DEF MergeInv, MergeTypeOK, MergeDuplicate
  <1>2. /\ DOMAIN deduplicated' = DOMAIN deduplicated
        /\ \A k \in DOMAIN deduplicated :
             /\ deduplicated'[k].category = deduplicated[k].category
             /\ deduplicated'[k].severity = deduplicated[k].severity
             /\ deduplicated'[k].clause = deduplicated[k].clause
             /\ deduplicated[k].evidence \subseteq deduplicated'[k].evidence
        /\ f.evidence \subseteq deduplicated'[i].evidence
    <2>1. \A k \in DOMAIN deduplicated : deduplicated[k] \in Finding
      BY <1>1
    <2>2. deduplicated' = [deduplicated EXCEPT ![i].evidence = @ \cup f.evidence]
      BY DEF MergeDuplicate
    <2>3. deduplicated'[i] = [deduplicated[i] EXCEPT !.evidence = @ \cup f.evidence]
      BY <2>2
    <2>4. \A k \in DOMAIN deduplicated : k # i => deduplicated'[k] = deduplicated[k]
      BY <2>2
    <2>5. DOMAIN deduplicated' = DOMAIN deduplicated
      BY <2>2
    <2>. QED
      BY <2>1, <2>3, <2>4, <2>5 DEF Finding
  <1>3. \A k \in DOMAIN deduplicated : Rank(deduplicated'[k]) = Rank(deduplicated[k])
    BY <1>2 DEF Rank
  <1>4. NoDuplicatesLeft'
    BY <1>2 DEF MergeInv, NoDuplicatesLeft, Duplicate
  <1>5. SortedBySeverity'
    BY <1>2, <1>3 DEF MergeInv, SortedBySeverity
  <1>6. RemainingSorted'
    BY <1>1, <1>2, <1>3, RestStaysSorted
  <1>7. \A g \in Finding : \A k \in DOMAIN deduplicated :
          Represents(deduplicated[k], g) => Represents(deduplicated'[k], g)
    BY <1>2, <1>3 DEF Represents
  <1>8. Represents(deduplicated'[i], f)
    <2>1. Rank(deduplicated[i]) <= Rank(f)
      BY <1>1 DEF MergeInv, RemainingSorted
    <2>2. Duplicate(deduplicated[i], f)
      BY DEF MergeDuplicate, Swallows
    <2>. QED
      BY <1>2, <1>3, <2>1, <2>2 DEF Represents, Duplicate
  <1>9. WaitsOrRepresented'
    <2>. SUFFICES ASSUME NEW j \in DOMAIN found
                  PROVE  \/ \E r \in DOMAIN remaining' : remaining'[r] = found[j]
                         \/ \E k \in DOMAIN deduplicated' : Represents(deduplicated'[k], found[j])
      BY <1>1 DEF WaitsOrRepresented
    <2>1. found[j] \in Finding
      BY DEF MergeInv, MergeTypeOK
    <2>2. CASE \E k \in DOMAIN deduplicated : Represents(deduplicated[k], found[j])
      BY <1>2, <1>7, <2>1, <2>2
    <2>3. ASSUME NEW r \in DOMAIN remaining, remaining[r] = found[j], r # 1
          PROVE  \E q \in DOMAIN remaining' : remaining'[q] = found[j]
      <3>1. r - 1 \in DOMAIN Tail(remaining) /\ Tail(remaining)[r - 1] = found[j]
        BY <1>1, <2>3, HeadTail
      <3>. QED
        BY <1>1, <3>1
    <2>4. CASE f = found[j]
      BY <1>2, <1>8, <2>4
    <2>. QED
      BY <1>1, <2>2, <2>3, <2>4 DEF MergeInv, WaitsOrRepresented
  <1>. QED
    BY <1>1, <1>4, <1>5, <1>6, <1>9 DEF MergeInv

LEMMA MergeInvStep == MergeInv /\ MergeTypeOK' /\ [NextMerge]_mergeVars => MergeInv'
  <1>1. MergeInv /\ UNCHANGED mergeVars => MergeInv'
    BY DEF mergeVars, MergeInv, MergeTypeOK, NoDuplicatesLeft, SortedBySeverity,
       RemainingSorted, WaitsOrRepresented
  <1>. QED
    BY <1>1, SortStep, KeepStep, MergeStep DEF NextMerge

\* At every turn of the loop what is kept is sorted and without duplicates, and what
\* was found is kept, represented or still to come.
THEOREM MergeInvariant == SpecMerge => []MergeInv
  <1>1. InitMerge => MergeInv
    <2>. SUFFICES ASSUME InitMerge PROVE MergeInv
      OBVIOUS
    <2>1. MergeTypeOK
      BY MergeTypeInit
    <2>2. DOMAIN remaining = {} /\ DOMAIN deduplicated = {} /\ sorted = FALSE
      BY DEF InitMerge
    <2>. QED
      BY <2>1, <2>2 DEF InitMerge, MergeInv, NoDuplicatesLeft, SortedBySeverity,
         RemainingSorted, WaitsOrRepresented
  <1>. QED
    BY <1>1, MergeInvStep, MergeTypeCorrect, PTL DEF SpecMerge

\* For lists of any length: the result has no duplicates.
THEOREM MergedWithoutDuplicates == SpecMerge => []NoDuplicatesLeft
  <1>1. MergeInv => NoDuplicatesLeft
    BY DEF MergeInv
  <1>. QED
    BY <1>1, MergeInvariant, PTL

\* It is sorted by severity at every turn, though evidence is merged into it.
THEOREM MergedInOrder == SpecMerge => []SortedBySeverity
  <1>1. MergeInv => SortedBySeverity
    BY DEF MergeInv
  <1>. QED
    BY <1>1, MergeInvariant, PTL

\* Every finding is represented in it when the loop is over.
THEOREM MergedWithoutLoss == SpecMerge => []NothingLost
  <1>1. MergeInv => NothingLost
    BY DEF MergeInv, NothingLost, Done, WaitsOrRepresented
  <1>. QED
    BY <1>1, MergeInvariant, PTL

-----------------------------------------------------------------------------
(* The result is made of what was found *)

\* What waits for its turn is one of the findings.
OnlyFound == \A r \in DOMAIN remaining : \E i \in DOMAIN found : found[i] = remaining[r]

\* An entry is a finding, but for its evidence, which findings of its category gave.
MadeOf(entry) ==
  /\ \E i \in DOMAIN found : [found[i] EXCEPT !.evidence = entry.evidence] = entry
  /\ \A e \in entry.evidence : \E i \in DOMAIN found :
       e \in found[i].evidence /\ found[i].category = entry.category

OriginInv == MergeTypeOK /\ OnlyFound /\ \A k \in DOMAIN deduplicated : MadeOf(deduplicated[k])

\* The next finding is made of itself, and the others still wait.
LEMMA NextIsFound ==
  ASSUME OriginInv, remaining # <<>>, remaining' = Tail(remaining), found' = found
  PROVE  /\ Head(remaining) \in Finding /\ MadeOf(Head(remaining))
         /\ OnlyFound'
  <1>1. /\ remaining \in Seq(Finding) /\ found \in Seq(Finding)
        /\ Head(remaining) = remaining[1] /\ 1 \in DOMAIN remaining
        /\ Head(remaining) \in Finding
    BY HeadTail DEF OriginInv, MergeTypeOK
  <1>2. PICK i \in DOMAIN found : found[i] = Head(remaining)
    BY <1>1 DEF OriginInv, OnlyFound
  <1>3. [found[i] EXCEPT !.evidence = Head(remaining).evidence] = Head(remaining)
    BY <1>1, <1>2 DEF Finding
  <1>4. MadeOf(Head(remaining))
    BY <1>2, <1>3 DEF MadeOf
  <1>5. OnlyFound'
    BY <1>1, HeadTail DEF OriginInv, OnlyFound
  <1>. QED
    BY <1>1, <1>4, <1>5

LEMMA OriginStep == OriginInv /\ MergeTypeOK' /\ [NextMerge]_mergeVars => OriginInv'
  <1>. SUFFICES ASSUME OriginInv, MergeTypeOK', [NextMerge]_mergeVars PROVE OriginInv'
    OBVIOUS
  <1>1. CASE Sort
    <2>1. found' = found /\ deduplicated' = deduplicated
      BY <1>1 DEF Sort
    <2>2. OnlyFound'
      BY <1>1, <2>1, SortResult DEF OriginInv, MergeTypeOK, OnlyFound
    <2>. QED
      BY <2>1, <2>2 DEF OriginInv, MadeOf
  <1>2. CASE KeepFinding
    <2>1. /\ deduplicated' = Append(deduplicated, Head(remaining))
          /\ found' = found /\ remaining # <<>> /\ remaining' = Tail(remaining)
      BY <1>2 DEF KeepFinding
    <2>2. Head(remaining) \in Finding /\ MadeOf(Head(remaining)) /\ OnlyFound'
      BY <2>1, NextIsFound
    <2>3. deduplicated \in Seq(Finding)
      BY DEF OriginInv, MergeTypeOK
    <2>4. \A k \in DOMAIN deduplicated' :
             \/ deduplicated'[k] = Head(remaining)
             \/ k \in DOMAIN deduplicated /\ deduplicated'[k] = deduplicated[k]
      BY <2>1, <2>2, <2>3
    <2>5. \A k \in DOMAIN deduplicated' : MadeOf(deduplicated'[k])
      BY <2>2, <2>4 DEF OriginInv
    <2>. QED
      BY <2>1, <2>2, <2>5 DEF OriginInv, MadeOf
  <1>3. ASSUME NEW n \in DOMAIN deduplicated, MergeDuplicate(n) PROVE OriginInv'
    <2>. DEFINE f == Head(remaining)
                entry == deduplicated[n]
                merged == [entry EXCEPT !.evidence = entry.evidence \cup f.evidence]
    <2>1. /\ deduplicated' = [deduplicated EXCEPT ![n].evidence = @ \cup f.evidence]
          /\ found' = found /\ remaining # <<>> /\ remaining' = Tail(remaining)
          /\ Duplicate(entry, f)
      BY <1>3 DEF MergeDuplicate, Swallows
    <2>2. f \in Finding /\ MadeOf(f) /\ OnlyFound'
      BY <2>1, NextIsFound
    <2>3. entry \in Finding /\ MadeOf(entry)
      BY DEF OriginInv, MergeTypeOK
    <2>4. /\ merged.evidence = entry.evidence \cup f.evidence
          /\ merged.category = entry.category /\ f.category = entry.category
      BY <2>1, <2>2, <2>3 DEF Finding, Duplicate
    <2>5. PICK i \in DOMAIN found : [found[i] EXCEPT !.evidence = entry.evidence] = entry
      BY <2>3 DEF MadeOf
    <2>6. found[i] \in Finding
      BY DEF OriginInv, MergeTypeOK
    <2>7. [found[i] EXCEPT !.evidence = merged.evidence] = merged
      BY <2>3, <2>4, <2>5, <2>6 DEF Finding
    <2>8. MadeOf(merged)
      <3>1. \A e \in merged.evidence : \E m \in DOMAIN found :
              e \in found[m].evidence /\ found[m].category = merged.category
        BY <2>2, <2>3, <2>4 DEF MadeOf
      <3>. HIDE DEF merged
      <3>. QED
        BY <2>7, <3>1 DEF MadeOf
    <2>9. /\ DOMAIN deduplicated' = DOMAIN deduplicated
          /\ deduplicated'[n] = merged
          /\ \A k \in DOMAIN deduplicated : k # n => deduplicated'[k] = deduplicated[k]
      BY <2>1
    <2>10. \A k \in DOMAIN deduplicated' : MadeOf(deduplicated'[k])
      <3>. HIDE DEF merged
      <3>. QED
        BY <2>8, <2>9 DEF OriginInv
    <2>. QED
      BY <2>1, <2>2, <2>10 DEF OriginInv, MadeOf
  <1>4. CASE UNCHANGED mergeVars
    <2>1. UNCHANGED <<found, remaining, deduplicated>> /\ MergeTypeOK'
      BY <1>4 DEF mergeVars
    <2>2. OnlyFound'
      BY <2>1 DEF OriginInv, OnlyFound
    <2>3. \A k \in DOMAIN deduplicated : MadeOf(deduplicated[k])
      BY DEF OriginInv
    <2>. QED
      BY <2>1, <2>2, <2>3 DEF OriginInv, MadeOf
  <1>. QED
    BY <1>1, <1>2, <1>3, <1>4 DEF NextMerge

\* Nothing in the report was made up, for lists of any length.
THEOREM MergedWithoutInvention == SpecMerge => []NothingInvented
  <1>1. InitMerge => OriginInv
    <2>. SUFFICES ASSUME InitMerge PROVE OriginInv
      OBVIOUS
    <2>1. MergeTypeOK
      BY MergeTypeInit
    <2>2. DOMAIN remaining = {} /\ DOMAIN deduplicated = {}
      BY DEF InitMerge
    <2>. QED
      BY <2>1, <2>2 DEF OriginInv, OnlyFound
  <1>2. OriginInv => NothingInvented
    BY DEF OriginInv, MadeOf, NothingInvented
  <1>. QED
    BY <1>1, <1>2, OriginStep, MergeTypeCorrect, PTL DEF SpecMerge
=============================================================================
