---------------------------- MODULE FindingMerge ----------------------------
(***************************************************************************)
(* AnalyzerRunner._merge_and_sort, one action per turn of its loop: sort   *)
(* by severity, then keep each finding or merge its evidence into the      *)
(* first entry it duplicates.                                              *)
(***************************************************************************)
EXTENDS Findings

CONSTANTS
  Clause,    \* the clauses findings are about, as sets of words
  Evidence,  \* the items of evidence
  Found      \* the lists that run_all may have put together

ASSUME ClauseAssumption == \A c \in Clause : IsFiniteSet(c)

Finding == [category : Category, severity : Severity, clause : Clause, evidence : SUBSET Evidence]

ASSUME FoundAssumption == Found \subseteq Seq(Finding)

VARIABLES
  found,         \* the parameter: findings in the order of the analyzers
  sorted,        \* whether the loop has begun
  remaining,     \* findings the loop has not seen, most severe first
  deduplicated   \* the result so far

mergeVars == <<found, sorted, remaining, deduplicated>>

MergeTypeOK ==
  /\ found \in Seq(Finding)
  /\ sorted \in BOOLEAN
  /\ remaining \in Seq(Finding)
  /\ deduplicated \in Seq(Finding)

InitMerge ==
  /\ found \in Found
  /\ sorted = FALSE
  /\ remaining = <<>>
  /\ deduplicated = <<>>

Sort ==
  /\ ~sorted
  /\ sorted' = TRUE
  /\ LET order == SortOrder(found) IN remaining' = [i \in DOMAIN found |-> found[order[i]]]
  /\ UNCHANGED <<found, deduplicated>>

\* Mutants: the duplicate's evidence is dropped; only the last entry is compared.
DropDuplicate(i) ==
  /\ remaining # <<>>
  /\ Swallows(deduplicated, Head(remaining), i)
  /\ remaining' = Tail(remaining)
  /\ UNCHANGED <<found, sorted, deduplicated>>
KeepUnlessLast ==
  /\ remaining # <<>>
  /\ \A i \in DOMAIN deduplicated :
       i = Len(deduplicated) => ~Duplicate(deduplicated[i], Head(remaining))
  /\ deduplicated' = Append(deduplicated, Head(remaining))
  /\ remaining' = Tail(remaining)
  /\ UNCHANGED <<found, sorted>>

MergeDuplicate(i) ==
  /\ remaining # <<>>
  /\ Swallows(deduplicated, Head(remaining), i)
  /\ deduplicated' = [deduplicated EXCEPT ![i].evidence = @ \cup Head(remaining).evidence]
  /\ remaining' = Tail(remaining)
  /\ UNCHANGED <<found, sorted>>

KeepFinding ==
  /\ remaining # <<>>
  /\ \A i \in DOMAIN deduplicated : ~Duplicate(deduplicated[i], Head(remaining))
  /\ deduplicated' = Append(deduplicated, Head(remaining))
  /\ remaining' = Tail(remaining)
  /\ UNCHANGED <<found, sorted>>

NextMerge == Sort \/ KeepFinding \/ \E i \in DOMAIN deduplicated : MergeDuplicate(i)

SpecMerge == InitMerge /\ [][NextMerge]_mergeVars

Done == sorted /\ remaining = <<>>

-----------------------------------------------------------------------------
(* Properties *)

\* The result holds no two duplicates, although "is a duplicate of" is not
\* transitive and entries are only ever compared with later findings.
NoDuplicatesLeft ==
  \A i, j \in DOMAIN deduplicated : i < j => ~Duplicate(deduplicated[i], deduplicated[j])

\* The report lists the most severe findings first (ReportOutput: "All
\* findings, sorted by severity descending"), at every turn of the loop.
SortedBySeverity ==
  \A i, j \in DOMAIN deduplicated : i < j => Rank(deduplicated[i]) <= Rank(deduplicated[j])

\* Merging loses nothing that matters: every finding of an analyzer is
\* represented by an entry on the same or an overlapping clause that is at
\* least as severe and holds its evidence.
NothingLost ==
  Done => \A i \in DOMAIN found :
            \E k \in DOMAIN deduplicated : Represents(deduplicated[k], found[i])

\* Nor does it make anything up: an entry is one of the findings, with evidence
\* that other findings of its category gave.
NothingInvented ==
  \A k \in DOMAIN deduplicated :
    /\ \E i \in DOMAIN found :
         [found[i] EXCEPT !.evidence = deduplicated[k].evidence] = deduplicated[k]
    /\ \A e \in deduplicated[k].evidence : \E i \in DOMAIN found :
         e \in found[i].evidence /\ found[i].category = deduplicated[k].category

-----------------------------------------------------------------------------
(* Inductive invariant *)

\* The loop meets the findings in the order of their severity.
RemainingSorted ==
  /\ \A i, j \in DOMAIN remaining : i < j => Rank(remaining[i]) <= Rank(remaining[j])
  /\ \A k \in DOMAIN deduplicated, i \in DOMAIN remaining :
       Rank(deduplicated[k]) <= Rank(remaining[i])

\* A finding waits for its turn or is represented.
WaitsOrRepresented ==
  sorted =>
    \A i \in DOMAIN found :
      \/ \E r \in DOMAIN remaining : remaining[r] = found[i]
      \/ \E k \in DOMAIN deduplicated : Represents(deduplicated[k], found[i])

MergeInv ==
  /\ MergeTypeOK
  /\ ~sorted => remaining = <<>> /\ deduplicated = <<>>
  /\ NoDuplicatesLeft
  /\ SortedBySeverity
  /\ RemainingSorted
  /\ WaitsOrRepresented
=============================================================================
