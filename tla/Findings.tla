------------------------------ MODULE Findings ------------------------------
(***************************************************************************)
(* Findings, and when AnalyzerRunner._merge_and_sort takes two for one.    *)
(* A finding is a record of category, severity, clause (the set of words   *)
(* of affected_clause, lower-cased) and evidence (a set: the merge never   *)
(* adds an item twice).                                                    *)
(***************************************************************************)
EXTENDS Integers, FiniteSets, Sequences

Severity == {"critical", "high", "medium", "low"}

Category == {"source_failure", "definitional_ambiguity", "threshold_gaming",
             "scope_creep", "timing_ambiguity", "adversarial_resolution"}

severity_order ==
  [s \in Severity |-> CASE s = "critical" -> 0 [] s = "high" -> 1
                        [] s = "medium" -> 2 [] s = "low" -> 3]

Rank(finding) == severity_order[finding.severity]

\* _text_overlap(a, b) > 0.8, the Jaccard ratio without the division (0.8 is
\* the same double as 4/5).  An empty clause overlaps with nothing.
Overlaps(a, b) ==
  /\ a # {} /\ b # {}
  /\ 5 * Cardinality(a \cap b) > 4 * Cardinality(a \cup b)

\* Mutant: clauses are compared across categories.
DuplicateAnyCategory(existing, finding) == Overlaps(existing.clause, finding.clause)

Duplicate(existing, finding) ==
  /\ existing.category = finding.category
  /\ Overlaps(existing.clause, finding.clause)

\* list.sort by severity is stable: where each finding of the sorted list comes
\* from.  The k-th is the one that k - 1 others go before.
GoesBefore(found, j, i) ==
  \/ Rank(found[j]) < Rank(found[i])
  \/ Rank(found[j]) = Rank(found[i]) /\ j < i
Predecessors(found, i) == {j \in DOMAIN found : GoesBefore(found, j, i)}
SortOrder(found) ==
  [k \in DOMAIN found |->
    CHOOSE i \in DOMAIN found : Cardinality(Predecessors(found, i)) = k - 1]

\* The entry of kept that swallows finding: the first duplicate in the list.
Swallows(kept, finding, i) ==
  /\ i \in DOMAIN kept
  /\ Duplicate(kept[i], finding)
  /\ \A j \in 1 .. i - 1 : ~Duplicate(kept[j], finding)

\* The merge from outside: what represents a finding in the report.
Represents(entry, finding) ==
  /\ entry.category = finding.category
  /\ entry.clause = finding.clause \/ Overlaps(entry.clause, finding.clause)
  /\ Rank(entry) <= Rank(finding)
  /\ finding.evidence \subseteq entry.evidence
=============================================================================
