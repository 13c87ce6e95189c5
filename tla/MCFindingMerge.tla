--------------------------- MODULE MCFindingMerge ---------------------------
(* Lists of up to three findings.  Clauses of eight, nine and ten words form a *)
(* chain: neighbours overlap by more than 0.8, the ends by exactly 0.8.        *)
EXTENDS FindingMerge, SequencesExt

MCClause == {{}, 1 .. 8, 1 .. 9, 1 .. 10}
MCEvidence == 1 .. 4

\* The i-th finding brings the i-th item of evidence.
Content == [category : {"source_failure", "timing_ambiguity"},
            severity : {"critical", "high", "low"}, clause : MCClause]
WithEvidence(c, e) ==
  [category |-> c.category, severity |-> c.severity, clause |-> c.clause, evidence |-> e]
MCFound ==
  {[i \in DOMAIN s |-> WithEvidence(s[i], {i})] : s \in BoundedSeq(Content, 3)}
=============================================================================
