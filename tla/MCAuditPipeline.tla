--------------------------- MODULE MCAuditPipeline ---------------------------
(* Three of the six analyzers: the two that add findings of their own and one  *)
(* of the others, with a multiplier of its own.                                *)
EXTENDS AuditPipeline

MCAnalyzers == <<"source_failure", "timing_ambiguity", "adversarial_resolution">>
MCPenalty == DefaultPenalty
MCMultiplier == DefaultMultiplier

MCClause == {{}, 1 .. 8, 1 .. 9, 1 .. 10}

\* The finding on 1 .. 9 is merged into one on the source or timezone clause.
MCSourceClause == 1 .. 10
MCTimezoneClause == 1 .. 8
MCAnswer ==
  {<<>>, <<[severity |-> "low", clause |-> 1 .. 9]>>,
   <<[severity |-> "high", clause |-> {}], [severity |-> "critical", clause |-> 1 .. 9]>>}
=============================================================================
