--------------------------- MODULE MCAnalyzerCall ---------------------------
(* The timeouts of the code, calls that fail at once or take some seconds, and *)
(* extractions with each kind of defect.                                       *)
EXTENDS AnalyzerCall

MCTimeout ==
  [c \in Category |->
    CASE c = "source_failure" -> 45 [] c = "scope_creep" -> 35
      [] c = "adversarial_resolution" -> 60 [] OTHER -> 30]

Risky == Well([org |-> TRUE, ambiguous |-> TRUE])
Safe == Well([org |-> TRUE, ambiguous |-> FALSE])
Covers(p, tz) == Well([raw |-> p, timezone |-> tz])

MCExtraction ==
  {EmptyExtraction,
   [EmptyExtraction EXCEPT !.object = FALSE],
   [EmptyExtraction EXCEPT !.timeframes = NoList],
   [EmptyExtraction EXCEPT !.url = TRUE, !.timeframes = List(<<Covers({}, TRUE)>>),
      !.named_entities = List(<<Risky, Malformed, Safe, Risky>>)],
   [EmptyExtraction EXCEPT !.timeframes = List(<<Malformed, Covers({"by Q3"}, TRUE)>>),
      !.thresholds = List(<<Malformed, Well(TRUE)>>), !.key_terms = List(<<Well("bankruptcy")>>)]}

Told(about_timezone) == FindingOf("llm", about_timezone)
MCAnswer ==
  {NoList, List(<<>>), List(<<Well(Told(FALSE))>>),
   List(<<Well(Told(FALSE)), Malformed, Well(Told(TRUE))>>)}
=============================================================================
