--------------------------- MODULE ContractParser ---------------------------
(***************************************************************************)
(* EntityExtractor: what becomes of the JSON an LLM extracted from a       *)
(* contract, and what the deterministic pass adds.  A text is the set of   *)
(* the deadline phrases and of the risky terms in it, and whether its      *)
(* resolution source holds a URL.  An extracted list has malformed items.  *)
(***************************************************************************)
EXTENDS SequencesExt

CONSTANTS
  Phrase,    \* the deadline phrases that the patterns find
  RiskyTerm  \* HIGH_RISK_TERMS

\* The patterns allow for any number of phrases, and a text has finitely many.
Text == [url : BOOLEAN, phrases : {P \in SUBSET Phrase : IsFiniteSet(P)}, terms : SUBSET RiskyTerm]

\* A timeframe's raw text, seen through the phrases it contains.
Timeframe == [raw : SUBSET Phrase, timezone : BOOLEAN]
Entity == [org : BOOLEAN, ambiguous : BOOLEAN]

\* Fields of the extraction: a list, or something that cannot be iterated.
NoList == [iterable |-> FALSE, items |-> <<>>]
List(items) == [iterable |-> TRUE, items |-> items]
Malformed == [malformed |-> TRUE]
Well(item) == [malformed |-> FALSE, item |-> item]

\* What a failed completion, or text that is not JSON, is replaced by.
EmptyExtraction ==
  [object |-> TRUE, url |-> FALSE, named_entities |-> List(<<>>), thresholds |-> List(<<>>),
   timeframes |-> List(<<>>), key_terms |-> List(<<>>)]

\* _build_parsed_contract runs outside of the try: extracted.get on another
\* kind of JSON value and a loop over null or a number raise.
Raises(x) ==
  \/ ~x.object
  \/ \E f \in {"named_entities", "thresholds", "timeframes", "key_terms"} : ~x[f].iterable

\* Each item has a try of its own; a malformed one is skipped.
Kept(list) ==
  LET good == SelectSeq(list.items, LAMBDA i : ~i.malformed)
  IN [i \in DOMAIN good |-> good[i].item]

\* The LLM's URL, or else the first one in the resolution source.
SourceUrl(text, x) == x.url \/ text.url

Covered(phrase, timeframes) == \E i \in DOMAIN timeframes : phrase \in timeframes[i].raw

\* One timeframe without a timezone for each phrase that none contains: a
\* second occurrence is contained in the timeframe of the first.
Timeframes(text, x) ==
  LET extracted == Kept(x.timeframes)
      missed == {p \in text.phrases : ~Covered(p, extracted)}
  IN extracted \o SetToSeq({[raw |-> {p}, timezone |-> FALSE] : p \in missed})

\* Risky terms not extracted under exactly the same name.
KeyTerms(text, x) ==
  LET extracted == Kept(x.key_terms) IN extracted \o SetToSeq(text.terms \ ToSet(extracted))

\* parse, given that it does not raise.
ParsedContract(text, x) ==
  [source_url |-> SourceUrl(text, x),
   named_entities |-> Kept(x.named_entities),
   thresholds |-> Kept(x.thresholds),
   timeframes |-> Timeframes(text, x),
   key_terms |-> KeyTerms(text, x)]
=============================================================================
