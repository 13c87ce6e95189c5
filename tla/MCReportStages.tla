--------------------------- MODULE MCReportStages ---------------------------
(* The contract "12 a 2": a clause that occurs first inside another word, one   *)
(* that is paraphrased, one that was left out, clauses that are the same or     *)
(* meet a rewrite, and a rewrite that ends in a space.                          *)
EXTENDS ReportStages

MCChar == {"1", "2", "3", "a", "n", "x", " "}

MCSpace == {" "}

MCContract == <<"1", "2", " ", "a", " ", "2">>

MCDraft ==
  {[clause |-> <<"2">>, rewrite |-> <<"3">>],
   [clause |-> <<" ", "a">>, rewrite |-> <<"n">>],
   [clause |-> <<"x">>, rewrite |-> <<>>],
   [clause |-> <<>>, rewrite |-> <<"n">>]}

MCWording == {<<"a", " ">>, NonText}
=============================================================================
