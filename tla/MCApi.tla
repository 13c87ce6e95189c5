-------------------------------- MODULE MCApi --------------------------------
(* Requests, and the names that tell members apart, are interchangeable. *)
EXTENDS Api, TLC

MCSymmetry == Permutations(Request) \cup Permutations(Tag)
=============================================================================
