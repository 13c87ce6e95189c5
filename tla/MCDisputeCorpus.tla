-------------------------- MODULE MCDisputeCorpus --------------------------
(* Two disputes with another post between them, so that they are never on one *)
(* page, and one post that ends the scraper.                                *)
EXTENDS DisputeCorpus

MCFeed == <<"malformed", "disputed", "clean", "disputed">>
=============================================================================
