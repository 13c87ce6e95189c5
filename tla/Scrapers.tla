------------------------------ MODULE Scrapers ------------------------------
(***************************************************************************)
(* What a platform's scraper returns.  It asks for page after page of the  *)
(* posts, the newest first, while the platform publishes more of them.     *)
(* Polymarket, UMA and Augur take an offset, Manifold the last id it saw.  *)
(* The platforms do not affect each other, so that one feed stands for all *)
(* of them.                                                                *)
(***************************************************************************)
EXTENDS Integers, FiniteSets, Sequences

CONSTANTS
  Feed,      \* what kind each post is, the oldest first, those to come included
  PageSize,
  Limit      \* how deep a scraper goes into the feed

\* "disputed": of interest, with an id and a question; "clean": not, or left
\* out by the upsert; "malformed": normalising it raises.
PostKind == {"disputed", "clean", "malformed"}

ASSUME FeedAssumption == Feed \in Seq(PostKind) /\ PageSize \in Nat \ {0} /\ Limit \in Nat

\* A dispute is named by its post.
Dispute == {k \in DOMAIN Feed : Feed[k] = "disputed"}

\* The posts at an offset, when n have been published.
Page(n, offset) == {k \in 1 .. n : n - offset - PageSize < k /\ k <= n - offset}

\* The posts of a page before the first that raises, which ends the scraper.
Read(page) == {k \in page : \A newer \in page : k <= newer => Feed[newer] # "malformed"}

\* Nothing ends the scraper after this page: no error, and it is full.
GoesOn(page) == Read(page) = page /\ Cardinality(page) = PageSize

\* How many posts have been published, as m requests meet it.
Growing(m) ==
  {n \in [1 .. m -> 0 .. Len(Feed)] : \A i \in 2 .. m : n[i - 1] <= n[i]}

\* The pages that m requests return, by offset ...
ByOffset(n) == [i \in DOMAIN n |-> Page(n[i], (i - 1) * PageSize)]

\* ... and before the last id seen, whatever has been published since.
ByCursor(n) == [i \in DOMAIN n |-> Page(n[1], (i - 1) * PageSize)]

\* A request is made below the limit and if the page before did not end the
\* scraper; any of them may fail, and what was read until then is returned.
Asked(pages) ==
  \A i \in DOMAIN pages :
    (i - 1) * PageSize < Limit /\ (i > 1 => GoesOn(pages[i - 1]))

Returned(pages) == Dispute \cap UNION {Read(pages[i]) : i \in DOMAIN pages}

MaxPages == (Limit + PageSize - 1) \div PageSize

\* All that one run of a platform's scraper may return.
Results ==
  LET runs == UNION {{ByOffset(n), ByCursor(n)} : n \in UNION {Growing(m) : m \in 0 .. MaxPages}}
  IN {Returned(pages) : pages \in {p \in runs : Asked(p)}}
=============================================================================
