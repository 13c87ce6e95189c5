--------------------------- MODULE DisputeCorpus ---------------------------
(***************************************************************************)
(* The disputes table: scrape_disputes and scripts/seed_disputes.py add    *)
(* rows and embed them, scripts/backfill_embeddings.py embeds rows in      *)
(* batches, label_dispute sets what went wrong.  Each session is one       *)
(* PostgreSQL transaction at READ COMMITTED, written through the ORM.      *)
(***************************************************************************)
EXTENDS Scrapers, SequencesExt

CONSTANTS
  Category,     \* failure categories
  NoCategory,
  NoVector,     \* embedding IS NULL
  ZeroVector,   \* what embed_batch returns for an item that failed
  Scraper,      \* runs of scrape_disputes, which Beat starts again and again in
                \* the one process that serves their queue (--concurrency 1)
  Seeder, Backfill, Labeler,  \* single runs
  EmbedLimit,   \* rows one scrape embeds: .limit(500), .limit(2000) in the seed
  BatchSize,    \* --batch-size of the backfill
  MaxFaults     \* bound on crashes, time limits and database errors

ASSUME LimitAssumption == EmbedLimit \in Nat \ {0} /\ BatchSize \in Nat \ {0}
ASSUME FaultsAssumption == MaxFaults \in Nat
ASSUME SessionAssumption ==
  /\ Labeler \cap (Scraper \cup Seeder \cup Backfill) = {}
  /\ Backfill \cap (Scraper \cup Seeder) = {}

VARIABLES
  table,     \* the committed rows, each with its label and its embedding
  at,        \* how far each session is
  found,     \* what the scrapers returned to it
  inserted,  \* rows it inserted and did not commit
  picked,    \* rows it selected and still has to embed
  todo,      \* embeddings of the batch it is flushing
  written,   \* rows it updated and did not commit
  suspended, \* scrapes that a soft limit left in the loop of their process
  faults

sessionVars == <<at, found, inserted, picked, todo, written, suspended>>
vars == <<table, sessionVars, faults>>

Finder == Scraper \cup Seeder
Embedder == Finder \cup Backfill
Session == Embedder \cup Labeler

\* An embedding is named by the row whose text it embeds.
Vector == Dispute \cup {ZeroVector}
Row == [label : Category \cup {NoCategory}, embedding : Vector \cup {NoVector}]
NewRow == [label |-> NoCategory, embedding |-> NoVector]

\* f is a function from some of the disputes.
Partly(f, S) == DOMAIN f \subseteq Dispute /\ f \in [DOMAIN f -> S]
Nothing == [d \in {} |-> NewRow]

TypeOK ==
  /\ Partly(table, Row)
  /\ at \in [Session -> {"idle", "scraped", "upserted", "selected", "flushing", "written", "done"}]
  /\ found \in [Session -> SUBSET Dispute]
  /\ inserted \in [Session -> SUBSET Dispute]
  /\ picked \in [Session -> SUBSET Dispute]
  /\ DOMAIN todo = Session /\ \A s \in Session : Partly(todo[s], Vector \cup {NoVector})
  /\ DOMAIN written = Session /\ \A s \in Session : Partly(written[s], Row)
  /\ suspended \subseteq Scraper
  /\ faults \in 0 .. MaxFaults

Init ==
  /\ table = Nothing
  /\ at = [s \in Session |-> "idle"]
  /\ found = [s \in Session |-> {}]
  /\ inserted = [s \in Session |-> {}]
  /\ picked = [s \in Session |-> {}]
  /\ todo = [s \in Session |-> Nothing]
  /\ written = [s \in Session |-> Nothing]
  /\ suspended = {}
  /\ faults = 0

-----------------------------------------------------------------------------
(* What a session sees, and whom it waits for *)

Stored == DOMAIN table

\* Its own writes over the committed rows.
View(s) ==
  [d \in Stored \cup inserted[s] |->
     IF d \in DOMAIN written[s] THEN written[s][d]
     ELSE IF d \in Stored THEN table[d] ELSE NewRow]

LockedBy(s) == inserted[s] \cup DOMAIN written[s]

\* The unit of work updates rows in the order of their primary keys, which is
\* taken to be that of the posts.
IsNextRow(s, d) == d \in DOMAIN todo[s] /\ \A e \in DOMAIN todo[s] : d <= e

WaitsFor(s, o) ==
  /\ s # o
  /\ at[s] = "flushing"
  /\ \E d \in LockedBy(o) : IsNextRow(s, d)

\* A cycle of sessions each of which waits for the next.
Deadlocked(s) ==
  /\ at[s] = "flushing"
  /\ \E cycle \in SUBSET {x \in Embedder : at[x] = "flushing"} :
       /\ s \in cycle
       /\ \A x \in cycle : (\E o \in cycle : WaitsFor(x, o)) /\ (\E o \in cycle : WaitsFor(o, x))

-----------------------------------------------------------------------------
(* Scraping *)

\* The task that the process of the scrapes runs, if any; only then does a
\* suspended scrape get its turn in the loop.
TaskRuns == \E s \in Scraper \ suspended : at[s] # "idle"

InLoop(s) == s \in suspended => TaskRuns

\* The scrapers return what they got before an error.  A new scrape waits for the
\* one that runs, and takes a name that no suspended one has.
Scrape(s) ==
  /\ s \in Finder
  /\ at[s] = "idle"
  /\ s \in Scraper => ~TaskRuns /\ s = CHOOSE fresh \in Scraper : at[fresh] = "idle"
  /\ s \in Seeder => suspended = {}
  /\ \E records \in Results : found' = [found EXCEPT ![s] = records]
  /\ at' = [at EXCEPT ![s] = "scraped"]
  /\ UNCHANGED <<table, inserted, picked, todo, written, suspended, faults>>

\* Mutants: a row that another session has not committed yet is a duplicate; a
\* stored one is written again, without a label.
UpsertOverwriting(s) ==
  /\ at[s] = "scraped"
  /\ \A o \in Finder \ {s} : inserted[o] \cap found[s] = {}
  /\ inserted' = [inserted EXCEPT ![s] = found[s] \ Stored]
  /\ written' = [written EXCEPT ![s] = [d \in found[s] \cap Stored |-> [table[d] EXCEPT !.label = NoCategory]]]
  /\ at' = [at EXCEPT ![s] = "upserted"]
  /\ UNCHANGED <<table, found, picked, todo, suspended, faults>>
UpsertHasty(s) ==
  /\ at[s] = "scraped"
  /\ inserted' = [inserted EXCEPT ![s] = found[s] \ (Stored \cup UNION {inserted[o] : o \in Finder})]
  /\ at' = [at EXCEPT ![s] = "upserted"]
  /\ UNCHANGED <<table, found, picked, todo, written, suspended, faults>>

\* ON CONFLICT (external_id) DO NOTHING: it waits for the end of a session that
\* inserted one of the ids, and skips those that are then stored.
Upsert(s) ==
  /\ at[s] = "scraped"
  /\ \A o \in Finder \ {s} : inserted[o] \cap found[s] = {}
  /\ inserted' = [inserted EXCEPT ![s] = found[s] \ Stored]
  /\ at' = [at EXCEPT ![s] = "upserted"]
  /\ UNCHANGED <<table, found, picked, todo, written, suspended, faults>>

-----------------------------------------------------------------------------
(* Embedding *)

\* seed_disputes.py --skip-embed
SkipEmbedding(s) ==
  /\ s \in Seeder
  /\ at[s] = "upserted"
  /\ at' = [at EXCEPT ![s] = "written"]
  /\ UNCHANGED <<table, found, inserted, picked, todo, written, suspended, faults>>

\* A scrape selects the first EmbedLimit rows without an embedding, in no
\* order; a backfill all of them or, with --force, all rows.
Select(s) ==
  /\ at[s] = IF s \in Finder THEN "upserted" ELSE "idle"
  /\ s \in Embedder
  /\ LET rows == View(s)
         unembedded == {d \in DOMAIN rows : rows[d].embedding = NoVector}
     IN  /\ IF s \in Finder
              THEN \E chosen \in SUBSET unembedded :
                     /\ Cardinality(chosen) = Min({Cardinality(unembedded), EmbedLimit})
                     /\ picked' = [picked EXCEPT ![s] = chosen]
              ELSE picked' \in {[picked EXCEPT ![s] = unembedded], [picked EXCEPT ![s] = DOMAIN rows]}
  /\ at' = [at EXCEPT ![s] = IF picked'[s] = {} THEN "written" ELSE "selected"]
  /\ UNCHANGED <<table, found, inserted, todo, written, suspended, faults>>

\* Mutants: items that failed are left out; they stay without an embedding.
EmbedsSucceeded(texts, failing) ==
  LET ok == SetToSortSeq(DOMAIN texts \ failing, <) IN [i \in DOMAIN ok |-> texts[ok[i]]]
EmbedsOrNull(texts, failing) == [i \in DOMAIN texts |-> IF i \in failing THEN NoVector ELSE texts[i]]

\* The results in the order of the texts, zeros where a call raised.
EmbedBatch(texts, failing) ==
  [i \in DOMAIN texts |-> IF i \in failing THEN ZeroVector ELSE texts[i]]

\* zip(batch, embeddings), assigned to the records.
Assigned(batch, vectors) ==
  [d \in {batch[i] : i \in DOMAIN vectors} |-> vectors[CHOOSE i \in DOMAIN batch : batch[i] = d]]

\* The next batch, in the order the query happened to return its rows.
Embed(s) ==
  /\ at[s] = "selected"
  /\ \E rows \in SUBSET picked[s] :
       /\ Cardinality(rows) = Min({Cardinality(picked[s]),
            IF s \in Finder THEN EmbedLimit ELSE BatchSize})
       /\ \E batch \in SetToSeqs(rows) : \E failing \in SUBSET DOMAIN batch :
            todo' = [todo EXCEPT ![s] = Assigned(batch, EmbedBatch(batch, failing))]
       /\ picked' = [picked EXCEPT ![s] = @ \ rows]
  /\ at' = [at EXCEPT ![s] =
       IF DOMAIN todo'[s] # {} THEN "flushing" ELSE IF picked'[s] # {} THEN "selected" ELSE "written"]
  /\ UNCHANGED <<table, found, inserted, written, suspended, faults>>

\* The columns an UPDATE sets, over the row as it is when the lock is granted.
Writes(s, d, row) ==
  written' = [written EXCEPT ![s] = [x \in DOMAIN @ \cup {d} |-> IF x = d THEN row ELSE @[x]]]

\* UPDATE disputes SET embedding, once no other session holds the row.
UpdateRow(s) ==
  /\ at[s] = "flushing"
  /\ \A o \in Session : ~WaitsFor(s, o)
  /\ \E d \in DOMAIN todo[s] :
       /\ IsNextRow(s, d)
       /\ Writes(s, d, [View(s)[d] EXCEPT !.embedding = todo[s][d]])
       /\ todo' = [todo EXCEPT ![s] = [e \in DOMAIN @ \ {d} |-> @[e]]]
  /\ at' = [at EXCEPT ![s] =
       IF DOMAIN todo'[s] # {} THEN "flushing" ELSE IF picked[s] # {} THEN "selected" ELSE "written"]
  /\ UNCHANGED <<table, found, inserted, picked, suspended, faults>>

-----------------------------------------------------------------------------
(* Labelling *)

\* label_dispute; the reason it may set besides is left out.
Label(s, d) ==
  /\ s \in Labeler /\ suspended = {}
  /\ at[s] = "idle"
  /\ d \in Stored
  /\ \A o \in Session : d \notin LockedBy(o)
  /\ \E category \in Category : Writes(s, d, [table[d] EXCEPT !.label = category])
  /\ at' = [at EXCEPT ![s] = "written"]
  /\ UNCHANGED <<table, found, inserted, picked, todo, suspended, faults>>

-----------------------------------------------------------------------------
(* The end of a session *)

Closed(f, S, v) == [s \in Session |-> IF s \in S THEN v ELSE f[s]]

\* Beat starts the scrape again; the others are single runs.
Close(S) ==
  /\ at' = [s \in Session |->
       IF s \notin S THEN at[s] ELSE IF s \in Scraper THEN "idle" ELSE "done"]
  /\ found' = Closed(found, S, {})
  /\ inserted' = Closed(inserted, S, {})
  /\ picked' = Closed(picked, S, {})
  /\ todo' = Closed(todo, S, Nothing)
  /\ written' = Closed(written, S, Nothing)
  /\ suspended' = suspended \ S

Commit(s) ==
  /\ at[s] = "written"
  /\ table' = View(s)
  /\ Close({s})
  /\ UNCHANGED faults

\* PostgreSQL aborts one session of a cycle.  The backfill catches the error of
\* a batch, but its session is lost with the transaction and so is the run.
AbortDeadlock(s) ==
  /\ Deadlocked(s)
  /\ Close({s})
  /\ UNCHANGED <<table, faults>>

\* A database error, a crash of the script, or a soft limit raised in the
\* coroutine rolls one session back; a process that is killed, by the hard limit
\* too, takes the suspended scrapes with it.
Fails(s) ==
  /\ at[s] \notin {"idle", "done"}
  /\ faults < MaxFaults
  /\ faults' = faults + 1
  /\ \/ Close({s})
     \/ s \in Scraper /\ Close({o \in Scraper : at[o] # "idle"})
  /\ UNCHANGED table

\* A soft limit that interrupts the loop ends the task and leaves its coroutine
\* suspended, with its transaction open and its rows locked.  Bound: no seed
\* run meets a suspended scrape, and labelling comes after it: to both of them it
\* is a slow scrape.
SoftLimit(s) ==
  /\ s \in Scraper \ suspended
  /\ at[s] # "idle"
  /\ \A o \in Seeder : at[o] \in {"idle", "done"}
  /\ \A o \in Labeler : at[o] = "idle"
  /\ faults < MaxFaults
  /\ faults' = faults + 1
  /\ suspended' = suspended \cup {s}
  /\ UNCHANGED <<table, at, found, inserted, picked, todo, written>>

-----------------------------------------------------------------------------
Embeds(s) == Upsert(s) \/ SkipEmbedding(s) \/ Select(s) \/ Embed(s)

\* The flushed UPDATEs and the deadlock detector need no event loop.
Proceeds(s) ==
  \/ InLoop(s) /\ (Embeds(s) \/ Commit(s))
  \/ UpdateRow(s) \/ AbortDeadlock(s)

Next ==
  \/ \E s \in Finder : Scrape(s)
  \/ \E s \in Embedder : Proceeds(s)
  \/ \E s \in Labeler : Commit(s) \/ \E d \in Dispute : Label(s, d)
  \/ \E s \in Session : Fails(s) \/ SoftLimit(s)

Spec == Init /\ [][Next]_vars

\* Beat goes on starting the scrape, and an open session goes on to its end.  Of
\* the coroutines of the scrapes only that one of those that can go on does.
FairSpec ==
  /\ Spec
  /\ WF_vars(\E s \in Scraper : Scrape(s) \/ Proceeds(s))
  /\ \A s \in Seeder \cup Backfill : WF_vars(at[s] # "idle" /\ Proceeds(s))
  /\ \A s \in Labeler : WF_vars(Commit(s))

-----------------------------------------------------------------------------
(* Properties *)

\* A label stays until a labelling session that set it commits: no scrape that
\* meets the row again, and no embedding of a row loaded before, undoes it.
LabelsStay ==
  [][\A d \in Stored :
       table'[d].label # table[d].label =>
         \E s \in Labeler : /\ d \in DOMAIN written[s] /\ at'[s] = "done"
                            /\ table'[d].label = written[s][d].label]_vars

\* When a scrape commits, every record it found is stored, also one that
\* another scrape had inserted meanwhile and then rolled back.
ScrapedIsStored ==
  [][\A s \in Finder :
       at[s] = "written" /\ at'[s] # "written" /\ faults' = faults
         => found[s] \subseteq DOMAIN table']_vars

\* No row ever gets the embedding of another row's text, whichever items of a
\* batch fail.
VectorsMatch == \A d \in Stored : table[d].embedding \in {d, ZeroVector, NoVector}

\* The corpus never stays behind: again and again every stored row has an
\* embedding, if only zeros, in spite of the limit, of items that fail, of runs
\* that are cut or suspended with their locks, and of sessions that overlap.
EventuallyEmbedded == []<>(\A d \in Stored : table[d].embedding # NoVector)
=============================================================================
