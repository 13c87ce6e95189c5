------------------------- MODULE DisputeCorpus_proofs -------------------------
(***************************************************************************)
(* Proofs about DisputeCorpus, for any number of sessions, disputes and    *)
(* faults and any limits.                                                  *)
(***************************************************************************)
EXTENDS DisputeCorpus, WellFoundedInduction, TLAPS

\* What a session works on exists, if only for itself; only finders insert, and
\* nothing that is stored.
RowsKnown ==
  \A s \in Session :
    /\ DOMAIN written[s] \subseteq Stored \cup inserted[s]
    /\ DOMAIN todo[s] \subseteq Stored \cup inserted[s]
    /\ picked[s] \subseteq Stored \cup inserted[s]
    /\ inserted[s] \cap Stored = {}
    /\ s \notin Finder => inserted[s] = {} /\ at[s] # "scraped"
    /\ at[s] \in {"idle", "scraped"} =>
         inserted[s] = {} /\ DOMAIN written[s] = {} /\ DOMAIN todo[s] = {} /\ picked[s] = {}

\* The locks of PostgreSQL: no row is changed in two open transactions.
Exclusive == \A s, o \in Session : s # o => LockedBy(s) \cap LockedBy(o) = {}

\* An embedding is its row's wherever it is on its way to the table.
VectorsUnderWay ==
  \A s \in Session :
    /\ \A d \in DOMAIN written[s] : written[s][d].embedding \in {d, ZeroVector, NoVector}
    /\ \A d \in DOMAIN todo[s] : todo[s][d] \in {d, ZeroVector}

\* What embeds a row writes its label as it is stored.
LabelsKept ==
  \A s \in Embedder : \A d \in DOMAIN written[s] \cap Stored : written[s][d].label = table[d].label

\* What a finder found is there once it is upserted, if only for itself.
FoundIsThere ==
  \A s \in Finder :
    at[s] \in {"upserted", "selected", "flushing", "written"} => found[s] \subseteq Stored \cup inserted[s]

CorpusInv ==
  /\ TypeOK /\ RowsKnown /\ Exclusive
  /\ VectorsMatch /\ VectorsUnderWay /\ LabelsKept /\ FoundIsThere

LEMMA CorpusInitially == Init => CorpusInv
  BY FaultsAssumption
  DEF Init, CorpusInv, TypeOK, RowsKnown, Exclusive, VectorsMatch, VectorsUnderWay, LabelsKept,
      FoundIsThere, Partly, Nothing, Stored, LockedBy

\* What the scrapers return are disputes.
LEMMA ResultsAreDisputes == Results \subseteq SUBSET Dispute
  <1>. SUFFICES ASSUME NEW records \in Results PROVE records \subseteq Dispute
    OBVIOUS
  <1>. QED
    BY DEF Results, Returned

LEMMA ScrapeKeeps ==
  ASSUME CorpusInv, NEW s \in Finder, Scrape(s)
  PROVE  CorpusInv'
  BY ResultsAreDisputes
  DEF Scrape, CorpusInv, TypeOK, RowsKnown, Exclusive, VectorsMatch, VectorsUnderWay, LabelsKept,
      FoundIsThere, Partly, Stored, LockedBy, Session, Embedder

LEMMA SkipKeeps ==
  ASSUME CorpusInv, NEW s \in Embedder, SkipEmbedding(s)
  PROVE  CorpusInv'
  BY DEF SkipEmbedding, CorpusInv, TypeOK, RowsKnown, Exclusive, VectorsMatch, VectorsUnderWay, LabelsKept,
      FoundIsThere, Partly, Stored, LockedBy, Session, Embedder

LEMMA UpsertKeeps ==
  ASSUME CorpusInv, NEW s \in Finder, Upsert(s)
  PROVE  CorpusInv'
  <1>. USE DEF CorpusInv
  <1>1. /\ s \in Session /\ at[s] = "scraped"
        /\ \A o \in Finder \ {s} : inserted[o] \cap found[s] = {}
        /\ at' = [at EXCEPT ![s] = "upserted"]
        /\ inserted' = [inserted EXCEPT ![s] = found[s] \ Stored]
        /\ UNCHANGED <<table, found, picked, todo, written, suspended, faults, Stored>>
    BY DEF Upsert, Session, Embedder, Stored
  <1>2. TypeOK'
    BY <1>1 DEF TypeOK, Partly
  <1>3. DOMAIN written[s] = {} /\ DOMAIN todo[s] = {} /\ picked[s] = {}
    BY <1>1 DEF RowsKnown
  <1>4. RowsKnown'
    BY <1>1, <1>3 DEF TypeOK, RowsKnown
  <1>5. Exclusive'
    <2>1. \A o \in Session \ {s} : LockedBy(o)' = LockedBy(o)
      BY <1>1 DEF LockedBy, TypeOK
    <2>2. LockedBy(s)' = found[s] \ Stored
      BY <1>1, <1>3 DEF LockedBy, TypeOK
    <2>3. \A o \in Session \ {s} : LockedBy(o) \cap (found[s] \ Stored) = {}
      BY <1>1 DEF LockedBy, RowsKnown
    <2>. QED
      BY <2>1, <2>2, <2>3 DEF Exclusive
  <1>6. VectorsMatch' /\ VectorsUnderWay' /\ LabelsKept'
    BY <1>1 DEF VectorsMatch, VectorsUnderWay, LabelsKept
  <1>7. FoundIsThere'
    BY <1>1 DEF FoundIsThere, TypeOK
  <1>. QED
    BY <1>2, <1>4, <1>5, <1>6, <1>7

\* What a session selects it sees.
LEMMA SelectKeeps ==
  ASSUME CorpusInv, NEW s \in Embedder, Select(s)
  PROVE  CorpusInv'
  <1>. USE DEF CorpusInv
  <1>1. /\ s \in Session
        /\ UNCHANGED <<table, found, inserted, todo, written, suspended, faults, Stored>>
    BY DEF Select, Session, Stored
  <1>2. PICK S \in SUBSET (Stored \cup inserted[s]) : picked' = [picked EXCEPT ![s] = S]
    BY DEF Select, View
  <1>3. at[s] # "scraped" /\ (s \in Finder => at[s] = "upserted")
        /\ \E stage \in {"written", "selected"} : at' = [at EXCEPT ![s] = stage]
    BY DEF Select
  <1>4. TypeOK'
    BY <1>1, <1>2, <1>3 DEF TypeOK, Partly, Stored
  <1>5. RowsKnown'
    BY <1>1, <1>2, <1>3 DEF RowsKnown, TypeOK
  <1>6. Exclusive' /\ VectorsMatch' /\ VectorsUnderWay' /\ LabelsKept'
    BY <1>1 DEF Exclusive, LockedBy, VectorsMatch, VectorsUnderWay, LabelsKept
  <1>7. FoundIsThere'
    BY <1>1, <1>3 DEF FoundIsThere, TypeOK
  <1>. QED
    BY <1>4, <1>5, <1>6, <1>7

\* zip: whichever items failed, a record gets its own embedding or zeros.
LEMMA AssignedOwn ==
  ASSUME NEW rows, NEW batch \in SetToSeqs(rows), NEW failing \in SUBSET DOMAIN batch
  PROVE  LET f == Assigned(batch, EmbedBatch(batch, failing))
         IN  DOMAIN f \subseteq rows /\ \A d \in DOMAIN f : f[d] \in {d, ZeroVector}
  <1>. DEFINE vectors == EmbedBatch(batch, failing)
  <1>1. DOMAIN vectors = DOMAIN batch /\ \A i \in DOMAIN batch : batch[i] \in rows /\ vectors[i] \in {batch[i], ZeroVector}
    BY DEF EmbedBatch, SetToSeqs
  <1>. HIDE DEF vectors
  <1>2. ASSUME NEW d \in {batch[i] : i \in DOMAIN vectors}
        PROVE  d \in rows /\ vectors[CHOOSE i \in DOMAIN batch : batch[i] = d] \in {d, ZeroVector}
    BY <1>1
  <1>. QED
    BY <1>2 DEF Assigned, vectors

LEMMA EmbedKeeps ==
  ASSUME CorpusInv, NEW s \in Embedder, Embed(s)
  PROVE  CorpusInv'
  <1>. USE DEF CorpusInv
  <1>1. /\ s \in Session /\ at[s] = "selected"
        /\ UNCHANGED <<table, found, inserted, written, suspended, faults, Stored>>
    BY DEF Embed, Session, Stored
  <1>2. PICK rows \in SUBSET picked[s] :
          /\ picked' = [picked EXCEPT ![s] = @ \ rows]
          /\ \E f : /\ todo' = [todo EXCEPT ![s] = f]
                    /\ DOMAIN f \subseteq rows
                    /\ \A d \in DOMAIN f : f[d] \in {d, ZeroVector}
                    /\ f = [d \in DOMAIN f |-> f[d]]
    <2>1. PICK rows \in SUBSET picked[s] :
            /\ picked' = [picked EXCEPT ![s] = @ \ rows]
            /\ \E batch \in SetToSeqs(rows) : \E failing \in SUBSET DOMAIN batch :
                 todo' = [todo EXCEPT ![s] = Assigned(batch, EmbedBatch(batch, failing))]
      BY DEF Embed
    <2>2. PICK batch \in SetToSeqs(rows) : \E failing \in SUBSET DOMAIN batch :
            todo' = [todo EXCEPT ![s] = Assigned(batch, EmbedBatch(batch, failing))]
      BY <2>1
    <2>3. PICK failing \in SUBSET DOMAIN batch :
            todo' = [todo EXCEPT ![s] = Assigned(batch, EmbedBatch(batch, failing))]
      BY <2>2
    <2>. DEFINE f == Assigned(batch, EmbedBatch(batch, failing))
    <2>4. f = [d \in DOMAIN f |-> f[d]]
      BY DEF Assigned
    <2>5. DOMAIN f \subseteq rows /\ \A d \in DOMAIN f : f[d] \in {d, ZeroVector}
      BY AssignedOwn
    <2>. HIDE DEF f
    <2>6. todo' = [todo EXCEPT ![s] = f]
      BY <2>3 DEF f
    <2>. QED
      BY <2>1, <2>4, <2>5, <2>6
  <1>3. PICK f : /\ todo' = [todo EXCEPT ![s] = f]
                 /\ DOMAIN f \subseteq rows
                 /\ \A d \in DOMAIN f : f[d] \in {d, ZeroVector}
                 /\ f = [d \in DOMAIN f |-> f[d]]
    BY <1>2
  <1>4. \E stage \in {"flushing", "selected", "written"} : at' = [at EXCEPT ![s] = stage]
    BY DEF Embed
  <1>5. rows \subseteq Dispute /\ rows \subseteq Stored \cup inserted[s]
    BY <1>1 DEF TypeOK, RowsKnown
  <1>6. Partly(f, Vector \cup {NoVector})
    BY <1>3, <1>5 DEF Partly, Vector
  <1>7. TypeOK'
    <2>1. at' \in [Session -> {"idle", "scraped", "upserted", "selected", "flushing", "written", "done"}]
      BY <1>4 DEF TypeOK
    <2>2. picked' \in [Session -> SUBSET Dispute]
      BY <1>2 DEF TypeOK
    <2>3. DOMAIN todo' = Session /\ \A o \in Session : Partly(todo'[o], Vector \cup {NoVector})
      BY <1>1, <1>3, <1>6 DEF TypeOK
    <2>. QED
      BY <1>1, <2>1, <2>2, <2>3 DEF TypeOK, Partly
  <1>8. RowsKnown'
    BY <1>1, <1>2, <1>3, <1>4, <1>5 DEF RowsKnown, TypeOK
  <1>9. VectorsUnderWay'
    BY <1>1, <1>3 DEF VectorsUnderWay, TypeOK
  <1>10. Exclusive' /\ VectorsMatch' /\ LabelsKept'
    BY <1>1 DEF Exclusive, LockedBy, VectorsMatch, LabelsKept
  <1>11. FoundIsThere'
    BY <1>1, <1>4 DEF FoundIsThere, TypeOK
  <1>. QED
    BY <1>7, <1>8, <1>9, <1>10, <1>11

\* A session locks a row that no other session holds, and writes it.
LEMMA WriteKeeps ==
  ASSUME CorpusInv, NEW s \in Session, NEW d \in Stored \cup inserted[s], NEW row \in Row,
         Writes(s, d, row), row.embedding \in {d, ZeroVector, NoVector},
         \A o \in Session \ {s} : d \notin LockedBy(o),
         s \in Embedder /\ d \in Stored => row.label = table[d].label,
         UNCHANGED <<table, inserted>>
  PROVE  /\ \A o \in Session : Partly(written'[o], Row) /\ DOMAIN written'[o] \subseteq Stored \cup inserted[o]
         /\ DOMAIN written' = Session
         /\ Exclusive' /\ LabelsKept'
         /\ \A o \in Session : \A e \in DOMAIN written'[o] : written'[o][e].embedding \in {e, ZeroVector, NoVector}
         /\ \A o \in Session \ {s} : written'[o] = written[o]
  <1>. USE DEF CorpusInv
  <1>. DEFINE w == [x \in DOMAIN written[s] \cup {d} |-> IF x = d THEN row ELSE written[s][x]]
  <1>1. written' = [written EXCEPT ![s] = w] /\ s \in DOMAIN written /\ DOMAIN written = Session
    BY DEF Writes, TypeOK
  <1>. HIDE DEF w
  <1>2. /\ DOMAIN w = DOMAIN written[s] \cup {d} /\ w[d] = row
        /\ \A x \in DOMAIN written[s] : x # d => w[x] = written[s][x]
        /\ w = [x \in DOMAIN w |-> w[x]]
    BY DEF w
  <1>3. \A o \in Session : written'[o] = IF o = s THEN w ELSE written[o]
    BY <1>1
  <1>4. Partly(w, Row) /\ DOMAIN w \subseteq Stored \cup inserted[s]
    <2>1. Partly(written[s], Row) /\ DOMAIN written[s] \subseteq Stored \cup inserted[s]
      BY DEF TypeOK, RowsKnown
    <2>2. d \in Dispute
      BY DEF TypeOK, Partly, Stored
    <2>. QED
      BY <1>2, <2>1, <2>2 DEF Partly
  <1>5. \A o \in Session : Partly(written'[o], Row) /\ DOMAIN written'[o] \subseteq Stored \cup inserted[o]
    BY <1>3, <1>4 DEF TypeOK, RowsKnown
  <1>6. \A o \in Session : LockedBy(o)' = IF o = s THEN LockedBy(o) \cup {d} ELSE LockedBy(o)
    BY <1>2, <1>3 DEF LockedBy
  <1>7. Exclusive'
    BY <1>6 DEF Exclusive
  <1>8. LabelsKept'
    BY <1>2, <1>3 DEF LabelsKept, Stored, Session
  <1>9. \A o \in Session : \A e \in DOMAIN written'[o] : written'[o][e].embedding \in {e, ZeroVector, NoVector}
    BY <1>2, <1>3 DEF VectorsUnderWay
  <1>. QED
    BY <1>1, <1>3, <1>5, <1>7, <1>8, <1>9

LEMMA ViewTyped ==
  ASSUME CorpusInv, NEW s \in Session, NEW d \in Stored \cup inserted[s]
  PROVE  /\ View(s)[d] \in Row
         /\ View(s)[d].embedding \in {d, ZeroVector, NoVector}
         /\ s \in Embedder /\ d \in Stored => View(s)[d].label = table[d].label
  <1>. USE DEF CorpusInv, NewRow, Row
  <1>1. View(s)[d] = IF d \in DOMAIN written[s] THEN written[s][d]
                     ELSE IF d \in Stored THEN table[d] ELSE NewRow
    BY DEF View
  <1>2. CASE d \in DOMAIN written[s]
    BY <1>1, <1>2 DEF TypeOK, Partly, VectorsUnderWay, LabelsKept
  <1>3. CASE d \notin DOMAIN written[s] /\ d \in Stored
    BY <1>1, <1>3 DEF TypeOK, Partly, VectorsMatch, Stored
  <1>4. CASE d \notin DOMAIN written[s] /\ d \notin Stored
    BY <1>1, <1>4
  <1>. QED
    BY <1>2, <1>3, <1>4

LEMMA UpdateKeeps ==
  ASSUME CorpusInv, NEW s \in Embedder, UpdateRow(s)
  PROVE  CorpusInv'
  <1>. USE DEF CorpusInv
  <1>1. /\ s \in Session /\ at[s] = "flushing"
        /\ UNCHANGED <<table, found, inserted, picked, suspended, faults, Stored>>
        /\ \A o \in Session : ~WaitsFor(s, o)
        /\ \E stage \in {"flushing", "selected", "written"} : at' = [at EXCEPT ![s] = stage]
    BY DEF UpdateRow, Session, Stored
  <1>2. PICK d \in DOMAIN todo[s] :
          /\ IsNextRow(s, d)
          /\ Writes(s, d, [View(s)[d] EXCEPT !.embedding = todo[s][d]])
          /\ todo' = [todo EXCEPT ![s] = [e \in DOMAIN todo[s] \ {d} |-> todo[s][e]]]
    BY DEF UpdateRow
  <1>. DEFINE row == [View(s)[d] EXCEPT !.embedding = todo[s][d]]
              rest == [e \in DOMAIN todo[s] \ {d} |-> todo[s][e]]
  <1>3. d \in Stored \cup inserted[s] /\ todo[s][d] \in {d, ZeroVector} /\ d \in Dispute
    BY <1>1, <1>2 DEF RowsKnown, VectorsUnderWay, TypeOK, Partly
  <1>4. /\ row \in Row /\ row.embedding \in {d, ZeroVector, NoVector}
        /\ d \in Stored => row.label = table[d].label
    BY <1>1, <1>3, ViewTyped DEF Row, Vector
  <1>5. \A o \in Session \ {s} : d \notin LockedBy(o)
    BY <1>1, <1>2 DEF WaitsFor
  <1>. HIDE DEF row
  <1>6. Writes(s, d, row)
    BY <1>2 DEF row
  <1>7. /\ \A o \in Session : Partly(written'[o], Row) /\ DOMAIN written'[o] \subseteq Stored \cup inserted[o]
        /\ DOMAIN written' = Session
        /\ Exclusive' /\ LabelsKept'
        /\ \A o \in Session : \A e \in DOMAIN written'[o] : written'[o][e].embedding \in {e, ZeroVector, NoVector}
        /\ \A o \in Session \ {s} : written'[o] = written[o]
    BY <1>1, <1>3, <1>4, <1>5, <1>6, WriteKeeps
  <1>8. /\ \A o \in Session \ {s} : todo'[o] = todo[o]
        /\ todo'[s] = rest /\ Partly(rest, Vector \cup {NoVector})
        /\ DOMAIN rest \subseteq DOMAIN todo[s] /\ \A e \in DOMAIN rest : rest[e] = todo[s][e]
        /\ DOMAIN todo' = Session
    BY <1>1, <1>2 DEF TypeOK, Partly
  <1>9. TypeOK'
    <2>1. at' \in [Session -> {"idle", "scraped", "upserted", "selected", "flushing", "written", "done"}]
      BY <1>1 DEF TypeOK
    <2>2. \A o \in Session : Partly(todo'[o], Vector \cup {NoVector})
      BY <1>8 DEF TypeOK
    <2>. QED
      BY <1>1, <1>7, <1>8, <2>1, <2>2 DEF TypeOK, Partly
  <1>10. RowsKnown'
    BY <1>1, <1>7, <1>8 DEF RowsKnown, TypeOK
  <1>11. VectorsUnderWay' /\ VectorsMatch'
    BY <1>1, <1>7, <1>8 DEF VectorsUnderWay, VectorsMatch
  <1>12. FoundIsThere'
    BY <1>1 DEF FoundIsThere, TypeOK
  <1>. QED
    BY <1>7, <1>9, <1>10, <1>11, <1>12

LEMMA LabelKeeps ==
  ASSUME CorpusInv, NEW s \in Labeler, NEW d \in Dispute, Label(s, d)
  PROVE  CorpusInv'
  <1>. USE DEF CorpusInv
  <1>1. /\ s \in Session /\ at[s] = "idle" /\ d \in Stored
        /\ \A o \in Session : d \notin LockedBy(o)
        /\ at' = [at EXCEPT ![s] = "written"]
        /\ UNCHANGED <<table, found, inserted, picked, todo, suspended, faults, Stored>>
    BY DEF Label, Session, Stored
  <1>2. PICK category \in Category : Writes(s, d, [table[d] EXCEPT !.label = category])
    BY DEF Label
  <1>. DEFINE row == [table[d] EXCEPT !.label = category]
  <1>3. row \in Row /\ row.embedding \in {d, ZeroVector, NoVector}
    BY <1>1 DEF TypeOK, Partly, Stored, VectorsMatch, Row
  <1>4. s \notin Embedder
    BY SessionAssumption DEF Embedder, Finder
  <1>. HIDE DEF row
  <1>5. Writes(s, d, row)
    BY <1>2 DEF row
  <1>6. /\ \A o \in Session : Partly(written'[o], Row) /\ DOMAIN written'[o] \subseteq Stored \cup inserted[o]
        /\ DOMAIN written' = Session
        /\ Exclusive' /\ LabelsKept'
        /\ \A o \in Session : \A e \in DOMAIN written'[o] : written'[o][e].embedding \in {e, ZeroVector, NoVector}
        /\ \A o \in Session \ {s} : written'[o] = written[o]
    BY <1>1, <1>3, <1>4, <1>5, WriteKeeps
  <1>7. TypeOK'
    BY <1>1, <1>6 DEF TypeOK, Partly
  <1>8. RowsKnown'
    BY <1>1, <1>6 DEF RowsKnown, TypeOK
  <1>9. VectorsUnderWay' /\ VectorsMatch'
    BY <1>1, <1>6 DEF VectorsUnderWay, VectorsMatch
  <1>10. FoundIsThere'
    BY <1>1, <1>4 DEF FoundIsThere, TypeOK, Embedder
  <1>. QED
    BY <1>6, <1>7, <1>8, <1>9, <1>10

-----------------------------------------------------------------------------
(* The end of a session *)

\* Sessions that end without having changed the table.
LEMMA CloseKeeps ==
  ASSUME CorpusInv, NEW S \in SUBSET Session, Close(S), faults' \in 0 .. MaxFaults, UNCHANGED table
  PROVE  CorpusInv'
  <1>. USE DEF CorpusInv
  <1>1. Nothing = [d \in {} |-> NewRow] /\ DOMAIN Nothing = {}
    BY DEF Nothing
  <1>2. /\ at' \in [Session -> {"idle", "scraped", "upserted", "selected", "flushing", "written", "done"}]
        /\ \A s \in S : at'[s] \in {"idle", "done"}
        /\ \A s \in Session \ S : at'[s] = at[s]
    BY DEF Close, TypeOK
  <1>3. /\ found' = [s \in Session |-> IF s \in S THEN {} ELSE found[s]]
        /\ inserted' = [s \in Session |-> IF s \in S THEN {} ELSE inserted[s]]
        /\ picked' = [s \in Session |-> IF s \in S THEN {} ELSE picked[s]]
        /\ todo' = [s \in Session |-> IF s \in S THEN Nothing ELSE todo[s]]
        /\ written' = [s \in Session |-> IF s \in S THEN Nothing ELSE written[s]]
        /\ suspended' \subseteq suspended
        /\ Stored' = Stored
    BY DEF Close, Closed, Stored
  <1>4. Partly(Nothing, Row) /\ Partly(Nothing, Vector \cup {NoVector})
    BY <1>1 DEF Partly
  <1>5. TypeOK'
    <2>1. /\ found' \in [Session -> SUBSET Dispute]
          /\ inserted' \in [Session -> SUBSET Dispute]
          /\ picked' \in [Session -> SUBSET Dispute]
      BY <1>3 DEF TypeOK
    <2>2. /\ DOMAIN todo' = Session /\ \A s \in Session : Partly(todo'[s], Vector \cup {NoVector})
          /\ DOMAIN written' = Session /\ \A s \in Session : Partly(written'[s], Row)
      BY <1>3, <1>4 DEF TypeOK
    <2>3. suspended' \subseteq Scraper /\ Partly(table', Row)
      BY <1>3 DEF TypeOK
    <2>. QED
      BY <1>2, <2>1, <2>2, <2>3 DEF TypeOK
  <1>6. RowsKnown'
    BY <1>1, <1>2, <1>3 DEF RowsKnown
  <1>7. Exclusive'
    <2>1. \A o \in Session : LockedBy(o)' = IF o \in S THEN {} ELSE LockedBy(o)
      BY <1>1, <1>3 DEF LockedBy
    <2>. QED
      BY <2>1 DEF Exclusive
  <1>8. VectorsMatch' /\ VectorsUnderWay'
    BY <1>1, <1>3 DEF VectorsMatch, VectorsUnderWay
  <1>9. LabelsKept'
    BY <1>1, <1>3 DEF LabelsKept, Session
  <1>10. FoundIsThere'
    <2>. SUFFICES ASSUME NEW s \in Finder, at'[s] \in {"upserted", "selected", "flushing", "written"}
                  PROVE  found'[s] \subseteq Stored' \cup inserted'[s]
      BY DEF FoundIsThere
    <2>1. s \in Session /\ s \notin S
      BY <1>2 DEF Session, Embedder
    <2>. QED
      BY <1>2, <1>3, <2>1 DEF FoundIsThere
  <1>. QED
    BY <1>5, <1>6, <1>7, <1>8, <1>9, <1>10

\* The end of one session.
LEMMA CloseOne ==
  ASSUME TypeOK, NEW s \in Session, Close({s})
  PROVE  /\ at' = [at EXCEPT ![s] = IF s \in Scraper THEN "idle" ELSE "done"]
         /\ found' = [found EXCEPT ![s] = {}]
         /\ inserted' = [inserted EXCEPT ![s] = {}]
         /\ picked' = [picked EXCEPT ![s] = {}]
         /\ todo' = [todo EXCEPT ![s] = Nothing]
         /\ written' = [written EXCEPT ![s] = Nothing]
         /\ suspended' \subseteq suspended
  BY DEF TypeOK, Close, Closed

\* What a commit does to the table.
LEMMA CommitWrites ==
  ASSUME CorpusInv, NEW s \in Session, Commit(s)
  PROVE  /\ Stored' = Stored \cup inserted[s]
         /\ Partly(table', Row)
         /\ \A d \in Stored' : table'[d].embedding \in {d, ZeroVector, NoVector}
         /\ \A d \in Stored : d \notin DOMAIN written[s] => table'[d] = table[d]
         /\ \A d \in Stored : d \in DOMAIN written[s] => table'[d] = written[s][d]
         /\ s \in Embedder => \A d \in Stored : table'[d].label = table[d].label
  <1>. USE DEF CorpusInv
  <1>1. table' = View(s) /\ DOMAIN View(s) = Stored \cup inserted[s]
        /\ View(s) = [d \in DOMAIN View(s) |-> View(s)[d]]
    BY DEF Commit, View
  <1>2. Stored \cup inserted[s] \subseteq Dispute
    BY DEF TypeOK, Partly, Stored
  <1>3. \A d \in Stored \cup inserted[s] :
          /\ View(s)[d] \in Row
          /\ View(s)[d].embedding \in {d, ZeroVector, NoVector}
          /\ s \in Embedder /\ d \in Stored => View(s)[d].label = table[d].label
    BY ViewTyped
  <1>4. \A d \in Stored : View(s)[d] = IF d \in DOMAIN written[s] THEN written[s][d] ELSE table[d]
    BY DEF View
  <1>. QED
    BY <1>1, <1>2, <1>3, <1>4 DEF Partly, Stored

LEMMA CommitKeeps ==
  ASSUME CorpusInv, NEW s \in Session, Commit(s)
  PROVE  CorpusInv'
  <1>. USE DEF CorpusInv
  <1>1. Nothing = [d \in {} |-> NewRow] /\ DOMAIN Nothing = {}
    BY DEF Nothing
  <1>2. /\ \E stage \in {"idle", "done"} : at' = [at EXCEPT ![s] = stage]
        /\ found' = [found EXCEPT ![s] = {}]
        /\ inserted' = [inserted EXCEPT ![s] = {}]
        /\ picked' = [picked EXCEPT ![s] = {}]
        /\ todo' = [todo EXCEPT ![s] = Nothing]
        /\ written' = [written EXCEPT ![s] = Nothing]
        /\ suspended' \subseteq suspended
        /\ faults' = faults
    BY CloseOne DEF Commit
  <1>3. Partly(Nothing, Row) /\ Partly(Nothing, Vector \cup {NoVector})
    BY <1>1 DEF Partly
  <1>4. /\ Stored' = Stored \cup inserted[s]
        /\ Partly(table', Row)
        /\ \A d \in Stored' : table'[d].embedding \in {d, ZeroVector, NoVector}
        /\ \A d \in Stored : d \notin DOMAIN written[s] => table'[d] = table[d]
    BY CommitWrites
  <1>5. \A o \in Session \ {s} : DOMAIN written[o] \cap DOMAIN written[s] = {}
                                 /\ inserted[o] \cap inserted[s] = {}
                                 /\ DOMAIN written[o] \cap inserted[s] = {}
    BY DEF Exclusive, LockedBy
  <1>6. TypeOK'
    BY <1>2, <1>3, <1>4 DEF TypeOK, Partly
  <1>7. RowsKnown'
    BY <1>1, <1>2, <1>4, <1>5 DEF RowsKnown, TypeOK
  <1>8. Exclusive'
    <2>1. \A o \in Session : LockedBy(o)' = IF o = s THEN {} ELSE LockedBy(o)
      BY <1>1, <1>2 DEF LockedBy, TypeOK
    <2>. QED
      BY <2>1 DEF Exclusive
  <1>9. VectorsMatch' /\ VectorsUnderWay'
    BY <1>1, <1>2, <1>4 DEF VectorsMatch, VectorsUnderWay, TypeOK
  <1>10. LabelsKept'
    <2>. SUFFICES ASSUME NEW o \in Embedder, NEW d \in DOMAIN written'[o] \cap Stored'
                  PROVE  written'[o][d].label = table'[d].label
      BY DEF LabelsKept
    <2>1. o # s /\ o \in Session /\ written'[o] = written[o]
      BY <1>1, <1>2 DEF TypeOK, Session
    <2>2. d \in Stored /\ table'[d] = table[d]
      BY <1>4, <1>5, <2>1
    <2>. QED
      BY <2>1, <2>2 DEF LabelsKept
  <1>11. FoundIsThere'
    <2>. SUFFICES ASSUME NEW o \in Finder, at'[o] \in {"upserted", "selected", "flushing", "written"}
                  PROVE  found'[o] \subseteq Stored' \cup inserted'[o]
      BY DEF FoundIsThere
    <2>1. o # s /\ o \in Session /\ at'[o] = at[o] /\ found'[o] = found[o] /\ inserted'[o] = inserted[o]
      BY <1>2 DEF TypeOK, Session, Embedder
    <2>. QED
      BY <1>4, <2>1 DEF FoundIsThere
  <1>. QED
    BY <1>6, <1>7, <1>8, <1>9, <1>10, <1>11

-----------------------------------------------------------------------------
(* The theorems *)

LEMMA CorpusStep == CorpusInv /\ [Next]_vars => CorpusInv'
  <1>. SUFFICES ASSUME CorpusInv, [Next]_vars PROVE CorpusInv'
    OBVIOUS
  <1>1. ASSUME NEW s \in Finder, Scrape(s) PROVE CorpusInv'
    BY <1>1, ScrapeKeeps
  <1>2. ASSUME NEW s \in Embedder, Embeds(s) \/ UpdateRow(s) PROVE CorpusInv'
    <2>0. s \in Session /\ (s \in Backfill \/ s \in Finder)
      BY DEF Session, Embedder
    <2>1. CASE Upsert(s)
      <3>1. CASE s \in Finder
        BY <2>1, <3>1, UpsertKeeps
      <3>2. CASE s \notin Finder
        BY <2>0, <2>1, <3>2 DEF Upsert, CorpusInv, RowsKnown
      <3>. QED
        BY <3>1, <3>2
    <2>2. CASE SkipEmbedding(s)
      BY <2>2, SkipKeeps
    <2>3. CASE Select(s)
      BY <2>3, SelectKeeps
    <2>4. CASE Embed(s)
      BY <2>4, EmbedKeeps
    <2>5. CASE UpdateRow(s)
      BY <2>5, UpdateKeeps
    <2>. QED
      BY <1>2, <2>1, <2>2, <2>3, <2>4, <2>5 DEF Embeds
  <1>3. ASSUME NEW s \in Embedder, AbortDeadlock(s) PROVE CorpusInv'
    <2>1. {s} \in SUBSET Session /\ faults' \in 0 .. MaxFaults
      BY <1>3 DEF AbortDeadlock, Session, CorpusInv, TypeOK
    <2>. QED
      BY <1>3, <2>1, CloseKeeps DEF AbortDeadlock
  <1>4. ASSUME NEW s \in Labeler, NEW d \in Dispute, Label(s, d) PROVE CorpusInv'
    BY <1>4, LabelKeeps
  <1>5. ASSUME NEW s \in Session, Commit(s) PROVE CorpusInv'
    BY <1>5, CommitKeeps
  <1>6. ASSUME NEW s \in Session, Fails(s) PROVE CorpusInv'
    <2>1. faults' \in 0 .. MaxFaults
      BY <1>6, FaultsAssumption DEF Fails, CorpusInv, TypeOK
    <2>2. {s} \in SUBSET Session /\ {o \in Scraper : at[o] # "idle"} \in SUBSET Session
      BY DEF Session, Embedder, Finder
    <2>3. CASE Close({s})
      BY <1>6, <2>1, <2>2, <2>3, CloseKeeps DEF Fails
    <2>4. CASE Close({o \in Scraper : at[o] # "idle"})
      <3>. DEFINE S == {o \in Scraper : at[o] # "idle"}
      <3>1. S \in SUBSET Session /\ Close(S) /\ UNCHANGED table
        BY <1>6, <2>2, <2>4 DEF Fails
      <3>. HIDE DEF S
      <3>. QED
        BY <2>1, <3>1, CloseKeeps
    <2>. QED
      BY <1>6, <2>3, <2>4 DEF Fails
  <1>8. ASSUME NEW s \in Session, SoftLimit(s) PROVE CorpusInv'
    <2>1. faults' \in 0 .. MaxFaults /\ suspended' \subseteq Scraper
      BY <1>8, FaultsAssumption DEF SoftLimit, CorpusInv, TypeOK
    <2>. QED
      BY <1>8, <2>1 DEF SoftLimit, CorpusInv, TypeOK, RowsKnown, Exclusive, VectorsMatch, VectorsUnderWay,
         LabelsKept, FoundIsThere, Partly, Stored, LockedBy
  <1>7. CASE UNCHANGED vars
    BY <1>7 DEF vars, sessionVars, CorpusInv, TypeOK, RowsKnown, Exclusive, VectorsMatch, VectorsUnderWay,
            LabelsKept, FoundIsThere, Partly, Stored, LockedBy
  <1>. QED
    BY <1>1, <1>2, <1>3, <1>4, <1>5, <1>6, <1>7, <1>8 DEF Next, Proceeds, Session

\* The inductive invariant.
THEOREM CorpusInvariant == Spec => []CorpusInv
  BY CorpusInitially, CorpusStep, PTL DEF Spec

\* The variables keep their types.
THEOREM TypeCorrect == Spec => []TypeOK
  BY CorpusInvariant, PTL DEF CorpusInv

\* No stored row has the embedding of another row's text.
THEOREM EmbeddingsBelong == Spec => []VectorsMatch
  BY CorpusInvariant, PTL DEF CorpusInv

\* Nothing but a labelling session changes a label.
THEOREM LabelsAreKept == Spec => LabelsStay
  <1>. DEFINE Kept(d) ==
         table'[d].label # table[d].label =>
           \E s \in Labeler : /\ d \in DOMAIN written[s] /\ at'[s] = "done"
                              /\ table'[d].label = written[s][d].label
  <1>1. ASSUME CorpusInv, NEW s \in Session, Commit(s), NEW d \in Stored PROVE Kept(d)
    <2>1. CASE s \in Embedder
      BY <1>1, <2>1, CommitWrites
    <2>2. CASE s \notin Embedder
      <3>1. s \in Labeler /\ s \notin Scraper
        BY <2>2 DEF Session, Embedder, Finder
      <3>2. at'[s] = "done"
        BY <1>1, <3>1, CloseOne DEF Commit, CorpusInv, TypeOK
      <3>. QED
        BY <1>1, <3>1, <3>2, CommitWrites
    <2>. QED
      BY <2>1, <2>2
  <1>2. ASSUME CorpusInv, [Next]_vars, NEW d \in Stored PROVE Kept(d)
    <2>1. CASE \E s \in Session : Commit(s)
      BY <1>1, <1>2, <2>1
    <2>2. CASE table' = table
      BY <2>2
    <2>. QED
      BY <1>2, <2>1, <2>2 DEF Next, Proceeds, Scrape, Embeds, Upsert, SkipEmbedding, Select, Embed, UpdateRow,
              AbortDeadlock, Label, Fails, SoftLimit, Session, vars
  <1>3. CorpusInv /\ [Next]_vars => [\A d \in Stored : Kept(d)]_vars
    BY <1>2
  <1>. QED
    BY <1>3, CorpusInvariant, PTL DEF Spec, LabelsStay

\* Every record of a scrape that commits is stored.
THEOREM ScrapesAreStored == Spec => ScrapedIsStored
  <1>. DEFINE Ends(s) == at[s] = "written" /\ at'[s] # "written" /\ faults' = faults
  <1>1. ASSUME CorpusInv, [Next]_vars, NEW s \in Finder, Ends(s) PROVE Commit(s)
    <2>0. s \in Session /\ at \in [Session -> {"idle", "scraped", "upserted", "selected", "flushing", "written", "done"}]
          /\ faults \in Nat
      BY <1>1, FaultsAssumption DEF CorpusInv, TypeOK, Session, Embedder
    <2>1. ASSUME NEW o \in Finder, Scrape(o) PROVE FALSE
      BY <1>1, <2>0, <2>1 DEF Scrape
    <2>2. ASSUME NEW o \in Embedder, Embeds(o) \/ UpdateRow(o) PROVE FALSE
      BY <1>1, <2>0, <2>2 DEF Embeds, Upsert, SkipEmbedding, Select, Embed, UpdateRow
    <2>3. ASSUME NEW o \in Embedder, AbortDeadlock(o) PROVE FALSE
      <3>1. o \in Session /\ at[o] = "flushing"
        BY <2>3 DEF AbortDeadlock, Deadlocked, Session
      <3>2. at'[s] = at[s]
        BY <1>1, <2>0, <2>3, <3>1, CloseOne DEF AbortDeadlock, CorpusInv
      <3>. QED
        BY <1>1, <3>2
    <2>4. ASSUME NEW o \in Labeler, NEW d \in Dispute, Label(o, d) PROVE FALSE
      BY <1>1, <2>0, <2>4 DEF Label
    <2>5. ASSUME NEW o \in Session, Commit(o) PROVE o = s
      BY <1>1, <2>0, <2>5, CloseOne DEF Commit, CorpusInv
    <2>6. ASSUME NEW o \in Session, Fails(o) \/ SoftLimit(o) PROVE FALSE
      BY <1>1, <2>0, <2>6 DEF Fails, SoftLimit
    <2>. QED
      BY <1>1, <2>1, <2>2, <2>3, <2>4, <2>5, <2>6 DEF Next, Proceeds, Session, vars, sessionVars
  <1>2. ASSUME CorpusInv, [Next]_vars, NEW s \in Finder, Ends(s) PROVE found[s] \subseteq Stored'
    <2>1. s \in Session /\ found[s] \subseteq Stored \cup inserted[s]
      BY <1>2 DEF CorpusInv, FoundIsThere, Session, Embedder
    <2>. QED
      BY <1>1, <1>2, <2>1, CommitWrites
  <1>3. CorpusInv /\ [Next]_vars => [\A s \in Finder : Ends(s) => found[s] \subseteq DOMAIN table']_vars
    BY <1>2 DEF Stored
  <1>. QED
    BY <1>3, CorpusInvariant, PTL DEF Spec, ScrapedIsStored

-----------------------------------------------------------------------------
\* The first of the requests that satisfy a condition.
LEMMA FirstRequest ==
  ASSUME NEW S \in SUBSET Nat, S # {}
  PROVE  \E i \in S : \A j \in S : i <= j
  <1>. DEFINE R == {pair \in Nat \X Nat : pair[1] < pair[2]}
  <1>1. IsWellFoundedOn(R, Nat)
    BY NatLessThanWellFounded DEF OpToRel
  <1>2. \E i \in S : \A j \in S : <<j, i>> \notin R
    <2>. HIDE DEF R
    <2>. QED
      BY <1>1, WFMin
  <1>3. PICK i \in S : \A j \in S : <<j, i>> \notin R
    BY <1>2
  <1>4. \A j \in S : ~(j < i)
    BY <1>3
  <1>. QED
    BY <1>4

\* Publishing pushes the posts to higher offsets between two requests, so that
\* some are returned twice; but a dispute that was there from the first request,
\* and was not pushed out of reach by the last, is returned if none ends in an
\* error.
THEOREM NoDisputeIsSkipped ==
  ASSUME NEW m \in Nat \ {0}, NEW n \in Growing(m), NEW k \in Dispute,
         k <= n[1], n[m] - k < m * PageSize,
         \A i \in 1 .. m : Read(ByOffset(n)[i]) = ByOffset(n)[i]
  PROVE  k \in Returned(ByOffset(n))
  <1>1. PageSize \in Nat \ {0} /\ k \in Nat \ {0}
    BY FeedAssumption DEF Dispute
  <1>2. /\ \A i \in 1 .. m : n[i] \in Int
        /\ DOMAIN n = 1 .. m
        /\ \A i \in 2 .. m : n[i - 1] <= n[i]
    BY DEF Growing
  <1>. DEFINE S == {i \in 1 .. m : n[i] - k < i * PageSize}
  <1>3. m \in S /\ S \in SUBSET Nat
    OBVIOUS
  <1>4. PICK i \in S : \A j \in S : i <= j
    BY <1>3, FirstRequest
  <1>. DEFINE offset == (i - 1) * PageSize
  <1>5. offset \in Nat /\ i * PageSize = offset + PageSize /\ (i = 1 => offset = 0)
    BY <1>1, <1>3
  <1>6. n[i] \in Int /\ k \in Int /\ n[i] - offset - PageSize < k
    BY <1>1, <1>2, <1>5
  <1>7. k <= n[i] - offset
    <2>1. CASE i = 1
      BY <2>1, <1>5, <1>6
    <2>2. CASE i # 1
      <3>1. i - 1 \in 1 .. m /\ i - 1 \notin S /\ n[i - 1] <= n[i] /\ n[i - 1] \in Int
        BY <2>2, <1>2, <1>4
      <3>2. ~(n[i - 1] - k < offset)
        BY <3>1
      <3>. HIDE DEF offset
      <3>. QED
        BY <3>1, <3>2, <1>5, <1>6
    <2>. QED
      BY <2>1, <2>2
  <1>8. k \in 1 .. n[i]
    <2>. HIDE DEF offset
    <2>. QED
      BY <1>1, <1>5, <1>6, <1>7
  <1>9. ByOffset(n)[i] = Page(n[i], offset)
    BY <1>2 DEF ByOffset
  <1>10. k \in ByOffset(n)[i]
    BY <1>6, <1>7, <1>8, <1>9 DEF Page
  <1>. QED
    BY <1>2, <1>4, <1>10 DEF Returned, ByOffset
=============================================================================
