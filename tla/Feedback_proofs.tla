--------------------------- MODULE Feedback_proofs ---------------------------
(***************************************************************************)
(* Proofs about Feedback: the table of scoring weights under any number of *)
(* calibrations, outcomes and faults.                                      *)
(***************************************************************************)
EXTENDS Feedback, FiniteSetTheorems, TLAPS

\* Every step that is not one of a calibration, and those that do not write.
Aside == UNCHANGED <<runVars, weightVars>>

\* What the proof needs of the types.
WeightsTyped ==
  /\ calibrator \in [Calibrator -> {"idle", "read", "found", "done", "failed"} \cup Writing]
  /\ DOMAIN seen = Calibrator

\* Calibrations that did not overlap write one at a time ...
OneWriter ==
  ~overlapped => \A c, o \in Calibrator : calibrator[c] \in Writing /\ calibrator[o] \in Writing => c = o

\* ... and what the writing one will deactivate is all that is active.
SeesAll ==
  ~overlapped => \A c \in Calibrator : calibrator[c] \in Writing => seen[c] = active

WeightsInv == WeightsTyped /\ NewestIsActive /\ OneActiveUnlessOverlapping /\ OneWriter /\ SeesAll

LEMMA AsideKeeps == WeightsInv /\ Aside => WeightsInv'
  BY DEF WeightsInv, Aside, runVars, weightVars, WeightsTyped, NewestIsActive,
         OneActiveUnlessOverlapping, OneWriter, SeesAll

\* A run that ends without having changed the table.
LEMMA EndKeeps ==
  ASSUME NEW c \in Calibrator, NEW how \in {"done", "failed"}, WeightsInv, Ends(c, how),
         UNCHANGED <<overlapped, weightVars>>
  PROVE  WeightsInv'
  <1>. USE DEF WeightsInv, WeightsTyped, Ends, weightVars, Writing
  <1>1. WeightsTyped'
    OBVIOUS
  <1>2. NewestIsActive' /\ OneActiveUnlessOverlapping'
    BY DEF NewestIsActive, OneActiveUnlessOverlapping
  <1>3. OneWriter' /\ SeesAll'
    BY DEF OneWriter, SeesAll
  <1>. QED
    BY <1>1, <1>2, <1>3

\* A run that goes on and does not change the table, from a stage to one that
\* writes only if the former does.
LEMMA AdvanceKeeps ==
  ASSUME NEW c \in Calibrator, WeightsInv,
         NEW stage \in {"read", "found"} \cup Writing,
         calibrator' = [calibrator EXCEPT ![c] = stage],
         stage \in Writing => calibrator[c] \in Writing,
         UNCHANGED <<seen, overlapped, weightVars>>
  PROVE  WeightsInv'
  <1>. USE DEF WeightsInv, WeightsTyped, weightVars, Writing
  <1>1. WeightsTyped'
    OBVIOUS
  <1>2. NewestIsActive' /\ OneActiveUnlessOverlapping'
    BY DEF NewestIsActive, OneActiveUnlessOverlapping
  <1>3. OneWriter' /\ SeesAll'
    BY DEF OneWriter, SeesAll
  <1>. QED
    BY <1>1, <1>2, <1>3

\* The inductive invariant.
THEOREM WeightsInvariant == Spec => []WeightsInv
  <1>1. Init => WeightsInv
    BY DEF Init, WeightsInv, WeightsTyped, NewestIsActive, OneActiveUnlessOverlapping,
           OneWriter, SeesAll, Writing
  <1>2. WeightsInv /\ [Next]_vars => WeightsInv'
    <2>. SUFFICES ASSUME WeightsInv, [Next]_vars PROVE WeightsInv'
      OBVIOUS
    <2>1. ASSUME NEW r \in Recorder, NEW d \in Delivery, Record(r, d) PROVE Aside
      BY <2>1 DEF Record, Aside
    <2>2. ASSUME NEW r \in Recorder, Recording(r) \/ RecordFails(r) PROVE Aside
      BY <2>2 DEF Recording, Count, CommitOutcome, Acknowledge, RecordFails, Aside
    <2>12. ASSUME NEW p \in Process, ProcessFault(p) \/ \E d \in Delivery : Discard(p, d) PROVE Aside
      BY <2>12 DEF ProcessFault, SoftLimit, ChildKilled, WorkerKilled, Discard, Aside
    <2>3. ASSUME NEW c \in Calibrator, ReadOutcomes(c) PROVE WeightsInv'
      <3>1. UNCHANGED <<overlapped, weightVars>>
        BY <2>3 DEF ReadOutcomes
      <3>2. CASE Ends(c, "done")
        BY <3>1, <3>2, EndKeeps
      <3>3. CASE calibrator' = [calibrator EXCEPT ![c] = "read"] /\ UNCHANGED seen
        BY <3>1, <3>3, AdvanceKeeps DEF Writing
      <3>. QED
        BY <2>3, <3>2, <3>3 DEF ReadOutcomes
    <2>4. ASSUME NEW c \in Calibrator, Search(c) PROVE WeightsInv'
      <3>1. UNCHANGED <<overlapped, weightVars>>
        BY <2>4 DEF Search
      <3>2. CASE Ends(c, "failed")
        BY <3>1, <3>2, EndKeeps
      <3>3. CASE calibrator' = [calibrator EXCEPT ![c] = "found"] /\ UNCHANGED seen
        BY <3>1, <3>3, AdvanceKeeps DEF Writing
      <3>. QED
        BY <2>4, <3>2, <3>3 DEF Search
    <2>5. ASSUME NEW c \in Calibrator, DryRun(c) PROVE WeightsInv'
      BY <2>5, EndKeeps DEF DryRun
    <2>6. ASSUME NEW c \in Calibrator, CalibrationFails(c) PROVE WeightsInv'
      BY <2>6, EndKeeps DEF CalibrationFails
    <2>7. ASSUME NEW c \in Calibrator, StartUpdate(c) PROVE WeightsInv'
      <3>. USE <2>7 DEF StartUpdate, WeightsInv, WeightsTyped, weightVars, Writing
      <3>1. WeightsTyped'
        OBVIOUS
      <3>2. NewestIsActive' /\ OneActiveUnlessOverlapping'
        BY DEF NewestIsActive, OneActiveUnlessOverlapping
      <3>4. ~overlapped' => ~overlapped /\ \A o \in Calibrator : calibrator[o] \notin Writing
        OBVIOUS
      <3>5. \A o \in Calibrator : o # c => calibrator'[o] = calibrator[o] /\ seen'[o] = seen[o]
        OBVIOUS
      <3>6. seen'[c] = active /\ active' = active
        OBVIOUS
      <3>3. OneWriter' /\ SeesAll'
        BY <3>4, <3>5, <3>6 DEF OneWriter, SeesAll
      <3>. QED
        BY <3>1, <3>2, <3>3
    <2>8. ASSUME NEW c \in Calibrator, Deactivate(c) PROVE WeightsInv'
      <3>. USE <2>8 DEF Deactivate, WeightsInv, WeightsTyped, weightVars, Writing
      <3>1. WeightsTyped'
        OBVIOUS
      <3>2. NewestIsActive' /\ OneActiveUnlessOverlapping'
        BY DEF NewestIsActive, OneActiveUnlessOverlapping
      <3>3. OneWriter' /\ SeesAll'
        BY DEF OneWriter, SeesAll
      <3>. QED
        BY <3>1, <3>2, <3>3
    <2>9. ASSUME NEW c \in Calibrator, InsertWeights(c) PROVE WeightsInv'
      <3>1. calibrator[c] = "deactivated" /\ UNCHANGED <<overlapped, weightVars>>
        BY <2>9 DEF InsertWeights
      <3>2. CASE Ends(c, "failed")
        BY <3>1, <3>2, EndKeeps
      <3>3. CASE calibrator' = [calibrator EXCEPT ![c] = "inserted"] /\ UNCHANGED seen
        BY <3>1, <3>3, AdvanceKeeps DEF Writing
      <3>. QED
        BY <2>9, <3>2, <3>3 DEF InsertWeights
    <2>10. ASSUME NEW c \in Calibrator, CommitWeights(c) PROVE WeightsInv'
      <3>. USE <2>10 DEF CommitWeights, Ends, WeightsInv, WeightsTyped, Writing
      <3>1. WeightsTyped'
        OBVIOUS
      <3>2. newest' = version[c] /\ active' = (active \ seen[c]) \cup {version[c]}
        OBVIOUS
      <3>3. ~overlapped' => active' = {newest'}
        BY <3>2 DEF SeesAll
      <3>4. OneWriter' /\ SeesAll'
        BY DEF OneWriter, SeesAll
      <3>. QED
        BY <3>1, <3>2, <3>3, <3>4 DEF NewestIsActive, OneActiveUnlessOverlapping
    <2>11. CASE UNCHANGED vars
      BY <2>11, AsideKeeps DEF vars, Aside
    <2>. QED
      BY <2>1, <2>2, <2>3, <2>4, <2>5, <2>6, <2>7, <2>8, <2>9, <2>10, <2>11, <2>12, AsideKeeps
         DEF Next, Calibrating
  <1>. QED
    BY <1>1, <1>2, PTL DEF Spec

\* Whatever overlaps or fails, there is always an active row, the newest: the
\* UPDATE and the INSERT are one transaction.
THEOREM NewestActive == Spec => []NewestIsActive
  <1>1. WeightsInv => NewestIsActive
    BY DEF WeightsInv
  <1>. QED
    BY <1>1, WeightsInvariant, PTL

\* Any number of calibrations, run one after the other, leave one active row.
THEOREM OneActive == Spec => []OneActiveUnlessOverlapping
  <1>1. WeightsInv => OneActiveUnlessOverlapping
    BY DEF WeightsInv
  <1>. QED
    BY <1>1, WeightsInvariant, PTL

-----------------------------------------------------------------------------
(* The rows of market_outcomes: types, and how often a delivery is stored *)

\* The rows of a delivery carry the numbers from 1: a further one is new.
Copies(d) == {row \in rows : row[1] = d}

Numbered == \A row \in rows : row[2] \in 1 .. Cardinality(Copies(row[1]))

\* Nobody else can take the message a recorder is about, nor is another one about
\* it: that of a stray coroutine is handled, the others are held.
HoldsAlone ==
  /\ \A r \in Recorder :
       recorder[r] # "idle" => about[r] \in Delivery /\ message[about[r]] # "queued"
  /\ \A q, r \in Recorder :
       recorder[q] # "idle" /\ recorder[r] # "idle" /\ about[q] = about[r] => q = r

\* A delivery is stored again only after a fault ...
StoredOnceUnlessFaults == \A d \in Delivery : Cardinality(Copies(d)) <= faults + 1

\* ... because a message that waits, or whose recorder has not committed, has
\* cost one fault for each of its rows.
PaidByFaults ==
  \A d \in Delivery :
    /\ message[d] = "queued" => Cardinality(Copies(d)) <= faults
    /\ \A r \in Recorder :
         recorder[r] \in {"inserted", "counted"} /\ about[r] = d => Cardinality(Copies(d)) <= faults

RowsInv ==
  /\ TypeOK
  /\ IsFiniteSet(rows)
  /\ Numbered
  /\ HoldsAlone
  /\ StoredOnceUnlessFaults
  /\ PaidByFaults

\* The steps of recorders leave the calibrations alone, and the other way round.
LEMMA Apart ==
  /\ \A r \in Recorder, d \in Delivery : Record(r, d) => UNCHANGED <<rows, minute, runVars, weightVars, faults>>
  /\ \A r \in Recorder : Recording(r) => UNCHANGED <<minute, runVars, weightVars, faults>>
  /\ \A r \in Recorder : RecordFails(r) => UNCHANGED <<rows, minute, runVars, weightVars>>
  /\ \A p \in Process : ProcessFault(p) => UNCHANGED <<rows, minute, runVars, weightVars>>
  /\ \A p \in Process, d \in Delivery :
       Discard(p, d) => UNCHANGED <<recorder, rows, triggers, disturbed, minute, runVars, weightVars, faults>>
  /\ \A c \in Calibrator :
       ReadOutcomes(c) \/ Calibrating(c) \/ DryRun(c) \/ CalibrationFails(c) => UNCHANGED outcomeVars
  BY DEF Record, Recording, Count, CommitOutcome, Acknowledge, RecordFails, Discard,
     ProcessFault, SoftLimit, ChildKilled, WorkerKilled, ReadOutcomes, Calibrating, Search, StartUpdate, Deactivate, InsertWeights, CommitWeights,
     DryRun, CalibrationFails

\* What a commit adds is a new row of its delivery, with the next number.
LEMMA NewRow ==
  ASSUME RowsInv, NEW r \in Recorder, CommitOutcome(r), NEW d \in Delivery, d = about[r]
  PROVE  /\ IsFiniteSet(rows') /\ Cardinality(rows') = Cardinality(rows) + 1
         /\ Cardinality(rows) \in Nat
         /\ Cardinality(Copies(d)) \in Nat
         /\ Cardinality(Copies(d)') = Cardinality(Copies(d)) + 1
         /\ \A e \in Delivery : e # d => Copies(e)' = Copies(e)
         /\ rows' = rows \cup {<<d, Cardinality(Copies(d)) + 1>>}
         /\ Numbered'
  <1>. DEFINE n == Cardinality(Copies(d))
              new == <<d, n + 1>>
  <1>1. rows' = rows \cup {new}
    BY DEF CommitOutcome, Copies
  <1>2. IsFiniteSet(Copies(d)) /\ IsFiniteSet(rows)
    <2>1. Copies(d) \in SUBSET rows
      BY DEF Copies
    <2>. QED
      BY <2>1, FS_Subset DEF RowsInv
  <1>3. n \in Nat /\ Cardinality(rows) \in Nat
    BY <1>2, FS_CardinalityType
  <1>4. new \notin rows
    <2>. SUFFICES ASSUME new \in rows PROVE FALSE
      OBVIOUS
    <2>1. new[1] = d /\ new[2] = n + 1
      OBVIOUS
    <2>2. new[2] \in 1 .. Cardinality(Copies(new[1]))
      BY DEF RowsInv, Numbered
    <2>. QED
      BY <1>3, <2>1, <2>2
  <1>5. IsFiniteSet(rows') /\ Cardinality(rows') = Cardinality(rows) + 1
    BY <1>1, <1>2, <1>4, FS_AddElement
  <1>6. Copies(d)' = Copies(d) \cup {new}
    BY <1>1 DEF Copies
  <1>7. Cardinality(Copies(d)') = n + 1
    <2>1. new \notin Copies(d)
      BY <1>4 DEF Copies
    <2>. QED
      BY <1>2, <1>6, <2>1, FS_AddElement
  <1>8. \A e : e # d => Copies(e)' = Copies(e)
    BY <1>1 DEF Copies
  <1>9. Numbered'
    <2>. SUFFICES ASSUME NEW row \in rows' PROVE row[2] \in 1 .. Cardinality(Copies(row[1])')
      BY DEF Numbered
    <2>1. CASE row = new
      <3>1. row[1] = d /\ row[2] = n + 1
        BY <2>1
      <3>. QED
        BY <1>3, <1>7, <3>1
    <2>2. CASE row \in rows /\ row[1] = d
      <3>1. row[2] \in 1 .. n
        BY <2>2 DEF RowsInv, Numbered
      <3>. QED
        BY <1>3, <1>7, <2>2, <3>1
    <2>3. CASE row \in rows /\ row[1] # d
      BY <1>8, <2>3 DEF RowsInv, Numbered
    <2>. QED
      BY <1>1, <2>1, <2>2, <2>3
  <1>. QED
    BY <1>1, <1>3, <1>5, <1>7, <1>8, <1>9

\* The rows stay as they are, and so does what is said of them alone.
LEMMA SameRows ==
  ASSUME RowsInv, rows' = rows, TypeOK', HoldsAlone',
         faults' >= faults,
         \A d \in Delivery : message'[d] = "queued" => message[d] = "queued" \/ faults' > faults,
         \A r \in Recorder : recorder'[r] \in {"inserted", "counted"} =>
            \/ \E q \in Recorder : recorder[q] \in {"inserted", "counted"} /\ about'[r] = about[q]
            \/ message[about'[r]] = "queued"
  PROVE  RowsInv'
  <1>1. \A d : Copies(d)' = Copies(d)
    BY DEF Copies
  <1>2. \A d \in Delivery : Cardinality(Copies(d)) \in Nat
    <2>1. \A d \in Delivery : Copies(d) \in SUBSET rows
      BY DEF Copies
    <2>. QED
      BY <2>1, FS_Subset, FS_CardinalityType DEF RowsInv
  <1>3. Numbered'
    BY <1>1 DEF RowsInv, Numbered
  <1>4. faults \in Nat /\ faults' \in Nat
    BY FaultsAssumption DEF RowsInv, TypeOK
  <1>5. StoredOnceUnlessFaults'
    BY <1>1, <1>2, <1>4 DEF RowsInv, StoredOnceUnlessFaults
  <1>6. PaidByFaults'
    <2>. SUFFICES ASSUME NEW d \in Delivery
                  PROVE  /\ message'[d] = "queued" => Cardinality(Copies(d)) <= faults'
                         /\ \A r \in Recorder :
                              recorder'[r] \in {"inserted", "counted"} /\ about'[r] = d
                                => Cardinality(Copies(d)) <= faults'
      BY <1>1 DEF PaidByFaults
    <2>1. Cardinality(Copies(d)) \in Nat /\ Cardinality(Copies(d)) <= faults + 1
      BY <1>2 DEF RowsInv, StoredOnceUnlessFaults
    <2>2. message[d] = "queued" => Cardinality(Copies(d)) <= faults
      BY DEF RowsInv, PaidByFaults
    <2>3. message'[d] = "queued" => Cardinality(Copies(d)) <= faults'
      BY <1>4, <2>1, <2>2
    <2>4. ASSUME NEW r \in Recorder, recorder'[r] \in {"inserted", "counted"}, about'[r] = d
          PROVE  Cardinality(Copies(d)) <= faults'
      BY <1>4, <2>1, <2>2, <2>4 DEF RowsInv, PaidByFaults
    <2>. QED
      BY <2>3, <2>4
  <1>. QED
    BY <1>3, <1>5, <1>6 DEF RowsInv

\* A recorder that goes from one stage of its transaction to the next.
LEMMA StaysHeld ==
  ASSUME RowsInv, NEW r \in Recorder, recorder[r] # "idle",
         NEW stage \in {"counted", "committed"}, recorder' = [recorder EXCEPT ![r] = stage],
         UNCHANGED <<message, about>>
  PROVE  HoldsAlone'
  BY DEF RowsInv, HoldsAlone, TypeOK

\* Recorders that are done, with the message of one, which nobody else is about.
LEMMA FreeHolds ==
  ASSUME RowsInv, NEW r \in Recorder, recorder[r] # "idle", NEW S, r \in S, Free(S),
         \A d \in Delivery : d # about[r] => message'[d] = message[d]
  PROVE  HoldsAlone'
  <1>1. \A q \in Recorder :
          recorder'[q] # "idle" => q # r /\ recorder'[q] = recorder[q] /\ about'[q] = about[q]
    BY DEF Free
  <1>2. \A q \in Recorder : q # r /\ recorder[q] # "idle" => about[q] # about[r]
    BY DEF RowsInv, HoldsAlone
  <1>. QED
    BY <1>1, <1>2 DEF RowsInv, HoldsAlone

LEMMA RecordStep ==
  ASSUME RowsInv, NEW r \in Recorder, NEW d \in Delivery, Record(r, d)
  PROVE  RowsInv'
  <1>1. TypeOK'
    BY DEF RowsInv, TypeOK, Record, runVars, weightVars
  <1>2. /\ recorder'[r] = "inserted" /\ about'[r] = d /\ message'[d] = "held" /\ message[d] = "queued"
        /\ \A q \in Recorder : q # r => recorder'[q] = recorder[q] /\ about'[q] = about[q]
        /\ \A e \in Delivery : e # d => message'[e] = message[e]
        /\ rows' = rows /\ faults' = faults /\ faults \in Nat
    BY FaultsAssumption DEF Record, RowsInv, TypeOK
  <1>3. HoldsAlone'
    <2>1. \A q \in Recorder : recorder[q] # "idle" => about[q] # d
      BY <1>2 DEF RowsInv, HoldsAlone
    <2>. QED
      BY <1>2, <2>1 DEF RowsInv, HoldsAlone
  <1>. QED
    BY <1>1, <1>2, <1>3, SameRows

LEMMA CommitStep ==
  ASSUME RowsInv, NEW r \in Recorder, CommitOutcome(r)
  PROVE  RowsInv'
  <1>1. /\ recorder[r] \in {"inserted", "counted"} /\ recorder' = [recorder EXCEPT ![r] = "committed"]
        /\ UNCHANGED <<message, about, triggers, lost, disturbed, minute, runVars, weightVars, faults>>
    BY DEF CommitOutcome
  <1>2. PICK d \in Delivery : d = about[r]
    BY <1>1 DEF RowsInv, HoldsAlone
  <1>. DEFINE n == Cardinality(Copies(d))
  <1>3. /\ IsFiniteSet(rows') /\ n \in Nat /\ Numbered'
        /\ Cardinality(Copies(d)') = n + 1
        /\ \A e \in Delivery : e # d => Copies(e)' = Copies(e)
        /\ rows' = rows \cup {<<d, n + 1>>}
    BY <1>2, NewRow
  <1>4. n <= faults /\ faults \in Nat /\ faults <= MaxFaults
    BY <1>1, <1>2, FaultsAssumption DEF RowsInv, PaidByFaults, TypeOK
  <1>5. TypeOK'
    <2>1. rows' \subseteq Row
      BY <1>3, <1>4, FaultsAssumption DEF RowsInv, TypeOK, Row
    <2>. QED
      BY <1>1, <2>1 DEF RowsInv, TypeOK, runVars, weightVars
  <1>6. HoldsAlone'
    BY <1>1, StaysHeld
  <1>7. StoredOnceUnlessFaults'
    BY <1>1, <1>3, <1>4 DEF RowsInv, StoredOnceUnlessFaults
  <1>8. PaidByFaults'
    <2>. SUFFICES ASSUME NEW e \in Delivery
                  PROVE  /\ message'[e] = "queued" => Cardinality(Copies(e)') <= faults'
                         /\ \A q \in Recorder :
                              recorder'[q] \in {"inserted", "counted"} /\ about'[q] = e
                                => Cardinality(Copies(e)') <= faults'
      BY DEF PaidByFaults
    <2>1. CASE e = d
      <3>1. message'[e] # "queued"
        BY <1>1, <1>2, <2>1 DEF RowsInv, HoldsAlone
      <3>2. \A q \in Recorder : recorder'[q] \in {"inserted", "counted"} => about'[q] # e
        BY <1>1, <1>2, <2>1 DEF RowsInv, HoldsAlone, TypeOK
      <3>. QED
        BY <3>1, <3>2
    <2>2. CASE e # d
      <3>1. Copies(e)' = Copies(e) /\ message' = message /\ about' = about /\ faults' = faults
        BY <1>1, <1>3, <2>2
      <3>2. \A q \in Recorder : recorder'[q] \in {"inserted", "counted"} => recorder[q] = recorder'[q]
        BY <1>1 DEF RowsInv, TypeOK
      <3>. QED
        BY <3>1, <3>2 DEF RowsInv, PaidByFaults
    <2>. QED
      BY <2>1, <2>2
  <1>. QED
    BY <1>3, <1>5, <1>6, <1>7, <1>8 DEF RowsInv

\* The end of recordings adds no row; a message that comes back is paid by a fault.
LEMMA FreeStep ==
  ASSUME RowsInv, NEW r \in Recorder, recorder[r] # "idle", NEW S, r \in S, Free(S),
         NEW how \in {"queued", "held", "handled"}, message' = [message EXCEPT ![about[r]] = how],
         how = "queued" => message[about[r]] = "queued" \/ faults' = faults + 1,
         faults' \in {faults, faults + 1}, faults' <= MaxFaults,
         lost' \in {lost, lost \cup Uncommitted(r)}, disturbed' \in {disturbed, TRUE},
         UNCHANGED <<rows, triggers, minute, runVars, weightVars>>
  PROVE  RowsInv'
  <1>1. faults \in Nat /\ faults' \in Nat /\ faults' >= faults /\ about[r] \in Delivery
    BY FaultsAssumption DEF RowsInv, TypeOK, HoldsAlone
  <1>2. TypeOK'
    <2>1. faults' \in 0 .. MaxFaults /\ lost' \subseteq Delivery /\ disturbed' \in BOOLEAN
      <3>1. lost \subseteq Delivery /\ disturbed \in BOOLEAN
        BY DEF RowsInv, TypeOK
      <3>2. lost' \subseteq Delivery
        BY <1>1, <3>1 DEF Uncommitted
      <3>3. disturbed' \in BOOLEAN
        BY <3>1
      <3>. QED
        BY <1>1, <3>2, <3>3, FaultsAssumption
    <2>2. /\ recorder' \in [Recorder -> {"idle", "inserted", "counted", "committed"}]
          /\ about' \in [Recorder -> Delivery \cup {NoDelivery}]
          /\ message' \in [Delivery -> {"queued", "held", "handled"}]
      BY DEF Free, RowsInv, TypeOK
    <2>. QED
      BY <2>1, <2>2 DEF RowsInv, TypeOK, runVars, weightVars
  <1>3. \A d \in Delivery : d # about[r] => message'[d] = message[d]
    BY DEF RowsInv, TypeOK
  <1>4. HoldsAlone'
    BY <1>3, FreeHolds
  <1>5. \A d \in Delivery : message'[d] = "queued" => message[d] = "queued" \/ faults' > faults
    BY <1>1, <1>3 DEF RowsInv, TypeOK
  <1>6. \A q \in Recorder : recorder'[q] \in {"inserted", "counted"}
                             => recorder[q] \in {"inserted", "counted"} /\ about'[q] = about[q]
    BY DEF Free
  <1>. QED
    BY <1>1, <1>2, <1>4, <1>5, <1>6, SameRows

\* Counting, acknowledging and failing add no row.
LEMMA OtherRecorderStep ==
  ASSUME RowsInv, NEW r \in Recorder, Count(r) \/ Acknowledge(r) \/ RecordFails(r)
  PROVE  RowsInv'
  <1>0. faults \in Nat
    BY FaultsAssumption DEF RowsInv, TypeOK
  <1>1. CASE Count(r)
    <2>1. /\ recorder[r] = "inserted" /\ recorder' = [recorder EXCEPT ![r] = "counted"]
          /\ UNCHANGED <<message, about, rows, lost, disturbed, minute, runVars, weightVars, faults>>
          /\ triggers' \in {triggers, triggers + 1}
      BY <1>1 DEF Count
    <2>2. TypeOK'
      BY <2>1 DEF RowsInv, TypeOK, runVars, weightVars
    <2>3. HoldsAlone'
      BY <2>1, StaysHeld
    <2>4. \A q \in Recorder : recorder'[q] \in {"inserted", "counted"}
                               => recorder[q] \in {"inserted", "counted"}
      BY <2>1 DEF RowsInv, TypeOK
    <2>. QED
      BY <1>0, <2>1, <2>2, <2>3, <2>4, SameRows
  <1>2. CASE Acknowledge(r)
    <2>1. faults <= MaxFaults
      BY FaultsAssumption DEF RowsInv, TypeOK
    <2>. QED
      BY <1>0, <1>2, <2>1, FreeStep DEF Acknowledge
  <1>3. CASE RecordFails(r)
    <2>1. faults' = faults + 1 /\ faults' <= MaxFaults
      BY <1>0, <1>3, FaultsAssumption DEF RecordFails, Fault
    <2>. QED
      BY <1>3, <2>1, FreeStep DEF RecordFails, Fault
  <1>. QED
    BY <1>1, <1>2, <1>3

\* Nor does a message that is discarded, or what befalls a process.
LEMMA ProcessStep ==
  ASSUME RowsInv, NEW p \in Process, ProcessFault(p) \/ \E d \in Delivery : Discard(p, d)
  PROVE  RowsInv'
  <1>0. faults \in Nat /\ Own(p) \in Recorder /\ Stray(p) \in Recorder /\ Own(p) # Stray(p)
    BY FaultsAssumption DEF RowsInv, TypeOK, Own, Stray, Recorder, Worker
  <1>1. CASE \E d \in Delivery : Discard(p, d)
    <2>1. PICK d \in Delivery : Discard(p, d)
      BY <1>1
    <2>2. /\ message' = [message EXCEPT ![d] = "handled"] /\ lost' = lost \cup {d}
          /\ UNCHANGED <<recorder, about, rows, triggers, disturbed, minute, runVars, weightVars, faults>>
      BY <2>1 DEF Discard
    <2>3. TypeOK'
      BY <2>2 DEF RowsInv, TypeOK, runVars, weightVars
    <2>4. HoldsAlone' /\ \A e \in Delivery : message'[e] = "queued" => message[e] = "queued"
      BY <2>2 DEF RowsInv, TypeOK, HoldsAlone
    <2>. QED
      BY <1>0, <2>2, <2>3, <2>4, SameRows
  <1>2. CASE SoftLimit(p)
    <2>1. /\ faults' = faults + 1 /\ faults' \in 0 .. MaxFaults /\ disturbed' = TRUE
          /\ recorder[Own(p)] # "idle" /\ recorder[Stray(p)] = "idle"
          /\ recorder' = [recorder EXCEPT ![Own(p)] = "idle", ![Stray(p)] = recorder[Own(p)]]
          /\ about' = [about EXCEPT ![Own(p)] = NoDelivery, ![Stray(p)] = about[Own(p)]]
          /\ message' = [message EXCEPT ![about[Own(p)]] = "handled"]
          /\ lost' = lost \cup Uncommitted(Own(p))
          /\ UNCHANGED <<rows, triggers, minute, runVars, weightVars>>
      BY <1>0, <1>2, FaultsAssumption DEF SoftLimit, Fault
    <2>2. about[Own(p)] \in Delivery
      BY <1>0, <2>1 DEF RowsInv, HoldsAlone
    <2>3. /\ recorder'[Own(p)] = "idle"
          /\ recorder'[Stray(p)] = recorder[Own(p)] /\ about'[Stray(p)] = about[Own(p)]
          /\ \A q \in Recorder \ {Own(p), Stray(p)} : recorder'[q] = recorder[q] /\ about'[q] = about[q]
      BY <1>0, <2>1 DEF RowsInv, TypeOK
    <2>4. TypeOK'
      <3>1. /\ recorder' \in [Recorder -> {"idle", "inserted", "counted", "committed"}]
            /\ about' \in [Recorder -> Delivery \cup {NoDelivery}]
        BY <1>0, <2>1 DEF RowsInv, TypeOK
      <3>2. message' \in [Delivery -> {"queued", "held", "handled"}] /\ lost' \subseteq Delivery
        BY <2>1, <2>2 DEF RowsInv, TypeOK, Uncommitted
      <3>. QED
        BY <2>1, <3>1, <3>2 DEF RowsInv, TypeOK, runVars, weightVars
    <2>5. \A d \in Delivery : message'[d] = "queued" => message[d] = "queued" /\ d # about[Own(p)]
      BY <2>1, <2>2 DEF RowsInv, TypeOK
    <2>6. \A q \in Recorder : recorder'[q] # "idle" =>
            \E o \in Recorder : recorder[o] = recorder'[q] /\ about[o] = about'[q]
                               /\ (q = Stray(p) => o = Own(p)) /\ (q # Stray(p) => o = q /\ o # Own(p))
      BY <1>0, <2>3
    <2>7. HoldsAlone'
      BY <2>5, <2>6 DEF RowsInv, HoldsAlone
    <2>8. \A q \in Recorder : recorder'[q] \in {"inserted", "counted"} =>
            \E o \in Recorder : recorder[o] \in {"inserted", "counted"} /\ about'[q] = about[o]
      BY <2>6
    <2>9. rows' = rows /\ faults' >= faults
      BY <1>0, <2>1
    <2>10. \A d \in Delivery : message'[d] = "queued" => message[d] = "queued" \/ faults' > faults
      BY <2>5
    <2>11. \A q \in Recorder : recorder'[q] \in {"inserted", "counted"} =>
            \/ \E o \in Recorder : recorder[o] \in {"inserted", "counted"} /\ about'[q] = about[o]
            \/ message[about'[q]] = "queued"
      BY <2>8
    <2>. QED
      BY <2>4, <2>7, <2>9, <2>10, <2>11, SameRows
  <1>3. CASE ChildKilled(p)
    <2>1. faults' = faults + 1 /\ faults' <= MaxFaults
      BY <1>0, <1>3, FaultsAssumption DEF ChildKilled, Fault
    <2>. QED
      BY <1>0, <1>3, <2>1, FreeStep DEF ChildKilled, Fault
  <1>4. CASE WorkerKilled(p)
    <2>1. /\ faults' = faults + 1 /\ faults' <= MaxFaults /\ disturbed' = TRUE
          /\ recorder[Own(p)] # "idle" /\ Free({Own(p), Stray(p)})
          /\ UNCHANGED <<rows, triggers, lost, minute, runVars, weightVars>>
      BY <1>0, <1>4, FaultsAssumption DEF WorkerKilled, Fault
    <2>2. PICK how \in {"queued", "held", "handled"} : message' = [message EXCEPT ![about[Own(p)]] = how]
      BY <1>0, <1>4, <2>1 DEF WorkerKilled, RowsInv, TypeOK, HoldsAlone
    <2>. QED
      BY <1>0, <2>1, <2>2, FreeStep
  <1>. QED
    BY <1>1, <1>2, <1>3, <1>4 DEF ProcessFault

LEMMA CalibratorStep ==
  ASSUME RowsInv, NEW c \in Calibrator,
         ReadOutcomes(c) \/ Calibrating(c) \/ DryRun(c) \/ CalibrationFails(c)
  PROVE  RowsInv'
  <1>. USE FaultsAssumption, MinuteAssumption DEF RowsInv, TypeOK, outcomeVars, weightVars, Ends, Version,
       DefaultVersion, Writing
  <1>1. UNCHANGED outcomeVars /\ faults \in Nat
    BY Apart
  <1>2. TypeOK'
    <2>1. CASE ReadOutcomes(c)
      BY <1>1, <2>1 DEF ReadOutcomes
    <2>2. CASE Search(c)
      BY <1>1, <2>2 DEF Search
    <2>3. CASE StartUpdate(c)
      BY <1>1, <2>3 DEF StartUpdate
    <2>4. CASE Deactivate(c)
      BY <1>1, <2>4 DEF Deactivate
    <2>5. CASE InsertWeights(c)
      BY <1>1, <2>5 DEF InsertWeights
    <2>6. CASE CommitWeights(c)
      <3>1. version[c] \in Version
        OBVIOUS
      <3>2. active' \subseteq saved' /\ saved' \subseteq Version /\ newest' \in saved'
        BY <2>6, <3>1 DEF CommitWeights
      <3>3. /\ calibrator' \in [Calibrator -> {"idle", "read", "found", "done", "failed"} \cup Writing]
            /\ data' \in [Calibrator -> SUBSET Row]
            /\ seen' \in [Calibrator -> SUBSET Version]
            /\ version' \in [Calibrator -> Version]
        BY <2>6 DEF CommitWeights
      <3>. QED
        BY <1>1, <2>6, <3>2, <3>3 DEF CommitWeights
    <2>7. CASE DryRun(c)
      BY <1>1, <2>7 DEF DryRun
    <2>8. CASE CalibrationFails(c)
      BY <1>1, <2>8 DEF CalibrationFails
    <2>. HIDE DEF TypeOK
    <2>. QED
      BY <2>1, <2>2, <2>3, <2>4, <2>5, <2>6, <2>7, <2>8 DEF Calibrating
  <1>3. HoldsAlone'
    BY <1>1 DEF HoldsAlone
  <1>4. faults' >= faults
    BY <1>1 DEF ReadOutcomes, Calibrating, Search, StartUpdate, Deactivate, InsertWeights,
       CommitWeights, DryRun, CalibrationFails
  <1>. HIDE DEF RowsInv, TypeOK, Ends, Version, DefaultVersion, Writing
  <1>. QED
    BY <1>1, <1>2, <1>3, <1>4, SameRows

LEMMA RowsStep == RowsInv /\ [Next]_vars => RowsInv'
  <1>1. RowsInv /\ UNCHANGED vars => RowsInv'
    BY FaultsAssumption DEF vars, outcomeVars, runVars, weightVars, RowsInv, TypeOK, Numbered,
       Copies, HoldsAlone, StoredOnceUnlessFaults, PaidByFaults
  <1>. QED
    BY <1>1, RecordStep, CommitStep, OtherRecorderStep, ProcessStep, CalibratorStep DEF Next, Recording

LEMMA RowsInit == Init => RowsInv
  <1>. SUFFICES ASSUME Init PROVE RowsInv
    OBVIOUS
  <1>1. TypeOK
    <2>1. /\ message \in [Delivery -> {"queued", "held", "handled"}]
          /\ recorder \in [Recorder -> {"idle", "inserted", "counted", "committed"}]
          /\ about \in [Recorder -> Delivery \cup {NoDelivery}]
          /\ rows \subseteq Row /\ triggers \in Nat /\ lost \subseteq Delivery
      BY DEF Init
    <2>2. /\ calibrator \in [Calibrator -> {"idle", "read", "found", "done", "failed"} \cup Writing]
          /\ data \in [Calibrator -> SUBSET Row]
          /\ seen \in [Calibrator -> SUBSET Version]
          /\ version \in [Calibrator -> Version]
          /\ minute \in Version
          /\ active \subseteq saved /\ saved \subseteq Version /\ newest \in saved
      BY MinuteAssumption DEF Init, Version, DefaultVersion
    <2>3. disturbed \in BOOLEAN /\ overlapped \in BOOLEAN
      BY DEF Init
    <2>4. faults \in 0 .. MaxFaults
      BY FaultsAssumption DEF Init
    <2>. QED
      BY <2>1, <2>2, <2>3, <2>4 DEF TypeOK
  <1>2. IsFiniteSet(rows) /\ \A d : Cardinality(Copies(d)) = 0
    <2>1. rows = {} /\ \A d : Copies(d) = {}
      BY DEF Init, Copies
    <2>. QED
      BY <2>1, FS_EmptySet
  <1>. QED
    BY <1>1, <1>2 DEF Init, RowsInv, Numbered, HoldsAlone, StoredOnceUnlessFaults, PaidByFaults

LEMMA RowsInvariant == Spec => []RowsInv
  BY RowsInit, RowsStep, PTL DEF Spec

\* Every variable keeps its type: in particular the copies of a delivery, the
\* versions and the faults their bounds.
THEOREM TypeCorrect == Spec => []TypeOK
  <1>1. RowsInv => TypeOK
    BY DEF RowsInv
  <1>. QED
    BY <1>1, RowsInvariant, PTL

\* An outcome is stored once, and once more at most for each fault: only the death
\* of a whole worker repeats a recording, and what a stray coroutine still
\* commits is of a message that nobody else records.
THEOREM StoredOnce == Spec => []StoredOnceUnlessFaults
  <1>1. RowsInv => StoredOnceUnlessFaults
    BY DEF RowsInv
  <1>. QED
    BY <1>1, RowsInvariant, PTL

-----------------------------------------------------------------------------
(* The signals of process_outcome *)

\* A quotient and its remainder.
LEMMA Division ==
  ASSUME NEW n \in Nat, NEW t \in Nat \ {0}
  PROVE  /\ n \div t \in Nat /\ n % t \in 0 .. t - 1
         /\ n = t * (n \div t) + (n % t)
  <1>1. n \div t \in Int
    OBVIOUS
  <1>2. n % t \in 0 .. t - 1
    OBVIOUS
  <1>3. n = t * (n \div t) + (n % t)
    OBVIOUS
  <1>. QED
    BY <1>1, <1>2, <1>3

\* Counting one more passes a multiple of the threshold or does not.
LEMMA NextQuotient ==
  ASSUME NEW n \in Nat, NEW t \in Nat \ {0}
  PROVE  (n + 1) \div t = IF (n + 1) % t = 0 THEN n \div t + 1 ELSE n \div t
  <1>. DEFINE q == n \div t
              p == (n + 1) \div t
              m == n % t
              k == (n + 1) % t
  <1>1. /\ q \in Nat /\ p \in Nat /\ m \in 0 .. t - 1 /\ k \in 0 .. t - 1
        /\ n = t * q + m /\ n + 1 = t * p + k
    BY Division
  <1>. HIDE DEF q, p, m, k
  <1>2. t * (p - q) = m + 1 - k
    <2>1. t * p - t * q = t * (p - q)
      BY <1>1
    <2>. QED
      BY <1>1, <2>1
  <1>3. CASE p - q >= 2
    <2>1. t * (p - q) >= t * 2
      BY <1>1, <1>3
    <2>. QED
      BY <1>1, <1>2, <2>1
  <1>4. CASE p - q <= -1
    <2>1. t * (p - q) <= t * (-1)
      BY <1>1, <1>4
    <2>. QED
      BY <1>1, <1>2, <2>1
  <1>5. CASE p - q = 0
    BY <1>1, <1>2, <1>5
  <1>6. CASE p - q = 1
    BY <1>1, <1>2, <1>6
  <1>7. (p = q \/ p = q + 1) /\ (p = q + 1 <=> k = 0)
    BY <1>1, <1>3, <1>4, <1>5, <1>6
  <1>. QED
    BY <1>1, <1>7 DEF p, q, k

\* Undisturbed, one task at a time records.
Alone ==
  ~disturbed =>
    \A q, r \in Recorder :
      recorder[r] # "idle" => r \notin Handler /\ (recorder[q] # "idle" => q = r)

TriggersInv == RowsInv /\ Alone /\ TriggersExact

\* With one recorder at work there is one that has counted, or none.
LEMMA CountedCardinality ==
  ASSUME NEW stages, NEW r \in Recorder,
         \A q \in Recorder : q # r => stages[q] # "counted"
  PROVE  Cardinality({q \in Recorder : stages[q] = "counted"})
           = IF stages[r] = "counted" THEN 1 ELSE 0
  <1>1. CASE stages[r] = "counted"
    <2>1. {q \in Recorder : stages[q] = "counted"} = {r}
      BY <1>1
    <2>. QED
      BY <1>1, <2>1, FS_Singleton
  <1>2. CASE stages[r] # "counted"
    <2>1. {q \in Recorder : stages[q] = "counted"} = {}
      BY <1>2
    <2>. QED
      BY <1>2, <2>1, FS_EmptySet
  <1>. QED
    BY <1>1, <1>2

LEMMA TriggersStep == TriggersInv /\ RowsInv' /\ [Next]_vars => TriggersInv'
  <1>. SUFFICES ASSUME TriggersInv, RowsInv', [Next]_vars, ~disturbed'
                PROVE  Alone' /\ TriggersExact'
    BY DEF TriggersInv, Alone, TriggersExact
  <1>. DEFINE Counted == {q \in Recorder : recorder[q] = "counted"}
              n == Cardinality(rows)
              t == RECALIBRATION_THRESHOLD
  <1>0. /\ RowsInv /\ n \in Nat /\ t \in Nat \ {0} /\ ListLimit \in Nat
        /\ recorder \in [Recorder -> {"idle", "inserted", "counted", "committed"}]
        /\ triggers \in Nat
    BY FS_CardinalityType, ThresholdAssumption DEF TriggersInv, RowsInv, TypeOK
  <1>1. ASSUME NEW r \in Recorder, NEW d \in Delivery, Record(r, d)
        PROVE  Alone' /\ TriggersExact'
    <2>1. /\ r \notin Handler /\ \A q \in Recorder : recorder[q] = "idle"
          /\ recorder' = [recorder EXCEPT ![r] = "inserted"]
          /\ UNCHANGED <<rows, triggers>> /\ ~disturbed
      BY <1>1 DEF Record
    <2>2. recorder'[r] = "inserted" /\ \A q \in Recorder : q # r => recorder'[q] = "idle"
      BY <1>0, <2>1
    <2>3. Alone'
      BY <2>1, <2>2 DEF Alone
    <2>4. Cardinality(Counted) = 0 /\ Cardinality(Counted') = 0
      BY <2>1, <2>2, CountedCardinality
    <2>. QED
      BY <2>1, <2>3, <2>4 DEF TriggersInv, TriggersExact
  <1>2. ASSUME NEW r \in Recorder, Recording(r) PROVE Alone' /\ TriggersExact'
    <2>1. recorder[r] # "idle" /\ ~disturbed
      BY <1>2 DEF Recording, Count, CommitOutcome, Acknowledge
    <2>2. r \notin Handler /\ \A q \in Recorder : q # r => recorder[q] = "idle"
      BY <2>1 DEF TriggersInv, Alone
    <2>3. \A q \in Recorder : q # r => recorder'[q] = "idle"
      BY <1>0, <1>2, <2>2 DEF Recording, Count, CommitOutcome, Acknowledge, Free
    <2>4. Alone'
      BY <2>2, <2>3 DEF Alone
    <2>5. /\ Cardinality(Counted) = IF recorder[r] = "counted" THEN 1 ELSE 0
          /\ Cardinality(Counted') = IF recorder'[r] = "counted" THEN 1 ELSE 0
      <3>1. /\ \A q \in Recorder : q # r => recorder[q] # "counted"
            /\ \A q \in Recorder : q # r => recorder'[q] # "counted"
        BY <2>2, <2>3
      <3>. QED
        BY <3>1, CountedCardinality
    <2>6. CASE Count(r)
      <3>1. recorder[r] = "inserted" /\ recorder'[r] = "counted" /\ rows' = rows
        BY <1>0, <2>6 DEF Count
      <3>2. Cardinality(Counted) = 0 /\ Cardinality(Counted') = 1
        BY <2>5, <3>1
      <3>3. n <= ListLimit => triggers = n \div t
        BY <1>0, <2>1, <3>2 DEF TriggersInv, TriggersExact
      <3>4. n + 1 <= ListLimit => triggers' = (n + 1) \div t
        <4>. SUFFICES ASSUME n + 1 <= ListLimit PROVE triggers' = (n + 1) \div t
          OBVIOUS
        <4>1. Least(n + 1, ListLimit) = n + 1
          BY <1>0 DEF Least
        <4>2. triggers' = IF n + 1 > 0 /\ (n + 1) % t = 0 THEN triggers + 1 ELSE triggers
          BY <2>6, <4>1 DEF Count
        <4>3. triggers = n \div t /\ n + 1 > 0
          BY <1>0, <3>3
        <4>. QED
          BY <1>0, <4>2, <4>3, NextQuotient
      <3>. QED
        BY <2>4, <3>1, <3>2, <3>4 DEF TriggersExact
    <2>7. CASE CommitOutcome(r)
      <3>1. r \in Worker /\ recorder[r] = "counted" /\ recorder'[r] = "committed" /\ triggers' = triggers
        BY <1>0, <2>2, <2>7 DEF CommitOutcome, Recorder
      <3>2. PICK d \in Delivery : d = about[r]
        BY <1>0, <2>1 DEF RowsInv, HoldsAlone
      <3>3. Cardinality(rows') = n + 1
        BY <1>0, <2>7, <3>2, NewRow
      <3>4. Cardinality(Counted) = 1 /\ Cardinality(Counted') = 0
        BY <2>5, <3>1
      <3>5. n + 1 <= ListLimit => triggers = (n + 1) \div t
        BY <2>1, <3>4 DEF TriggersInv, TriggersExact
      <3>6. Cardinality(rows') + Cardinality(Counted') = n + 1
        BY <1>0, <3>3, <3>4
      <3>. QED
        BY <2>4, <3>1, <3>5, <3>6 DEF TriggersExact
    <2>8. CASE Acknowledge(r)
      <3>1. recorder[r] = "committed" /\ recorder'[r] = "idle" /\ UNCHANGED <<rows, triggers>>
        BY <1>0, <2>8 DEF Acknowledge, Free
      <3>2. Cardinality(Counted) = 0 /\ Cardinality(Counted') = 0
        BY <2>5, <3>1
      <3>. QED
        BY <2>1, <2>4, <3>1, <3>2 DEF TriggersInv, TriggersExact
    <2>. QED
      BY <1>2, <2>6, <2>7, <2>8 DEF Recording
  <1>3. /\ \A r \in Recorder : ~RecordFails(r)
        /\ \A p \in Process : ~ProcessFault(p)
    BY DEF RecordFails, ProcessFault, SoftLimit, ChildKilled, WorkerKilled, Fault
  <1>5. ASSUME NEW p \in Process, NEW d \in Delivery, Discard(p, d) PROVE Alone' /\ TriggersExact'
    BY <1>5, Apart DEF TriggersInv, Alone, TriggersExact
  <1>4. CASE UNCHANGED outcomeVars
    BY <1>4 DEF outcomeVars, TriggersInv, Alone, TriggersExact
  <1>. QED
    BY <1>1, <1>2, <1>3, <1>4, <1>5, Apart DEF Next, vars

\* While tasks alone record, in turn and without a fault, each further
\* threshold of outcomes is signalled exactly once: for any threshold, number of
\* deliveries and workers, up to the limit of the listing.
THEOREM SignalledExactly == Spec => []TriggersExact
  <1>1. Init => TriggersInv
    <2>. SUFFICES ASSUME Init PROVE TriggersInv
      OBVIOUS
    <2>1. RowsInv
      BY RowsInit
    <2>2. Alone
      BY DEF Init, Alone
    <2>3. rows = {} /\ {r \in Recorder : recorder[r] = "counted"} = {} /\ triggers = 0
      BY DEF Init
    <2>4. 0 \div RECALIBRATION_THRESHOLD = 0
      BY ThresholdAssumption
    <2>5. TriggersExact
      BY <2>3, <2>4, FS_EmptySet DEF TriggersExact
    <2>. QED
      BY <2>1, <2>2, <2>5 DEF TriggersInv
  <1>2. TriggersInv => TriggersExact
    BY DEF TriggersInv
  <1>. QED
    BY <1>1, <1>2, TriggersStep, RowsInvariant, PTL DEF Spec
=============================================================================
