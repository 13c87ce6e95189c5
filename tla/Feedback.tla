------------------------------ MODULE Feedback ------------------------------
(***************************************************************************)
(* The feedback loop: market outcomes are recorded by the webhook endpoint *)
(* or by the process_outcome task, and scripts/calibrate_weights.py reads  *)
(* them to write a new active row of scoring weights.  Every session is a  *)
(* PostgreSQL transaction at READ COMMITTED.                               *)
(***************************************************************************)
EXTENDS Calibration

CONSTANTS
  NoDelivery,
  Process,                  \* pool processes that take messages of the task's queue
  Importing,                \* those that know process_outcome; celery_app.py names it to none
  Handler,                  \* requests that receive_outcome serves
  Calibrator,               \* runs of calibrate_weights.py
  RECALIBRATION_THRESHOLD,
  ListLimit,                \* limit=1000 of the task's list_outcomes
  MaxMinute,                \* bound on the clock the version is named by
  MaxFaults                 \* bound on crashes, time limits and database errors

ASSUME ThresholdAssumption == RECALIBRATION_THRESHOLD \in Nat \ {0} /\ ListLimit \in Nat
ASSUME MinuteAssumption == MaxMinute \in Nat \ {0}
ASSUME FaultsAssumption == MaxFaults \in Nat
ASSUME ProcessAssumption == Importing \subseteq Process /\ Handler \cap (Process \X {"own", "stray"}) = {}

\* The coroutine of a process's task, and one that a soft time limit left
\* suspended in the same event loop.
Own(p) == <<p, "own">>
Stray(p) == <<p, "stray">>
Worker == Process \X {"own", "stray"}

Recorder == Worker \cup Handler

VARIABLES
  message,     \* each delivery: still "queued", "held" by a recorder, or "handled"
  recorder,    \* how far the transaction of each recorder is
  about,       \* the delivery it is about
  rows,        \* committed rows of market_outcomes: <<delivery, copy>>
  triggers,    \* how often the task signalled a recalibration
  lost,        \* deliveries discarded, or whose recording failed and is not repeated
  disturbed,   \* recordings overlapped, failed, or came in by the endpoint
  minute,      \* the clock when a version was last named, in minutes
  calibrator,  \* how far each run of the script is
  data,        \* the outcomes it read
  seen,        \* the active rows its UPDATE found, later those it deactivates
  version,     \* the version it inserts
  saved,       \* committed versions of scoring_weights
  active,      \* those with is_active
  newest,      \* the one committed last
  overlapped,  \* two calibrations wrote at the same time
  faults

outcomeVars == <<message, recorder, about, rows, triggers, lost, disturbed>>
runVars == <<calibrator, data, seen, version, overlapped>>
weightVars == <<saved, active, newest>>
vars == <<outcomeVars, minute, runVars, weightVars, faults>>

\* Migration 004 inserts v1.0, active; the script names a version by its minute.
DefaultVersion == 0
Version == 0 .. MaxMinute
Writing == {"updating", "deactivated", "inserted"}

\* A delivery is recorded again when a worker dies before acknowledging it.
Row == Delivery \X (1 .. MaxFaults + 1)

TypeOK ==
  /\ message \in [Delivery -> {"queued", "held", "handled"}]
  /\ recorder \in [Recorder -> {"idle", "inserted", "counted", "committed"}]
  /\ about \in [Recorder -> Delivery \cup {NoDelivery}]
  /\ rows \subseteq Row
  /\ triggers \in Nat
  /\ lost \subseteq Delivery
  /\ minute \in Version
  /\ calibrator \in [Calibrator -> {"idle", "read", "found", "done", "failed"} \cup Writing]
  /\ data \in [Calibrator -> SUBSET Row]
  /\ seen \in [Calibrator -> SUBSET Version]
  /\ version \in [Calibrator -> Version]
  /\ active \subseteq saved /\ saved \subseteq Version /\ newest \in saved
  /\ disturbed \in BOOLEAN /\ overlapped \in BOOLEAN
  /\ faults \in 0 .. MaxFaults

Init ==
  /\ message = [d \in Delivery |-> "queued"]
  /\ recorder = [r \in Recorder |-> "idle"]
  /\ about = [r \in Recorder |-> NoDelivery]
  /\ rows = {}
  /\ triggers = 0
  /\ lost = {}
  /\ disturbed = FALSE
  /\ minute = 1
  /\ calibrator = [c \in Calibrator |-> "idle"]
  /\ data = [c \in Calibrator |-> {}]
  /\ seen = [c \in Calibrator |-> {}]
  /\ version = [c \in Calibrator |-> DefaultVersion]
  /\ saved = {DefaultVersion}
  /\ active = {DefaultVersion}
  /\ newest = DefaultVersion
  /\ overlapped = FALSE
  /\ faults = 0

-----------------------------------------------------------------------------
(* Recording outcomes *)

\* A process takes a message for its own coroutine, if it knows the task.
Takes(r) == r \in Handler \/ \E p \in Importing : r = Own(p)

\* Mutant: the message is acknowledged when it is received.
RecordAcked(r, d) ==
  /\ Takes(r)
  /\ recorder[r] = "idle" /\ message[d] = "queued"
  /\ recorder' = [recorder EXCEPT ![r] = "inserted"]
  /\ about' = [about EXCEPT ![r] = d]
  /\ message' = [message EXCEPT ![d] = "handled"]
  /\ disturbed' = (disturbed \/ r \in Handler \/ \E q \in Recorder : recorder[q] # "idle")
  /\ UNCHANGED <<rows, triggers, lost, minute, runVars, weightVars, faults>>

\* The report is looked up by job_id and the outcome inserted with its score.
Record(r, d) ==
  /\ Takes(r)
  /\ recorder[r] = "idle"
  /\ message[d] = "queued"
  /\ recorder' = [recorder EXCEPT ![r] = "inserted"]
  /\ about' = [about EXCEPT ![r] = d]
  /\ message' = [message EXCEPT ![d] = "held"]
  /\ disturbed' = (disturbed \/ r \in Handler \/ \E q \in Recorder : recorder[q] # "idle")
  /\ UNCHANGED <<rows, triggers, lost, minute, runVars, weightVars, faults>>

\* Celery discards the message of a task that is not registered: every message
\* of process_outcome, in a worker that imports what celery_app.py includes.
Discard(p, d) ==
  /\ p \in Process \ Importing
  /\ message[d] = "queued"
  /\ message' = [message EXCEPT ![d] = "handled"]
  /\ lost' = lost \cup {d}
  /\ UNCHANGED <<recorder, about, rows, triggers, disturbed, minute, runVars, weightVars, faults>>

\* Mutant: the outcome just inserted is not in the list.
CountOthers(r) ==
  /\ r \in Worker
  /\ recorder[r] = "inserted"
  /\ recorder' = [recorder EXCEPT ![r] = "counted"]
  /\ LET listed == Least(Cardinality(rows), ListLimit)
     IN  triggers' = IF listed > 0 /\ listed % RECALIBRATION_THRESHOLD = 0 THEN triggers + 1 ELSE triggers
  /\ UNCHANGED <<message, about, rows, lost, disturbed, minute, runVars, weightVars, faults>>

\* list_outcomes sees the committed rows and the session's own; only the task
\* looks, and it signals before it commits.
Count(r) ==
  /\ r \in Worker
  /\ recorder[r] = "inserted"
  /\ recorder' = [recorder EXCEPT ![r] = "counted"]
  /\ LET listed == Least(Cardinality(rows) + 1, ListLimit)
     IN  triggers' = IF listed > 0 /\ listed % RECALIBRATION_THRESHOLD = 0
                       THEN triggers + 1 ELSE triggers
  /\ UNCHANGED <<message, about, rows, lost, disturbed, minute, runVars, weightVars, faults>>

CommitOutcome(r) ==
  /\ recorder[r] = IF r \in Worker THEN "counted" ELSE "inserted"
  /\ recorder' = [recorder EXCEPT ![r] = "committed"]
  /\ rows' = rows \cup {<<about[r], Cardinality({row \in rows : row[1] = about[r]}) + 1>>}
  /\ UNCHANGED <<message, about, triggers, lost, disturbed, minute, runVars, weightVars, faults>>

Free(S) ==
  /\ recorder' = [r \in Recorder |-> IF r \in S THEN "idle" ELSE recorder[r]]
  /\ about' = [r \in Recorder |-> IF r \in S THEN NoDelivery ELSE about[r]]

\* The response of the endpoint, or Celery's late acknowledgement; nobody
\* acknowledges for a stray coroutine, whose message is handled already.
Acknowledge(r) ==
  /\ recorder[r] = "committed"
  /\ Free({r})
  /\ message' = [message EXCEPT ![about[r]] = "handled"]
  /\ UNCHANGED <<rows, triggers, lost, disturbed, minute, runVars, weightVars, faults>>

Fault ==
  /\ faults < MaxFaults
  /\ faults' = faults + 1
  /\ disturbed' = TRUE

\* What the end of a recording loses.
Uncommitted(r) == IF recorder[r] \in {"inserted", "counted"} THEN {about[r]} ELSE {}

\* A database error, or a time limit that is raised in the coroutine, rolls back
\* and raises; so does the end of a request.  The task is not told to retry, so
\* Celery acknowledges the message of the failed task.
RecordFails(r) ==
  /\ recorder[r] \in {"inserted", "counted"}
  /\ Fault
  /\ Free({r})
  /\ message' = [message EXCEPT ![about[r]] = "handled"]
  /\ lost' = lost \cup Uncommitted(r)
  /\ UNCHANGED <<rows, triggers, minute, runVars, weightVars>>

\* A soft limit that interrupts the event loop: the task fails and is
\* acknowledged, its coroutine stays suspended with its transaction open, and
\* goes on when a later task runs the loop.  Bound: one of them per process.
SoftLimit(p) ==
  /\ recorder[Own(p)] # "idle" /\ recorder[Stray(p)] = "idle"
  /\ Fault
  /\ recorder' = [recorder EXCEPT ![Own(p)] = "idle", ![Stray(p)] = recorder[Own(p)]]
  /\ about' = [about EXCEPT ![Own(p)] = NoDelivery, ![Stray(p)] = about[Own(p)]]
  /\ message' = [message EXCEPT ![about[Own(p)]] = "handled"]
  /\ lost' = lost \cup Uncommitted(Own(p))
  /\ UNCHANGED <<rows, triggers, minute, runVars, weightVars>>

\* The process dies or meets the hard limit: the parent acknowledges, as there is
\* no task_reject_on_worker_lost.
ChildKilled(p) ==
  /\ recorder[Own(p)] # "idle"
  /\ Fault
  /\ Free({Own(p), Stray(p)})
  /\ message' = [message EXCEPT ![about[Own(p)]] = "handled"]
  /\ lost' = lost \cup Uncommitted(Own(p))
  /\ UNCHANGED <<rows, triggers, minute, runVars, weightVars>>

\* The whole worker dies: what was not acknowledged is delivered again.
WorkerKilled(p) ==
  /\ recorder[Own(p)] # "idle"
  /\ Fault
  /\ Free({Own(p), Stray(p)})
  /\ message' = [message EXCEPT ![about[Own(p)]] = IF @ = "held" THEN "queued" ELSE @]
  /\ UNCHANGED <<rows, triggers, lost, minute, runVars, weightVars>>

-----------------------------------------------------------------------------
(* Calibrating the weights *)

\* The run is over, and what it had read goes with its process.
Ends(c, how) ==
  /\ calibrator' = [calibrator EXCEPT ![c] = how]
  /\ data' = [data EXCEPT ![c] = {}]
  /\ seen' = [seen EXCEPT ![c] = {}]
  /\ version' = [version EXCEPT ![c] = DefaultVersion]

\* Rows that join a report and say clean, unclean or disputed.
Labelled(row) ==
  LET said == Payload[row[1]] IN said.audited /\ (said.clean # "unknown" \/ said.disputed)

\* The first session reads the labelled outcomes; without any, main returns.
ReadOutcomes(c) ==
  /\ calibrator[c] = "idle"
  /\ LET labelled == {row \in rows : Labelled(row)}
     IN  IF labelled = {}
           THEN Ends(c, "done")
           ELSE /\ data' = [data EXCEPT ![c] = labelled]
                /\ calibrator' = [calibrator EXCEPT ![c] = "read"]
                /\ UNCHANGED <<seen, version>>
  /\ UNCHANGED <<outcomeVars, minute, overlapped, weightVars, faults>>

\* Unpacking best_params raises TypeError when no combination was ever right.
Search(c) ==
  /\ calibrator[c] = "read"
  /\ IF Classifiable(data[c])
       THEN /\ calibrator' = [calibrator EXCEPT ![c] = "found"]
            /\ UNCHANGED <<data, seen, version>>
       ELSE Ends(c, "failed")
  /\ UNCHANGED <<outcomeVars, minute, overlapped, weightVars, faults>>

DryRun(c) ==
  /\ calibrator[c] = "found"
  /\ Ends(c, "done")
  /\ UNCHANGED <<outcomeVars, minute, overlapped, weightVars, faults>>

\* UPDATE ... WHERE is_active = true starts: it will touch no row but those
\* committed as active by now.
StartUpdate(c) ==
  /\ calibrator[c] = "found"
  /\ calibrator' = [calibrator EXCEPT ![c] = "updating"]
  /\ seen' = [seen EXCEPT ![c] = active]
  /\ overlapped' = (overlapped \/ \E o \in Calibrator : calibrator[o] \in Writing)
  /\ UNCHANGED <<outcomeVars, minute, data, version, weightVars, faults>>

Locked(c) == UNION {seen[o] : o \in {x \in Calibrator \ {c} : calibrator[x] \in {"deactivated", "inserted"}}}

\* Mutant: two transactions that share a table lock wait for each other's.
DeactivateAlone(c) ==
  /\ calibrator[c] = "updating"
  /\ \A o \in Calibrator \ {c} : calibrator[o] \notin Writing
  /\ seen' = [seen EXCEPT ![c] = @ \cap active]
  /\ minute' \in minute .. MaxMinute
  /\ version' = [version EXCEPT ![c] = minute']
  /\ calibrator' = [calibrator EXCEPT ![c] = "deactivated"]
  /\ UNCHANGED <<outcomeVars, data, overlapped, weightVars, faults>>

\* It waits for the rows another transaction has written, and then skips those
\* that are no longer active.  When it returns, the clock names the version.
Deactivate(c) ==
  /\ calibrator[c] = "updating"
  /\ seen[c] \cap Locked(c) = {}
  /\ seen' = [seen EXCEPT ![c] = @ \cap active]
  /\ minute' \in minute .. MaxMinute
  /\ version' = [version EXCEPT ![c] = minute']
  /\ calibrator' = [calibrator EXCEPT ![c] = "deactivated"]
  /\ UNCHANGED <<outcomeVars, data, overlapped, weightVars, faults>>

\* The flush of the commit inserts the row.  It waits for an uncommitted row
\* of that version; a committed one is an IntegrityError and rolls back.
InsertWeights(c) ==
  /\ calibrator[c] = "deactivated"
  /\ \A o \in Calibrator : calibrator[o] = "inserted" => version[o] # version[c]
  /\ IF version[c] \in saved
       THEN Ends(c, "failed")
       ELSE /\ calibrator' = [calibrator EXCEPT ![c] = "inserted"]
            /\ UNCHANGED <<data, seen, version>>
  /\ UNCHANGED <<outcomeVars, minute, overlapped, weightVars, faults>>

\* Mutants: the new row is added before the UPDATE, which then deactivates it;
\* the UPDATE is forgotten.
CommitDeactivated(c) ==
  /\ calibrator[c] = "inserted"
  /\ Ends(c, "done")
  /\ saved' = saved \cup {version[c]}
  /\ active' = active \ seen[c]
  /\ newest' = version[c]
  /\ UNCHANGED <<outcomeVars, minute, overlapped, faults>>
CommitBeside(c) ==
  /\ calibrator[c] = "inserted"
  /\ Ends(c, "done")
  /\ saved' = saved \cup {version[c]}
  /\ active' = active \cup {version[c]}
  /\ newest' = version[c]
  /\ UNCHANGED <<outcomeVars, minute, overlapped, faults>>

CommitWeights(c) ==
  /\ calibrator[c] = "inserted"
  /\ Ends(c, "done")
  /\ saved' = saved \cup {version[c]}
  /\ active' = (active \ seen[c]) \cup {version[c]}
  /\ newest' = version[c]
  /\ UNCHANGED <<outcomeVars, minute, overlapped, faults>>

\* A crash or a database error: what was written is rolled back.
CalibrationFails(c) ==
  /\ calibrator[c] \in Writing
  /\ faults < MaxFaults
  /\ faults' = faults + 1
  /\ Ends(c, "failed")
  /\ UNCHANGED <<outcomeVars, minute, overlapped, weightVars>>

-----------------------------------------------------------------------------
Recording(r) == Count(r) \/ CommitOutcome(r) \/ Acknowledge(r)

ProcessFault(p) == SoftLimit(p) \/ ChildKilled(p) \/ WorkerKilled(p)

Calibrating(c) ==
  \/ Search(c) \/ StartUpdate(c) \/ Deactivate(c) \/ InsertWeights(c) \/ CommitWeights(c)

Next ==
  \/ \E r \in Recorder :
       \/ \E d \in Delivery : Record(r, d)
       \/ Recording(r) \/ RecordFails(r)
  \/ \E p \in Process :
       \/ \E d \in Delivery : Discard(p, d)
       \/ ProcessFault(p)
  \/ \E c \in Calibrator :
       ReadOutcomes(c) \/ Calibrating(c) \/ DryRun(c) \/ CalibrationFails(c)

Spec == Init /\ [][Next]_vars

\* A process takes messages as long as there are any; a session that was opened
\* goes on to its end, but for a stray one; nobody has to run the script.
FairSpec ==
  /\ Spec
  /\ \A p \in Process : WF_vars(\E d \in Delivery : Record(Own(p), d) \/ Discard(p, d))
  /\ \A p \in Process : WF_vars(Recording(Own(p)))
  /\ \A r \in Handler : WF_vars(Recording(r))
  /\ \A c \in Calibrator : WF_vars(Calibrating(c))

-----------------------------------------------------------------------------
(* Properties *)

\* The weights written last are active, whatever overlapped, failed or met an
\* existing version; so there is always an active row to load.
NewestIsActive == newest \in active

\* As long as no two calibrations write at the same time, exactly one row is
\* active.
OneActiveUnlessOverlapping == ~overlapped => active = {newest}

\* While tasks alone record, one after the other and without a fault, each
\* further threshold of outcomes is signalled once, up to the listing's limit.
TriggersExact ==
  LET counted == Cardinality(rows) + Cardinality({r \in Recorder : recorder[r] = "counted"})
  IN  ~disturbed /\ counted <= ListLimit => triggers = counted \div RECALIBRATION_THRESHOLD

\* An outcome reaches the database unless its message is discarded, or its
\* recording is cut by an error, a time limit or the death of the process that
\* records it, each of which acknowledges it.  The death of a whole worker, before
\* or after the commit, loses none: the message comes back.
OutcomeStored == \A d \in Delivery : <>(d \in lost \/ \E row \in rows : row[1] = d)

\* Runs that write at the same time do not wait for each other forever.
CalibrationEnds ==
  \A c \in Calibrator : (calibrator[c] # "idle") ~> (calibrator[c] \in {"done", "failed"})
=============================================================================
