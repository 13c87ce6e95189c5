------------------------------ MODULE AuditJob ------------------------------
(***************************************************************************)
(* The life of one audit job: POST /v1/audit stores a status in Redis and  *)
(* publishes a Celery message; a worker process runs _run_audit_async,     *)
(* which writes statuses, runs the pipeline, stores contract and report in *)
(* one transaction and is retried on failure; the dashboard polls.         *)
(*                                                                         *)
(* An action is the code between two awaits that other processes can       *)
(* observe.  Every process may stop between two of them.                   *)
(***************************************************************************)
EXTENDS Integers, FiniteSets

CONSTANTS
  Job,           \* the job ids handed out by submit_audit
  NoJob,         \* no job at all
  Worker,        \* the worker processes (Celery pool children)
  MaxRetries,    \* run_audit's max_retries
  RedisClients,  \* the kinds of process that call init_redis
  MaxFaults      \* bound on lost writes, expiries, unknown commits, limits, crashes

ASSUME NoJobAssumption == NoJob \notin Job
ASSUME MaxRetriesAssumption == MaxRetries \in Nat
ASSUME MaxFaultsAssumption == MaxFaults \in Nat
ASSUME RedisAssumption == RedisClients \subseteq {"api", "worker"}

VARIABLES
  caller,     \* what the client of each job has done or been told
  status,     \* Redis: the "status" field of job:<id>:status, or "absent"
  queue,      \* broker: undelivered messages, a bag over job and attempt
  task,       \* the message each worker process holds, unacknowledged
  coro,       \* the coroutines alive in each worker process's event loop
  contracts,  \* database: committed contract rows, by the job that made them
  reports,    \* database: committed report rows of each job
  faults      \* faults so far, bounded by MaxFaults

vars == <<caller, status, queue, task, coro, contracts, reports, faults>>
database == <<contracts, reports>>

Attempt == 0 .. MaxRetries

\* "own" is the coroutine run_until_complete drives for the current message;
\* "stray" is one that a soft time limit left suspended in the same loop.
Slot == {"own", "stray"}

PC == {"none", "enter", "audit", "insert", "report", "commit", "announce",
       "reject", "fail", "retry", "end"}

CallerState == {"idle", "stored", "refused", "inline", "polling", "fetching",
                "gotReport", "gotNothing", "gotFailed"}

Status == {"absent", "pending", "running", "complete", "failed"}

NoTask == [job |-> NoJob, attempt |-> 0]
NoCoro == [job |-> NoJob, pc |-> "none"]
Task == [job : Job, attempt : Attempt]
Coroutine == [job : Job, pc : PC \ {"none"}]

TypeOK ==
  /\ caller \in [Job -> CallerState]
  /\ status \in [Job -> Status]
  /\ queue \in [Job \X Attempt -> Nat]
  /\ task \in [Worker -> Task \cup {NoTask}]
  /\ coro \in [Worker -> [Slot -> Coroutine \cup {NoCoro}]]
  /\ contracts \in [Job -> Nat]
  /\ reports \in [Job -> Nat]
  /\ faults \in 0 .. MaxFaults

Init ==
  /\ caller = [j \in Job |-> "idle"]
  /\ status = [j \in Job |-> "absent"]
  /\ queue = [m \in Job \X Attempt |-> 0]
  /\ task = [w \in Worker |-> NoTask]
  /\ coro = [w \in Worker |-> [s \in Slot |-> NoCoro]]
  /\ contracts = [j \in Job |-> 0]
  /\ reports = [j \in Job |-> 0]
  /\ faults = 0

-----------------------------------------------------------------------------
(* Shared services *)

Fault == faults < MaxFaults /\ faults' = faults + 1

\* job_set_status: a SET with a TTL.  Without init_redis, and on any Redis
\* error (a fault), cache_set logs a warning and returns as if it had written.
WriteStatus(process, j, value) ==
  \/ process \in RedisClients /\ status' = [status EXCEPT ![j] = value] /\ UNCHANGED faults
  \/ process \in RedisClients /\ UNCHANGED status /\ Fault
  \/ process \notin RedisClients /\ UNCHANGED <<status, faults>>

Publish(j, n) == queue' = [queue EXCEPT ![<<j, n>>] = @ + 1]

\* The 24 hour TTL runs out.
Expire(j) ==
  /\ status[j] # "absent"
  /\ Fault
  /\ status' = [status EXCEPT ![j] = "absent"]
  /\ UNCHANGED <<caller, queue, task, coro, database>>

-----------------------------------------------------------------------------
(* The API process and its clients *)

Tell(j, from, to) == caller[j] = from /\ caller' = [caller EXCEPT ![j] = to]

\* submit_audit, sync path: the report travels in the response, nothing is kept.
SubmitSync(j) ==
  /\ \E answer \in {"inline", "refused"} : Tell(j, "idle", answer)
  /\ UNCHANGED <<status, queue, task, coro, database, faults>>

\* Mutant: the status is written once more after the message.
StorePendingAgain(j) ==
  /\ Tell(j, "idle", "stored") \/ Tell(j, "polling", "polling")
  /\ WriteStatus("api", j, "pending")
  /\ UNCHANGED <<queue, task, coro, database>>

\* submit_audit, async path: the status first, so that a poll finds something.
StorePending(j) ==
  /\ Tell(j, "idle", "stored")
  /\ WriteStatus("api", j, "pending")
  /\ UNCHANGED <<queue, task, coro, database>>

\* Mutant: the message twice, as a retried publish may send it.
EnqueueTwice(j) ==
  /\ Tell(j, "stored", "polling")
  /\ queue' = [queue EXCEPT ![<<j, 0>>] = @ + 2]
  /\ UNCHANGED <<status, task, coro, database, faults>>

\* ... then the message, with the job id as the task id ...
Enqueue(j) ==
  /\ Tell(j, "stored", "polling")
  /\ Publish(j, 0)
  /\ UNCHANGED <<status, task, coro, database, faults>>

\* ... unless the broker or the API process is down: the status stays behind.
EnqueueFails(j) ==
  /\ Tell(j, "stored", "refused")
  /\ UNCHANGED <<status, queue, task, coro, database, faults>>

\* get_audit_status reads Redis; a client goes on polling on 404, pending and
\* running, and on a failed read (those polls change nothing).
Poll(j) ==
  /\ \/ status[j] = "complete" /\ Tell(j, "polling", "fetching")
     \/ status[j] = "failed" /\ Tell(j, "polling", "gotFailed")
  /\ UNCHANGED <<status, queue, task, coro, database, faults>>

\* ... and, on "complete", reads the report from the database.
FetchReport(j) ==
  /\ Tell(j, "fetching", IF reports[j] > 0 THEN "gotReport" ELSE "gotNothing")
  /\ UNCHANGED <<status, queue, task, coro, database, faults>>

-----------------------------------------------------------------------------
(* A worker process *)

\* The loop runs only inside run_until_complete, for the current message; then
\* every coroutine in it advances, a stray one included.
At(w, s, pc) ==
  /\ task[w] # NoTask
  /\ coro[w]["own"].pc # "end"
  /\ coro[w][s].pc = pc

Goto(w, s, pc) == coro' = [coro EXCEPT ![w][s].pc = pc]

Receive(w) ==
  \E m \in Job \X Attempt :
    /\ task[w] = NoTask
    /\ queue[m] > 0
    /\ queue' = [queue EXCEPT ![m] = @ - 1]
    /\ task' = [task EXCEPT ![w] = [job |-> m[1], attempt |-> m[2]]]
    /\ coro' = [coro EXCEPT ![w]["own"] = [job |-> m[1], pc |-> "enter"]]
    /\ UNCHANGED <<caller, status, database, faults>>

MarkRunning(w, s) ==
  /\ At(w, s, "enter")
  /\ WriteStatus("worker", coro[w][s].job, "running")
  /\ Goto(w, s, "audit")
  /\ UNCHANGED <<caller, queue, task, database>>

\* job_update_progress: whatever the entry was, it says "running" afterwards.
Progress(w, s) ==
  /\ At(w, s, "audit")
  /\ WriteStatus("worker", coro[w][s].job, "running")
  /\ UNCHANGED <<caller, queue, task, coro, database>>

\* ContractInput(...) and pipeline.run: a report, a ValueError or TypeError
\* (a close date that passed while the job was queued, say), or another error.
Audit(w, s) ==
  /\ At(w, s, "audit")
  /\ \E next \in {"insert", "reject", "fail"} : Goto(w, s, next)
  /\ UNCHANGED <<caller, status, queue, task, database, faults>>

\* create_contract flushes a row that only this transaction sees.
InsertContract(w, s) ==
  /\ At(w, s, "insert")
  /\ Goto(w, s, "report")
  /\ UNCHANGED <<caller, status, queue, task, database, faults>>

\* create_report flushes under UNIQUE (job_id): it waits for an uncommitted row
\* of the same job, and a committed one is an IntegrityError, which rolls back.
UncommittedReport(j) ==
  \E w \in Worker, s \in Slot : coro[w][s] = [job |-> j, pc |-> "commit"]

\* Mutant: no unique job_id.
InsertAnyReport(w, s) ==
  /\ At(w, s, "report")
  /\ Goto(w, s, "commit")
  /\ UNCHANGED <<caller, status, queue, task, database, faults>>

InsertReport(w, s) ==
  LET j == coro[w][s].job IN
  /\ At(w, s, "report")
  /\ ~UncommittedReport(j)
  /\ Goto(w, s, IF reports[j] = 0 THEN "commit" ELSE "fail")
  /\ UNCHANGED <<caller, status, queue, task, database, faults>>

\* Mutant: the status is written inside the transaction.
CommitLate(w, s) ==
  /\ At(w, s, "commit")
  /\ Goto(w, s, "announce")
  /\ UNCHANGED <<caller, status, queue, task, database, faults>>

\* get_session commits on leaving the block: both rows or neither.
Commit(w, s) ==
  LET j == coro[w][s].job IN
  /\ At(w, s, "commit")
  /\ contracts' = [contracts EXCEPT ![j] = @ + 1]
  /\ reports' = [reports EXCEPT ![j] = @ + 1]
  /\ \/ Goto(w, s, "announce") /\ UNCHANGED faults
     \/ Goto(w, s, "fail") /\ Fault   \* committed, but the answer was lost
  /\ UNCHANGED <<caller, status, queue, task>>

\* A flush or the commit fails: rollback, and the exception goes on.
DatabaseError(w, s) ==
  /\ \E pc \in {"insert", "report", "commit"} : At(w, s, pc)
  /\ Goto(w, s, "fail")
  /\ UNCHANGED <<caller, status, queue, task, database, faults>>

\* Mutant: the error of a Redis client that was never initialised gets out of the
\* helper that writes the status.
AnnounceRaises(w, s) ==
  /\ At(w, s, "announce")
  /\ Goto(w, s, "fail")
  /\ UNCHANGED <<caller, status, queue, task, database, faults>>

Announce(w, s) ==
  /\ At(w, s, "announce")
  /\ WriteStatus("worker", coro[w][s].job, "complete")
  /\ Goto(w, s, "end")
  /\ UNCHANGED <<caller, queue, task, database>>

\* The except block: "failed" is written before the retry is decided.
MarkFailed(w, s) ==
  /\ \/ At(w, s, "fail") /\ Goto(w, s, "retry")
     \/ At(w, s, "reject") /\ Goto(w, s, "end")
  /\ WriteStatus("worker", coro[w][s].job, "failed")
  /\ UNCHANGED <<caller, queue, task, database>>

\* Mutant: the retry does not count.
RetryForever(w, s) ==
  /\ At(w, s, "retry")
  /\ Publish(task[w].job, task[w].attempt)
  /\ Goto(w, s, "end")
  /\ UNCHANGED <<caller, status, task, database, faults>>

\* task.retry publishes the message of task.request, which is the one the
\* process is executing now: a stray coroutine retries somebody else's job.
Retry(w, s) ==
  /\ At(w, s, "retry")
  /\ IF task[w].attempt < MaxRetries
       THEN Publish(task[w].job, task[w].attempt + 1)
       ELSE UNCHANGED queue
  /\ Goto(w, s, "end")
  /\ UNCHANGED <<caller, status, task, database, faults>>

\* acks_late: the message is acknowledged when the task has returned or raised.
Ack(w) ==
  /\ task[w] # NoTask
  /\ coro[w]["own"].pc = "end"
  /\ task' = [task EXCEPT ![w] = NoTask]
  /\ coro' = [coro EXCEPT ![w]["own"] = NoCoro]
  /\ UNCHANGED <<caller, status, queue, database, faults>>

\* A stray coroutine that returned leaves the loop; nobody acknowledges for it.
Reap(w) ==
  /\ coro[w]["stray"].pc = "end"
  /\ coro' = [coro EXCEPT ![w]["stray"] = NoCoro]
  /\ UNCHANGED <<caller, status, queue, task, database, faults>>

-----------------------------------------------------------------------------
(* What may go wrong outside the code *)

\* SoftTimeLimitExceeded interrupts the selector, not the coroutine: it leaves
\* run_until_complete, the task fails and is acknowledged, and the coroutine
\* stays suspended in the loop.  Bound: one stray coroutine per process.
SoftLimit(w) ==
  /\ task[w] # NoTask
  /\ coro[w]["own"].pc # "end"
  /\ coro[w]["stray"] = NoCoro
  /\ Fault
  /\ task' = [task EXCEPT ![w] = NoTask]
  /\ coro' = [coro EXCEPT ![w] = [own |-> NoCoro, stray |-> @["own"]]]
  /\ UNCHANGED <<caller, status, queue, database>>

\* The child is killed (hard time limit, out of memory): its transactions roll
\* back and the parent acknowledges (no task_reject_on_worker_lost).
ChildKilled(w) ==
  /\ task[w] # NoTask
  /\ Fault
  /\ task' = [task EXCEPT ![w] = NoTask]
  /\ coro' = [coro EXCEPT ![w] = [s \in Slot |-> NoCoro]]
  /\ UNCHANGED <<caller, status, queue, database>>

\* The whole worker dies: nobody acknowledges, the broker delivers again.
WorkerKilled(w) ==
  /\ task[w] # NoTask
  /\ Fault
  /\ Publish(task[w].job, task[w].attempt)
  /\ task' = [task EXCEPT ![w] = NoTask]
  /\ coro' = [coro EXCEPT ![w] = [s \in Slot |-> NoCoro]]
  /\ UNCHANGED <<caller, status, database>>

-----------------------------------------------------------------------------
ApiStep(j) ==
  \/ SubmitSync(j) \/ StorePending(j) \/ Enqueue(j) \/ EnqueueFails(j)
  \/ Poll(j) \/ FetchReport(j) \/ Expire(j)

Advance(w, s) ==
  \/ MarkRunning(w, s) \/ Audit(w, s) \/ InsertContract(w, s)
  \/ InsertReport(w, s) \/ Commit(w, s) \/ Announce(w, s)
  \/ MarkFailed(w, s) \/ Retry(w, s)

WorkerFault(w) == SoftLimit(w) \/ ChildKilled(w) \/ WorkerKilled(w)

Next ==
  \/ \E j \in Job : ApiStep(j)
  \/ \E w \in Worker, s \in Slot : Advance(w, s) \/ Progress(w, s) \/ DatabaseError(w, s)
  \/ \E w \in Worker : Receive(w) \/ Ack(w) \/ Reap(w) \/ WorkerFault(w)

Spec == Init /\ [][Next]_vars

\* A live worker process keeps taking messages and running its current task (the
\* pipeline's calls all have timeouts).  Nothing is assumed of submissions, of
\* polls, of a stray coroutine, or of faults.
Fairness ==
  /\ \A w \in Worker : WF_vars(Receive(w)) /\ WF_vars(Ack(w))
  /\ \A w \in Worker : WF_vars(Advance(w, "own"))

FairSpec == Spec /\ Fairness

-----------------------------------------------------------------------------
(* Properties *)

\* Somebody still owes the job an execution: a message waits or is held.
Outstanding(j) ==
  \/ \E n \in Attempt : queue[<<j, n>>] > 0
  \/ \E w \in Worker : task[w].job = j

Active(w, s) == coro[w][s].pc \notin {"none", "end"}

\* Whatever is lost, delayed or run twice: a job whose status says "complete"
\* has its report in the database, and the status endpoint never answers
\* "complete" without one (audit_task.py commits before it writes the status).
CompletionIsReal ==
  \A j \in Job :
    /\ status[j] = "complete" \/ caller[j] \in {"fetching", "gotReport"} => reports[j] > 0
    /\ caller[j] # "gotNothing"

\* However often a job's message is delivered, and wherever its executions are
\* cut, the database holds at most one report of it, and exactly as many
\* contract rows as reports: create_contract never leaves an orphan.
OneReportPerJob ==
  \A j \in Job : contracts[j] = reports[j] /\ reports[j] <= 1

\* submit_audit writes "pending" before it publishes, so no worker's status is
\* ever overwritten by the API's first one.
PendingIsFirst ==
  [][\A j \in Job : status[j] \in {"running", "complete", "failed"}
                      => status'[j] # "pending"]_vars

\* In a run without faults, two coroutines never work on one job at once, not
\* even while a retry's message is already queued and the first try's not acked.
SingleRunner ==
  faults = 0 =>
    \A v, w \in Worker, s, t \in Slot :
      Active(v, s) /\ Active(w, t) /\ coro[v][s].job = coro[w][t].job => v = w /\ s = t

\* In a run without faults a stored report ends its job: no message of it waits
\* and no process has more to do with it than to announce it, so nothing is tried
\* again, also when the announcement reaches nobody (job_set_status swallows it).
ReportEndsTheJob ==
  \A j \in Job :
    faults = 0 /\ reports[j] > 0 =>
      /\ \A n \in Attempt : queue[<<j, n>>] = 0
      /\ \A w \in Worker, s \in Slot :
           coro[w][s].job = j => coro[w][s].pc \in {"announce", "end"}

\* The task's documented last step ("Update job status to complete (or failed)
\* in Redis"): in a run without faults, when nothing is left to do for a job its
\* status tells whether the report exists.
SettledIsAnnounced ==
  \A j \in Job :
    faults = 0 /\ caller[j] = "polling" /\ ~Outstanding(j)
      => status[j] = IF reports[j] > 0 THEN "complete" ELSE "failed"

-----------------------------------------------------------------------------
(* Inductive invariants: why the safety properties hold *)

\* A coroutine about to write "complete" has committed its report.
Announced ==
  \A w \in Worker, s \in Slot :
    coro[w][s].pc = "announce" => reports[coro[w][s].job] > 0

\* An uncommitted report row excludes a committed one, and another uncommitted
\* one, of the same job.
RowLocked ==
  \A w \in Worker, s \in Slot :
    coro[w][s].pc = "commit" =>
      /\ reports[coro[w][s].job] = 0
      /\ \A v \in Worker, t \in Slot : coro[v][t] = coro[w][s] => v = w /\ t = s

ReportInv == TypeOK /\ Announced /\ RowLocked /\ CompletionIsReal /\ OneReportPerJob

\* A job that was never accepted has left no trace outside Redis.
NotAccepted(j) == caller[j] \in {"idle", "stored", "refused", "inline"}

Untouched(j) ==
  /\ reports[j] = 0
  /\ \A n \in Attempt : queue[<<j, n>>] = 0
  /\ \A w \in Worker : task[w].job # j
  /\ \A w \in Worker, s \in Slot : coro[w][s].job # j

AcceptInv == TypeOK /\ \A j \in Job : NotAccepted(j) => Untouched(j)

\* Until the message is published no worker writes the job's status.
FreshInv ==
  /\ AcceptInv
  /\ \A j \in Job : caller[j] \in {"idle", "stored"} => status[j] \in {"absent", "pending"}

\* The process holds a message of the job that it has not finished with.
Runs(w, j) == task[w].job = j /\ coro[w]["own"].pc # "end"

\* Without faults every coroutine is its process's own, for the message it holds.
OwnCoroutine ==
  \A w \in Worker :
    /\ coro[w]["stray"] = NoCoro
    /\ coro[w]["own"].job = task[w].job
    /\ task[w] # NoTask => coro[w]["own"] \in Coroutine

\* A job has one queued message or one run at a time: a retry's message is
\* published by the run that ends with it.
OneExecution ==
  \A j \in Job :
    /\ \A n \in Attempt : queue[<<j, n>>] <= 1
    /\ \A m, n \in Attempt : queue[<<j, m>>] > 0 /\ queue[<<j, n>>] > 0 => m = n
    /\ \A n \in Attempt, w \in Worker : queue[<<j, n>>] > 0 => ~Runs(w, j)
    /\ \A v, w \in Worker : Runs(v, j) /\ Runs(w, j) => v = w

ExecutionInv == AcceptInv /\ (faults = 0 => OwnCoroutine /\ OneExecution)

\* After the commit only the announcement is left.
ReportEnds(j) ==
  reports[j] > 0 =>
    /\ \A n \in Attempt : queue[<<j, n>>] = 0
    /\ \A w \in Worker : Runs(w, j) => coro[w]["own"].pc = "announce"

EndInv == ExecutionInv /\ (faults = 0 => \A j \in Job : ReportEnds(j))

-----------------------------------------------------------------------------
(* What the service owes a job, seen through queue, workers and database *)

Owed ==
  [j \in Job |->
    IF reports[j] > 0 THEN "reported"
    ELSE IF Outstanding(j) THEN "accepted"
    ELSE IF NotAccepted(j) THEN "unknown"
    ELSE "abandoned"]

Service == INSTANCE AuditService WITH Job <- Job, verdict <- Owed

\* The queue, the workers and the database together implement AuditService.
ImplementsService == Service!FairSpec
=============================================================================
