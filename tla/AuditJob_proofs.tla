-------------------------- MODULE AuditJob_proofs --------------------------
(***************************************************************************)
(* Proofs about AuditJob, for any number of jobs, workers and retries.     *)
(***************************************************************************)
EXTENDS AuditJob, TLAPS

USE DEF Attempt, Slot, PC, CallerState, Status, NoTask, NoCoro, Task, Coroutine,
        database, Tell, Goto, Publish, Fault, At, WriteStatus

\* A coroutine that moves on keeps its job; no other coroutine is touched.
LEMMA GotoMoves ==
  ASSUME TypeOK, NEW w \in Worker, NEW s \in Slot, NEW pc \in PC \ {"none"},
         coro[w][s].pc # "none", Goto(w, s, pc)
  PROVE  /\ coro[w][s] \in Coroutine
         /\ coro' \in [Worker -> [Slot -> Coroutine \cup {NoCoro}]]
         /\ coro'[w][s] = [job |-> coro[w][s].job, pc |-> pc]
         /\ \A v \in Worker, t \in Slot : ~(v = w /\ t = s) => coro'[v][t] = coro[v][t]
         /\ \A v \in Worker, t \in Slot : coro'[v][t].job = coro[v][t].job
  <1>1. coro[w][s] \in Coroutine /\ coro \in [Worker -> [Slot -> Coroutine \cup {NoCoro}]]
    BY DEF TypeOK
  <1>2. [coro[w][s] EXCEPT !.pc = pc] = [job |-> coro[w][s].job, pc |-> pc]
    BY <1>1
  <1>3. [job |-> coro[w][s].job, pc |-> pc] \in Coroutine
    BY <1>1
  <1>4. coro' = [coro EXCEPT ![w] = [@ EXCEPT ![s] = [job |-> coro[w][s].job, pc |-> pc]]]
    BY <1>1, <1>2
  <1>. HIDE DEF PC
  <1>. QED
    BY <1>1, <1>3, <1>4

\* A status write, done or lost, leaves a status and a fault within its bound.
LEMMA WrittenType ==
  ASSUME TypeOK, NEW process, NEW j \in Job, NEW value \in Status, WriteStatus(process, j, value)
  PROVE  status' \in [Job -> Status] /\ faults' \in 0 .. MaxFaults
  BY MaxFaultsAssumption DEF TypeOK

\* Every variable keeps its type; in particular the fault count its bound.
LEMMA TypeInit == Init => TypeOK
BY NoJobAssumption, MaxRetriesAssumption, MaxFaultsAssumption DEF Init, TypeOK

LEMMA TypeStep == TypeOK /\ [Next]_vars => TypeOK'
  <2>. USE NoJobAssumption, MaxRetriesAssumption, MaxFaultsAssumption DEF TypeOK
  <2>. SUFFICES ASSUME TypeOK, [Next]_vars PROVE TypeOK'
    OBVIOUS
  <2>1. ASSUME NEW j \in Job, SubmitSync(j) PROVE TypeOK'
    BY <2>1 DEF SubmitSync
  <2>2. ASSUME NEW j \in Job, StorePending(j) PROVE TypeOK'
    BY <2>2 DEF StorePending
  <2>3. ASSUME NEW j \in Job, Enqueue(j) PROVE TypeOK'
    BY <2>3 DEF Enqueue
  <2>4. ASSUME NEW j \in Job, EnqueueFails(j) PROVE TypeOK'
    BY <2>4 DEF EnqueueFails
  <2>5. ASSUME NEW j \in Job, Poll(j) PROVE TypeOK'
    BY <2>5 DEF Poll
  <2>6. ASSUME NEW j \in Job, FetchReport(j) PROVE TypeOK'
    BY <2>6 DEF FetchReport
  <2>7. ASSUME NEW j \in Job, Expire(j) PROVE TypeOK'
    BY <2>7 DEF Expire
  <2>8. ASSUME NEW w \in Worker, NEW s \in Slot, MarkRunning(w, s) PROVE TypeOK'
    BY <2>8 DEF MarkRunning
  <2>9. ASSUME NEW w \in Worker, NEW s \in Slot, Audit(w, s) PROVE TypeOK'
    BY <2>9 DEF Audit
  <2>10. ASSUME NEW w \in Worker, NEW s \in Slot, InsertContract(w, s) PROVE TypeOK'
    BY <2>10 DEF InsertContract
  <2>11. ASSUME NEW w \in Worker, NEW s \in Slot, InsertReport(w, s) PROVE TypeOK'
    BY <2>11 DEF InsertReport
  <2>12. ASSUME NEW w \in Worker, NEW s \in Slot, Commit(w, s) PROVE TypeOK'
    BY <2>12 DEF Commit
  <2>13. ASSUME NEW w \in Worker, NEW s \in Slot, Announce(w, s) PROVE TypeOK'
    <3>1. coro[w][s].pc # "none" /\ Goto(w, s, "end")
      BY <2>13 DEF Announce
    <3>2. coro' \in [Worker -> [Slot -> Coroutine \cup {NoCoro}]]
      <4>. HIDE DEF TypeOK, Goto, Slot, Coroutine, NoCoro
      <4>. QED
        BY <3>1, GotoMoves
    <3>3. WriteStatus("worker", coro[w][s].job, "complete") /\ UNCHANGED <<caller, queue, task, database>>
      BY <2>13 DEF Announce
    <3>4. coro[w][s].job \in Job
      BY <3>1
    <3>5. status' \in [Job -> Status] /\ faults' \in 0 .. MaxFaults
      <4>. HIDE DEF TypeOK, WriteStatus
      <4>. QED
        BY <3>3, <3>4, WrittenType
    <3>. HIDE DEF WriteStatus, Goto, Coroutine, NoCoro, Slot
    <3>. QED
      BY <3>2, <3>3, <3>5
  <2>14. ASSUME NEW w \in Worker, NEW s \in Slot, MarkFailed(w, s) PROVE TypeOK'
    <3>1. PICK pc \in {"retry", "end"} : coro[w][s].pc # "none" /\ Goto(w, s, pc)
      BY <2>14 DEF MarkFailed
    <3>2. coro' \in [Worker -> [Slot -> Coroutine \cup {NoCoro}]]
      <4>. HIDE DEF TypeOK, Goto, Slot, Coroutine, NoCoro
      <4>. QED
        BY <3>1, GotoMoves
    <3>. QED
      BY <2>14, <3>2 DEF MarkFailed
  <2>15. ASSUME NEW w \in Worker, NEW s \in Slot, Retry(w, s) PROVE TypeOK'
    <3>1. task[w] \in Task /\ coro' \in [Worker -> [Slot -> Coroutine \cup {NoCoro}]]
      BY <2>15 DEF Retry
    <3>2. queue' \in [Job \X Attempt -> Nat]
      <4>1. CASE task[w].attempt < MaxRetries
        <5>1. <<task[w].job, task[w].attempt + 1>> \in Job \X Attempt
          BY <3>1, <4>1
        <5>2. queue' = [queue EXCEPT ![<<task[w].job, task[w].attempt + 1>>] = @ + 1]
          BY <2>15, <4>1 DEF Retry
        <5>3. queue \in [Job \X Attempt -> Nat]
          OBVIOUS
        <5>. HIDE DEF TypeOK, Attempt
        <5>. QED
          BY <5>1, <5>2, <5>3
      <4>2. CASE ~(task[w].attempt < MaxRetries)
        BY <2>15, <4>2 DEF Retry
      <4>. QED
        BY <4>1, <4>2
    <3>. QED
      BY <2>15, <3>1, <3>2 DEF Retry
  <2>16. ASSUME NEW w \in Worker, NEW s \in Slot, Progress(w, s) PROVE TypeOK'
    BY <2>16 DEF Progress
  <2>17. ASSUME NEW w \in Worker, NEW s \in Slot, DatabaseError(w, s) PROVE TypeOK'
    BY <2>17 DEF DatabaseError
  <2>18. ASSUME NEW w \in Worker, Receive(w) PROVE TypeOK'
    BY <2>18 DEF Receive
  <2>19. ASSUME NEW w \in Worker, Ack(w) PROVE TypeOK'
    BY <2>19 DEF Ack
  <2>20. ASSUME NEW w \in Worker, Reap(w) PROVE TypeOK'
    BY <2>20 DEF Reap
  <2>21. ASSUME NEW w \in Worker, SoftLimit(w) PROVE TypeOK'
    BY <2>21 DEF SoftLimit
  <2>22. ASSUME NEW w \in Worker, ChildKilled(w) PROVE TypeOK'
    BY <2>22 DEF ChildKilled
  <2>23. ASSUME NEW w \in Worker, WorkerKilled(w) PROVE TypeOK'
    BY <2>23 DEF WorkerKilled
  <2>24. CASE UNCHANGED vars
    BY <2>24 DEF vars
  <2>. HIDE DEF TypeOK
  <2>. QED
    BY <2>1, <2>2, <2>3, <2>4, <2>5, <2>6, <2>7, <2>8, <2>9, <2>10, <2>11, <2>12, <2>13, <2>14, <2>15, <2>16, <2>17, <2>18, <2>19, <2>20, <2>21, <2>22, <2>23, <2>24
    DEF Next, ApiStep, Advance, WorkerFault

\* Statuses, messages, coroutines and rows keep their types, whatever fails.
THEOREM TypeCorrect == Spec => []TypeOK
BY TypeInit, TypeStep, PTL DEF Spec

\* Writing a status other than "complete" completes nothing.
LEMMA OtherStatus ==
  ASSUME TypeOK, NEW j \in Job, NEW value \in Status, value # "complete",
         WriteStatus("worker", j, value)
  PROVE  /\ \A i \in Job : status'[i] = "complete" => status[i] = "complete"
         /\ \A i \in Job : i # j => status'[i] = status[i]
  BY DEF TypeOK

\* A coroutine that goes neither to the commit nor to the announcement
\* disturbs no report.
LEMMA QuietStep ==
  ASSUME ReportInv, TypeOK', NEW w \in Worker, NEW s \in Slot,
         NEW pc \in PC \ {"none", "commit", "announce"},
         coro[w][s].pc # "none", Goto(w, s, pc), UNCHANGED <<caller, database>>,
         \A j \in Job : status'[j] = "complete" => status[j] = "complete" \/ reports[j] > 0
  PROVE  ReportInv'
  <1>1. /\ coro[w][s] \in Coroutine
        /\ coro'[w][s] = [job |-> coro[w][s].job, pc |-> pc]
        /\ \A v \in Worker, t \in Slot : ~(v = w /\ t = s) => coro'[v][t] = coro[v][t]
    <2>. HIDE DEF Goto, Slot, Coroutine, NoCoro
    <2>. QED
      BY GotoMoves DEF ReportInv
  <1>2. Announced'
    BY <1>1 DEF ReportInv, Announced
  <1>3. RowLocked'
    <2>. SUFFICES ASSUME NEW v \in Worker, NEW t \in Slot, coro'[v][t].pc = "commit"
                  PROVE  /\ reports[coro'[v][t].job] = 0
                         /\ \A u \in Worker, r \in Slot :
                              coro'[u][r] = coro'[v][t] => u = v /\ r = t
      BY DEF RowLocked
    <2>1. ~(v = w /\ t = s) /\ coro'[v][t] = coro[v][t] /\ coro'[w][s] # coro'[v][t]
      BY <1>1
    <2>. QED
      BY <1>1, <2>1 DEF ReportInv, RowLocked
  <1>4. CompletionIsReal' /\ OneReportPerJob'
    BY DEF ReportInv, CompletionIsReal, OneReportPerJob
  <1>. QED
    BY <1>2, <1>3, <1>4 DEF ReportInv

\* The invariant behind the report properties is inductive.
LEMMA ReportInvariant == Spec => []ReportInv
<1>. USE NoJobAssumption
<1>1. Init => ReportInv
  BY TypeInit DEF Init, ReportInv, Announced, RowLocked, CompletionIsReal, OneReportPerJob
<1>2. ReportInv /\ [Next]_vars => ReportInv'
  <2>. SUFFICES ASSUME ReportInv, [Next]_vars PROVE ReportInv'
    OBVIOUS
  <2>0. TypeOK'
    BY TypeStep DEF ReportInv
  <2>1. ASSUME NEW j \in Job, SubmitSync(j) PROVE ReportInv'
    BY <2>1, <2>0 DEF SubmitSync, ReportInv, Announced, RowLocked, CompletionIsReal, OneReportPerJob, TypeOK
  <2>2. ASSUME NEW j \in Job, StorePending(j) PROVE ReportInv'
    BY <2>2, <2>0 DEF StorePending, ReportInv, Announced, RowLocked, CompletionIsReal, OneReportPerJob, TypeOK
  <2>3. ASSUME NEW j \in Job, Enqueue(j) PROVE ReportInv'
    BY <2>3, <2>0 DEF Enqueue, ReportInv, Announced, RowLocked, CompletionIsReal, OneReportPerJob, TypeOK
  <2>4. ASSUME NEW j \in Job, EnqueueFails(j) PROVE ReportInv'
    BY <2>4, <2>0 DEF EnqueueFails, ReportInv, Announced, RowLocked, CompletionIsReal, OneReportPerJob, TypeOK
  <2>5. ASSUME NEW j \in Job, Poll(j) PROVE ReportInv'
    BY <2>5, <2>0 DEF Poll, ReportInv, Announced, RowLocked, CompletionIsReal, OneReportPerJob, TypeOK
  <2>6. ASSUME NEW j \in Job, FetchReport(j) PROVE ReportInv'
    BY <2>6, <2>0 DEF FetchReport, ReportInv, Announced, RowLocked, CompletionIsReal, OneReportPerJob, TypeOK
  <2>7. ASSUME NEW j \in Job, Expire(j) PROVE ReportInv'
    BY <2>7, <2>0 DEF Expire, ReportInv, Announced, RowLocked, CompletionIsReal, OneReportPerJob, TypeOK
  <2>8. ASSUME NEW w \in Worker, NEW s \in Slot, MarkRunning(w, s) PROVE ReportInv'
    <3>1. coro[w][s].job \in Job
      BY <2>8 DEF MarkRunning, ReportInv, TypeOK
    <3>2. \A j \in Job : status'[j] = "complete" => status[j] = "complete"
      BY <2>8, <3>1, OtherStatus DEF MarkRunning, ReportInv
    <3>3. coro[w][s].pc # "none" /\ Goto(w, s, "audit")
      BY <2>8 DEF MarkRunning
    <3>. HIDE DEF Goto, At, Slot, Coroutine, NoCoro, WriteStatus
    <3>. QED
      BY <2>8, <2>0, <3>2, <3>3, QuietStep DEF MarkRunning
  <2>9. ASSUME NEW w \in Worker, NEW s \in Slot, Audit(w, s) PROVE ReportInv'
    <3>1. PICK next \in {"insert", "reject", "fail"} : coro[w][s].pc = "audit" /\ Goto(w, s, next)
      BY <2>9 DEF Audit
    <3>. HIDE DEF Goto, At, Slot, Coroutine, NoCoro, WriteStatus
    <3>. QED
      BY <2>9, <2>0, <3>1, QuietStep DEF Audit
  <2>10. ASSUME NEW w \in Worker, NEW s \in Slot, InsertContract(w, s) PROVE ReportInv'
    <3>1. coro[w][s].pc # "none" /\ Goto(w, s, "report")
      BY <2>10 DEF InsertContract
    <3>. HIDE DEF Goto, At, Slot, Coroutine, NoCoro, WriteStatus
    <3>. QED
      BY <2>10, <2>0, <3>1, QuietStep DEF InsertContract
  <2>11. ASSUME NEW w \in Worker, NEW s \in Slot, InsertReport(w, s) PROVE ReportInv'
    <3>1. PICK next \in {"commit", "fail"} :
            /\ coro' = [coro EXCEPT ![w][s].pc = next]
            /\ next = "commit" => /\ reports[coro[w][s].job] = 0
                                 /\ ~UncommittedReport(coro[w][s].job)
      BY <2>11 DEF InsertReport, ReportInv, OneReportPerJob, TypeOK
    <3>2. coro[w][s] \in Coroutine /\ coro[w][s].pc = "report"
      BY <2>11 DEF InsertReport, ReportInv, TypeOK
    <3>3. /\ coro'[w][s] = [job |-> coro[w][s].job, pc |-> next]
          /\ \A v \in Worker, t \in Slot : ~(v = w /\ t = s) => coro'[v][t] = coro[v][t]
      BY <3>1, <3>2 DEF ReportInv, TypeOK
    <3>4. UNCHANGED <<caller, status, reports, contracts>>
      BY <2>11 DEF InsertReport
    <3>5. RowLocked'
      <4>. SUFFICES ASSUME NEW v \in Worker, NEW t \in Slot, coro'[v][t].pc = "commit"
                    PROVE  /\ reports[coro'[v][t].job] = 0
                           /\ \A u \in Worker, r \in Slot :
                                coro'[u][r] = coro'[v][t] => u = v /\ r = t
        BY <3>4 DEF RowLocked
      <4>1. CASE v = w /\ t = s
        BY <4>1, <3>1, <3>2, <3>3 DEF UncommittedReport
      <4>2. CASE ~(v = w /\ t = s)
        <5>1. coro'[v][t] = coro[v][t] /\ coro[v][t] \in Coroutine
          BY <4>2, <3>3 DEF ReportInv, TypeOK
        <5>2. coro'[w][s] # coro'[v][t]
          BY <5>1, <3>1, <3>2, <3>3 DEF UncommittedReport
        <5>. QED
          BY <5>1, <5>2, <3>3 DEF ReportInv, RowLocked
      <4>. QED
        BY <4>1, <4>2
    <3>6. Announced'
      BY <3>1, <3>2, <3>3, <3>4 DEF ReportInv, Announced
    <3>. QED
      BY <2>0, <3>4, <3>5, <3>6 DEF ReportInv, CompletionIsReal, OneReportPerJob
  <2>12. ASSUME NEW w \in Worker, NEW s \in Slot, Commit(w, s) PROVE ReportInv'
    <3>. DEFINE j == coro[w][s].job
    <3>1. coro[w][s] \in Coroutine /\ coro[w][s].pc = "commit" /\ reports[j] = 0
      BY <2>12 DEF Commit, ReportInv, TypeOK, RowLocked
    <3>2. PICK next \in {"announce", "fail"} : coro' = [coro EXCEPT ![w][s].pc = next]
      BY <2>12 DEF Commit
    <3>3. /\ coro'[w][s] = [job |-> j, pc |-> next]
          /\ \A v \in Worker, t \in Slot : ~(v = w /\ t = s) => coro'[v][t] = coro[v][t]
      BY <3>1, <3>2 DEF ReportInv, TypeOK
    <3>4. /\ reports' = [reports EXCEPT ![j] = 1]
          /\ contracts' = [contracts EXCEPT ![j] = 1]
          /\ UNCHANGED <<caller, status>>
      <4>1. j \in Job /\ contracts[j] = 0 /\ 0 + 1 = 1
        BY <3>1 DEF ReportInv, TypeOK, OneReportPerJob
      <4>. QED
        BY <2>12, <3>1, <4>1 DEF Commit
    <3>5. \A i \in Job : reports'[i] = IF i = j THEN 1 ELSE reports[i]
      BY <3>4 DEF ReportInv, TypeOK
    <3>6. Announced'
      <4>. SUFFICES ASSUME NEW v \in Worker, NEW t \in Slot, coro'[v][t].pc = "announce"
                    PROVE  reports'[coro'[v][t].job] > 0
        BY DEF Announced
      <4>1. coro'[v][t].job \in Job
        BY <3>1, <3>3 DEF ReportInv, TypeOK
      <4>2. CASE v = w /\ t = s
        BY <4>2, <3>1, <3>3, <3>5
      <4>3. CASE ~(v = w /\ t = s)
        BY <4>1, <4>3, <3>3, <3>5 DEF ReportInv, Announced
      <4>. QED
        BY <4>2, <4>3
    <3>7. RowLocked'
      <4>. SUFFICES ASSUME NEW v \in Worker, NEW t \in Slot, coro'[v][t].pc = "commit"
                    PROVE  /\ reports'[coro'[v][t].job] = 0
                           /\ \A u \in Worker, r \in Slot :
                                coro'[u][r] = coro'[v][t] => u = v /\ r = t
        BY DEF RowLocked
      <4>1. ~(v = w /\ t = s) /\ coro'[v][t] = coro[v][t] /\ coro[v][t] \in Coroutine
        BY <3>2, <3>3 DEF ReportInv, TypeOK
      <4>2. coro[v][t].job # j
        BY <3>1, <4>1 DEF ReportInv, RowLocked
      <4>3. reports'[coro'[v][t].job] = 0
        BY <4>1, <4>2, <3>5 DEF ReportInv, RowLocked
      <4>4. coro'[w][s] # coro'[v][t]
        BY <4>1, <4>2, <3>3
      <4>. QED
        BY <4>1, <4>3, <4>4, <3>3 DEF ReportInv, RowLocked
    <3>8. CompletionIsReal'
      BY <3>4, <3>5 DEF ReportInv, CompletionIsReal
    <3>9. OneReportPerJob'
      BY <3>4 DEF ReportInv, OneReportPerJob, TypeOK
    <3>. QED
      BY <2>0, <3>6, <3>7, <3>8, <3>9 DEF ReportInv
  <2>13. ASSUME NEW w \in Worker, NEW s \in Slot, Announce(w, s) PROVE ReportInv'
    <3>1. coro[w][s] \in Coroutine /\ reports[coro[w][s].job] > 0
      BY <2>13 DEF Announce, ReportInv, TypeOK, Announced
    <3>2. \A j \in Job : status'[j] = "complete" => status[j] = "complete" \/ reports[j] > 0
      BY <2>13, <3>1 DEF Announce, ReportInv, TypeOK
    <3>3. coro[w][s].pc # "none" /\ Goto(w, s, "end")
      BY <2>13 DEF Announce
    <3>. HIDE DEF Goto, At, Slot, Coroutine, NoCoro, WriteStatus
    <3>. QED
      BY <2>13, <2>0, <3>2, <3>3, QuietStep DEF Announce
  <2>14. ASSUME NEW w \in Worker, NEW s \in Slot, MarkFailed(w, s) PROVE ReportInv'
    <3>1. PICK next \in {"retry", "end"} : coro[w][s].pc # "none" /\ Goto(w, s, next)
      BY <2>14 DEF MarkFailed
    <3>2. coro[w][s].job \in Job
      BY <3>1 DEF ReportInv, TypeOK
    <3>3. \A j \in Job : status'[j] = "complete" => status[j] = "complete"
      BY <2>14, <3>2, OtherStatus DEF MarkFailed, ReportInv
    <3>. HIDE DEF Goto, At, Slot, Coroutine, NoCoro, WriteStatus
    <3>. QED
      BY <2>14, <2>0, <3>1, <3>3, QuietStep DEF MarkFailed
  <2>15. ASSUME NEW w \in Worker, NEW s \in Slot, Retry(w, s) PROVE ReportInv'
    <3>1. coro[w][s].pc # "none" /\ Goto(w, s, "end")
      BY <2>15 DEF Retry
    <3>. HIDE DEF Goto, At, Slot, Coroutine, NoCoro, WriteStatus
    <3>. QED
      BY <2>15, <2>0, <3>1, QuietStep DEF Retry
  <2>16. ASSUME NEW w \in Worker, NEW s \in Slot, Progress(w, s) PROVE ReportInv'
    BY <2>16, <2>0 DEF Progress, ReportInv, Announced, RowLocked, CompletionIsReal, OneReportPerJob, TypeOK
  <2>17. ASSUME NEW w \in Worker, NEW s \in Slot, DatabaseError(w, s) PROVE ReportInv'
    <3>1. coro[w][s].pc # "none" /\ Goto(w, s, "fail")
      BY <2>17 DEF DatabaseError
    <3>. HIDE DEF Goto, At, Slot, Coroutine, NoCoro, WriteStatus
    <3>. QED
      BY <2>17, <2>0, <3>1, QuietStep DEF DatabaseError
  <2>18. ASSUME NEW w \in Worker, Receive(w) PROVE ReportInv'
    BY <2>18, <2>0 DEF Receive, ReportInv, Announced, RowLocked, CompletionIsReal, OneReportPerJob, TypeOK
  <2>19. ASSUME NEW w \in Worker, Ack(w) PROVE ReportInv'
    BY <2>19, <2>0 DEF Ack, ReportInv, Announced, RowLocked, CompletionIsReal, OneReportPerJob, TypeOK
  <2>20. ASSUME NEW w \in Worker, Reap(w) PROVE ReportInv'
    BY <2>20, <2>0 DEF Reap, ReportInv, Announced, RowLocked, CompletionIsReal, OneReportPerJob, TypeOK
  <2>21. ASSUME NEW w \in Worker, SoftLimit(w) PROVE ReportInv'
    BY <2>21, <2>0 DEF SoftLimit, ReportInv, Announced, RowLocked, CompletionIsReal, OneReportPerJob, TypeOK
  <2>22. ASSUME NEW w \in Worker, ChildKilled(w) PROVE ReportInv'
    BY <2>22, <2>0 DEF ChildKilled, ReportInv, Announced, RowLocked, CompletionIsReal, OneReportPerJob, TypeOK
  <2>23. ASSUME NEW w \in Worker, WorkerKilled(w) PROVE ReportInv'
    BY <2>23, <2>0 DEF WorkerKilled, ReportInv, Announced, RowLocked, CompletionIsReal, OneReportPerJob, TypeOK
  <2>24. CASE UNCHANGED vars
    BY <2>24, <2>0 DEF vars, ReportInv, Announced, RowLocked, CompletionIsReal, OneReportPerJob, TypeOK
  <2>. QED
    BY <2>1, <2>2, <2>3, <2>4, <2>5, <2>6, <2>7, <2>8, <2>9, <2>10, <2>11, <2>12, <2>13, <2>14, <2>15, <2>16, <2>17, <2>18, <2>19, <2>20, <2>21, <2>22, <2>23, <2>24
    DEF Next, ApiStep, Advance, WorkerFault
<1>. QED
  BY <1>1, <1>2, PTL DEF Spec

\* Theorem: a job that is shown as complete has its report in the database,
\* through any crash, redelivery, retry, lost status write or expiry.
THEOREM CompletionReal == Spec => []CompletionIsReal
BY ReportInvariant, PTL DEF ReportInv

\* Theorem: the database holds at most one report per job and no contract row
\* without its report, however often the job is executed.
THEOREM OneReport == Spec => []OneReportPerJob
BY ReportInvariant, PTL DEF ReportInv

-----------------------------------------------------------------------------
(* What the steps of a coroutine and of a process may touch *)

\* The code a coroutine runs between two awaits.
CoroutineStep(w, s) == Advance(w, s) \/ Progress(w, s) \/ DatabaseError(w, s)

\* A coroutine's step stays with its job, and with its process's message.
LEMMA CoroutineKeeps ==
  ASSUME TypeOK, NEW w \in Worker, NEW s \in Slot, CoroutineStep(w, s)
  PROVE  /\ UNCHANGED <<caller, task>>
         /\ task[w] \in Task /\ coro[w]["own"].pc # "end" /\ coro[w][s] \in Coroutine
         /\ \A v \in Worker, t \in Slot : ~(v = w /\ t = s) => coro'[v][t] = coro[v][t]
         /\ \A v \in Worker, t \in Slot : coro'[v][t].job = coro[v][t].job
         /\ coro'[w][s] \in Coroutine
  <1>1. UNCHANGED <<caller, task>> /\ task[w] # NoTask /\ coro[w]["own"].pc # "end" /\ coro[w][s].pc # "none"
    BY DEF CoroutineStep, Advance, MarkRunning, Audit, InsertContract, InsertReport, Commit,
       Announce, MarkFailed, Retry, Progress, DatabaseError
  <1>2. task[w] \in Task /\ coro[w][s] \in Coroutine
    BY <1>1 DEF TypeOK
  <1>3. coro' = coro \/ \E pc \in PC \ {"none"} : Goto(w, s, pc)
    <2>1. Advance(w, s) => \E pc \in PC \ {"none"} : Goto(w, s, pc)
      <3>. HIDE DEF Goto
      <3>. QED
        BY DEF Advance, MarkRunning, Audit, InsertContract, InsertReport, Commit, Announce,
           MarkFailed, Retry
    <2>. HIDE DEF Goto
    <2>. QED
      BY <2>1 DEF CoroutineStep, Progress, DatabaseError
  <1>4. CASE coro' = coro
    BY <1>1, <1>2, <1>4
  <1>5. ASSUME NEW pc \in PC \ {"none"}, Goto(w, s, pc)
        PROVE  /\ coro'[w][s] = [job |-> coro[w][s].job, pc |-> pc]
               /\ \A v \in Worker, t \in Slot : ~(v = w /\ t = s) => coro'[v][t] = coro[v][t]
               /\ \A v \in Worker, t \in Slot : coro'[v][t].job = coro[v][t].job
    <2>. HIDE DEF Goto, Slot, Coroutine, NoCoro, PC
    <2>. QED
      BY <1>1, <1>5, GotoMoves
  <1>. QED
    BY <1>1, <1>2, <1>3, <1>4, <1>5

\* It stores a report, or writes a status, of its own job only, and publishes
\* nothing but a further message of the job its process holds.
LEMMA CoroutineWrites ==
  ASSUME TypeOK, NEW w \in Worker, NEW s \in Slot, CoroutineStep(w, s)
  PROVE  /\ \A i \in Job : i # coro[w][s].job => reports'[i] = reports[i] /\ status'[i] = status[i]
         /\ \A i \in Job : reports[i] > 0 => reports'[i] > 0
         /\ \A m \in Job \X Attempt : m[1] # task[w].job => queue'[m] = queue[m]
  <1>1. task[w] \in Task /\ coro[w][s] \in Coroutine
    BY CoroutineKeeps
  <1>2. CASE Commit(w, s)
    BY <1>1, <1>2 DEF Commit, TypeOK
  <1>3. CASE Retry(w, s)
    BY <1>1, <1>3 DEF Retry, TypeOK
  <1>4. CASE MarkRunning(w, s) \/ Announce(w, s) \/ MarkFailed(w, s) \/ Progress(w, s)
    <2>1. UNCHANGED <<queue, reports>> /\ \E value \in Status : WriteStatus("worker", coro[w][s].job, value)
      <3>. HIDE DEF WriteStatus
      <3>. QED
        BY <1>4 DEF MarkRunning, Announce, MarkFailed, Progress
    <2>. QED
      BY <1>1, <2>1 DEF TypeOK
  <1>5. CASE \/ Audit(w, s) \/ InsertContract(w, s) \/ InsertReport(w, s) \/ DatabaseError(w, s)
    BY <1>5 DEF Audit, InsertContract, InsertReport, DatabaseError
  <1>. QED
    BY <1>2, <1>3, <1>4, <1>5 DEF CoroutineStep, Advance

\* A process takes a message that was waiting, or gives back the one it holds:
\* to nobody, or to the broker.  It starts a coroutine for that message only.
LEMMA ProcessKeeps ==
  ASSUME TypeOK, NEW w \in Worker, Receive(w) \/ Ack(w) \/ Reap(w) \/ WorkerFault(w)
  PROVE  /\ UNCHANGED <<caller, status, reports>>
         /\ \A v \in Worker : v # w => task'[v] = task[v] /\ coro'[v] = coro[v]
         /\ \A j \in Job : Outstanding(j)' => Outstanding(j)
         /\ \A j \in Job : j # task[w].job /\ Outstanding(j) => Outstanding(j)'
         /\ \A j \in Job, s \in Slot :
              coro'[w][s].job = j => (\E t \in Slot : coro[w][t].job = j) \/ Outstanding(j)
  <1>. USE NoJobAssumption, MaxRetriesAssumption
  <1>1. CASE Receive(w)
    <2>0. PICK m \in Job \X Attempt :
             /\ queue[m] > 0
             /\ queue' = [queue EXCEPT ![m] = @ - 1]
             /\ task' = [task EXCEPT ![w] = [job |-> m[1], attempt |-> m[2]]]
             /\ coro' = [coro EXCEPT ![w]["own"] = [job |-> m[1], pc |-> "enter"]]
      BY <1>1 DEF Receive
    <2>. DEFINE j == m[1]
                n == m[2]
    <2>1. m = <<j, n>> /\ j \in Job /\ n \in Attempt
      OBVIOUS
    <2>2. Outstanding(j)
      BY <2>0, <2>1 DEF Outstanding
    <2>3. \A i \in Job : i # j /\ Outstanding(i)' => Outstanding(i)
      BY <2>0, <2>1 DEF Outstanding, TypeOK
    <2>4. /\ \A v \in Worker : v # w => task'[v] = task[v] /\ coro'[v] = coro[v]
          /\ coro'[w]["own"].job = j /\ coro'[w]["stray"] = coro[w]["stray"]
      BY <2>0 DEF TypeOK
    <2>5. \A i \in Job : i # j /\ Outstanding(i) => Outstanding(i)'
      <3>1. task[w] = NoTask
        BY <1>1 DEF Receive
      <3>. QED
        BY <2>0, <2>1, <3>1 DEF Outstanding, TypeOK
    <2>6. \A i \in Job : i = j => Outstanding(i)'
      BY <2>0, <2>1 DEF Outstanding, TypeOK
    <2>. QED
      BY <1>1, <2>2, <2>3, <2>4, <2>5, <2>6 DEF Receive
  <1>2. CASE Ack(w)
    BY <1>2 DEF Ack, Outstanding, TypeOK
  <1>3. CASE Reap(w)
    BY <1>3 DEF Reap, Outstanding, TypeOK
  <1>4. CASE SoftLimit(w)
    BY <1>4 DEF SoftLimit, Outstanding, TypeOK
  <1>5. CASE ChildKilled(w)
    BY <1>5 DEF ChildKilled, Outstanding, TypeOK
  <1>6. CASE WorkerKilled(w)
    <2>. DEFINE j == task[w].job
                n == task[w].attempt
    <2>0. task[w] # NoTask /\ j \in Job /\ n \in Attempt
      BY <1>6 DEF WorkerKilled, TypeOK
    <2>1. /\ queue' = [queue EXCEPT ![<<j, n>>] = @ + 1] /\ task' = [task EXCEPT ![w] = NoTask]
          /\ coro' = [coro EXCEPT ![w] = [s \in Slot |-> NoCoro]]
          /\ UNCHANGED <<caller, status, reports>>
      BY <1>6 DEF WorkerKilled, Publish, database
    <2>2. Outstanding(j)
      BY DEF Outstanding
    <2>3. \A i \in Job : i # j /\ Outstanding(i)' => Outstanding(i)
      BY <2>0, <2>1 DEF Outstanding, TypeOK
    <2>4. \A i \in Job : i # j /\ Outstanding(i) => Outstanding(i)'
      <3>. SUFFICES ASSUME NEW i \in Job, i # j, Outstanding(i) PROVE Outstanding(i)'
        OBVIOUS
      <3>1. \A m \in Attempt : queue'[<<i, m>>] = queue[<<i, m>>]
        BY <2>0, <2>1 DEF TypeOK
      <3>2. \A v \in Worker : task[v].job = i => task'[v] = task[v]
        BY <2>1 DEF TypeOK
      <3>. QED
        BY <3>1, <3>2 DEF Outstanding
    <2>5. /\ \A v \in Worker : v # w => task'[v] = task[v] /\ coro'[v] = coro[v]
          /\ \A s \in Slot : coro'[w][s] = NoCoro
      BY <2>1 DEF TypeOK
    <2>6. \A s \in Slot, i \in Job : coro'[w][s].job # i
      BY <2>5 DEF NoCoro
    <2>. HIDE DEF j, n
    <2>. QED
      BY <2>1, <2>2, <2>3, <2>4, <2>5, <2>6 DEF j
  <1>. QED
    BY <1>1, <1>2, <1>3, <1>4, <1>5, <1>6 DEF WorkerFault

-----------------------------------------------------------------------------
(* Jobs that were never accepted *)

\* A job without a trace has nothing outstanding.
LEMMA UntouchedIsIdle ==
  ASSUME NEW j \in Job, Untouched(j)
  PROVE  ~Outstanding(j)
  <1>. HIDE DEF Attempt
  <1>1. \A n \in Attempt : ~(queue[<<j, n>>] > 0)
    <2>. SUFFICES ASSUME NEW n \in Attempt PROVE ~(queue[<<j, n>>] > 0)
      OBVIOUS
    <2>1. queue[<<j, n>>] = 0
      BY DEF Untouched
    <2>. QED
      BY <2>1
  <1>. QED
    BY <1>1 DEF Untouched, Outstanding

\* The API publishes when it accepts; it never takes an acceptance back.
LEMMA ApiKeeps ==
  ASSUME TypeOK, NEW j \in Job, ApiStep(j)
  PROVE  /\ UNCHANGED <<task, coro, database>>
         /\ \A i \in Job : NotAccepted(i)' => NotAccepted(i)
         /\ \A i \in Job : i # j => caller'[i] = caller[i] /\ status'[i] = status[i]
         /\ \A m \in Job \X Attempt : queue'[m] # queue[m] => Enqueue(j) /\ m = <<j, 0>>
         /\ Enqueue(j) => ~NotAccepted(j)'
  <1>1. CASE Enqueue(j)
    BY <1>1, MaxRetriesAssumption DEF Enqueue, NotAccepted, TypeOK
  <1>2. CASE SubmitSync(j)
    BY <1>2 DEF SubmitSync, Enqueue, NotAccepted, TypeOK
  <1>3. CASE StorePending(j)
    BY <1>3 DEF StorePending, Enqueue, NotAccepted, TypeOK
  <1>4. CASE EnqueueFails(j)
    BY <1>4 DEF EnqueueFails, Enqueue, NotAccepted, TypeOK
  <1>5. CASE Poll(j) \/ FetchReport(j) \/ Expire(j)
    BY <1>5 DEF Poll, FetchReport, Expire, Enqueue, NotAccepted, TypeOK
  <1>. QED
    BY <1>1, <1>2, <1>3, <1>4, <1>5 DEF ApiStep

LEMMA AcceptStep == AcceptInv /\ [Next]_vars => AcceptInv'
  <1>. SUFFICES ASSUME AcceptInv, [Next]_vars PROVE AcceptInv'
    OBVIOUS
  <1>0. TypeOK /\ TypeOK'
    BY TypeStep DEF AcceptInv
  <1>1. ASSUME NEW j \in Job, ApiStep(j) PROVE AcceptInv'
    <2>. SUFFICES ASSUME NEW i \in Job, NotAccepted(i)' PROVE Untouched(i)'
      BY <1>0 DEF AcceptInv
    <2>1. NotAccepted(i) /\ UNCHANGED <<task, coro, database>>
      BY <1>0, <1>1, ApiKeeps
    <2>2. \A n \in Attempt : queue'[<<i, n>>] = queue[<<i, n>>]
      BY <1>0, <1>1, ApiKeeps
    <2>. QED
      BY <2>1, <2>2 DEF AcceptInv, Untouched
  <1>2. ASSUME NEW w \in Worker, NEW s \in Slot, CoroutineStep(w, s) PROVE AcceptInv'
    <2>. SUFFICES ASSUME NEW i \in Job, NotAccepted(i)' PROVE Untouched(i)'
      BY <1>0 DEF AcceptInv
    <2>1. /\ UNCHANGED <<caller, task>>
          /\ \A v \in Worker, t \in Slot : coro'[v][t].job = coro[v][t].job
      BY <1>0, <1>2, CoroutineKeeps
    <2>2. Untouched(i) /\ i # coro[w][s].job /\ i # task[w].job
      BY <2>1 DEF AcceptInv, NotAccepted, Untouched
    <2>3. reports'[i] = reports[i] /\ \A n \in Attempt : queue'[<<i, n>>] = queue[<<i, n>>]
      BY <1>0, <1>2, <2>2, CoroutineWrites
    <2>. QED
      BY <2>1, <2>2, <2>3 DEF Untouched
  <1>3. ASSUME NEW w \in Worker, Receive(w) \/ Ack(w) \/ Reap(w) \/ WorkerFault(w)
        PROVE  AcceptInv'
    <2>. SUFFICES ASSUME NEW i \in Job, NotAccepted(i)' PROVE Untouched(i)'
      BY <1>0 DEF AcceptInv
    <2>1. Untouched(i) /\ ~Outstanding(i)
      BY <1>0, <1>3, ProcessKeeps, UntouchedIsIdle DEF AcceptInv, NotAccepted
    <2>2. ~Outstanding(i)' /\ reports'[i] = reports[i]
      BY <1>0, <1>3, <2>1, ProcessKeeps
    <2>3. \A v \in Worker, s \in Slot : coro'[v][s].job # i
      <3>. HIDE DEF Slot
      <3>. QED
        BY <1>0, <1>3, <2>1, ProcessKeeps DEF Untouched
    <2>4. (\A n \in Attempt : queue'[<<i, n>>] = 0) /\ \A v \in Worker : task'[v].job # i
      <3>1. \A n \in Attempt : queue'[<<i, n>>] \in Nat
        BY <1>0 DEF TypeOK
      <3>. HIDE DEF Attempt
      <3>. QED
        BY <2>2, <3>1 DEF Outstanding
    <2>. QED
      BY <2>1, <2>2, <2>3, <2>4 DEF Untouched
  <1>4. CASE UNCHANGED vars
    BY <1>0, <1>4 DEF vars, AcceptInv, NotAccepted, Untouched
  <1>. QED
    BY <1>1, <1>2, <1>3, <1>4 DEF Next, CoroutineStep

\* A job that the API refused, answered inline or has not published yet has no
\* message, no execution and no report, in any run.
LEMMA AcceptInvariant == Spec => []AcceptInv
  <1>1. Init => AcceptInv
    BY NoJobAssumption, TypeInit DEF Init, AcceptInv, NotAccepted, Untouched
  <1>. QED
    BY <1>1, AcceptStep, PTL DEF Spec

LEMMA FreshStep == FreshInv /\ [Next]_vars => FreshInv'
  <1>. SUFFICES ASSUME FreshInv, [Next]_vars PROVE FreshInv'
    OBVIOUS
  <1>0. TypeOK /\ AcceptInv /\ AcceptInv'
    BY AcceptStep DEF FreshInv, AcceptInv
  <1>. SUFFICES ASSUME NEW i \in Job, caller'[i] \in {"idle", "stored"}
                PROVE  status'[i] \in {"absent", "pending"}
    BY <1>0 DEF FreshInv
  <1>1. ASSUME NEW j \in Job, ApiStep(j) PROVE status'[i] \in {"absent", "pending"}
    <2>1. CASE i # j
      BY <1>0, <1>1, <2>1, ApiKeeps DEF FreshInv
    <2>2. CASE i = j
      BY <1>0, <1>1, <2>2 DEF ApiStep, SubmitSync, StorePending, Enqueue, EnqueueFails, Poll,
         FetchReport, Expire, FreshInv, TypeOK
    <2>. QED
      BY <2>1, <2>2
  <1>2. ASSUME NEW w \in Worker, NEW s \in Slot, CoroutineStep(w, s)
        PROVE  status'[i] \in {"absent", "pending"}
    <2>1. caller' = caller
      BY <1>0, <1>2, CoroutineKeeps
    <2>2. i # coro[w][s].job
      BY <1>0, <2>1 DEF AcceptInv, NotAccepted, Untouched
    <2>. QED
      BY <1>0, <1>2, <2>1, <2>2, CoroutineWrites DEF FreshInv
  <1>3. ASSUME NEW w \in Worker, Receive(w) \/ Ack(w) \/ Reap(w) \/ WorkerFault(w)
        PROVE  status'[i] \in {"absent", "pending"}
    BY <1>0, <1>3, ProcessKeeps DEF FreshInv
  <1>4. CASE UNCHANGED vars
    BY <1>4 DEF vars, FreshInv
  <1>. QED
    BY <1>1, <1>2, <1>3, <1>4 DEF Next, CoroutineStep

\* Nobody but the API touches a job whose message is not yet published.
LEMMA FreshInvariant == Spec => []FreshInv
  <1>1. Init => FreshInv
    BY NoJobAssumption, TypeInit DEF Init, FreshInv, AcceptInv, NotAccepted, Untouched
  <1>. QED
    BY <1>1, FreshStep, PTL DEF Spec

\* Theorem: the API's first status never overwrites one that a worker wrote.
THEOREM PendingFirst == Spec => PendingIsFirst
  <1>1. ASSUME FreshInv, Next, NEW i \in Job, status[i] \in {"running", "complete", "failed"}
        PROVE  status'[i] # "pending"
    <2>0. TypeOK
      BY <1>1 DEF FreshInv, AcceptInv
    <2>1. ASSUME NEW j \in Job, ApiStep(j) PROVE status'[i] # "pending"
      BY <1>1, <2>0, <2>1 DEF ApiStep, SubmitSync, StorePending, Enqueue, EnqueueFails, Poll,
         FetchReport, Expire, FreshInv, TypeOK
    <2>2. ASSUME NEW w \in Worker, NEW s \in Slot, CoroutineStep(w, s)
          PROVE  status'[i] # "pending"
      BY <1>1, <2>0, <2>2 DEF CoroutineStep, Advance, MarkRunning, Audit, InsertContract, InsertReport,
         Commit, Announce, MarkFailed, Retry, Progress, DatabaseError, TypeOK
    <2>3. ASSUME NEW w \in Worker, Receive(w) \/ Ack(w) \/ Reap(w) \/ WorkerFault(w)
          PROVE  status'[i] # "pending"
      BY <1>1, <2>0, <2>3, ProcessKeeps
    <2>. QED
      BY <1>1, <2>1, <2>2, <2>3 DEF Next, CoroutineStep
  <1>2. FreshInv /\ [Next]_vars =>
          [\A j \in Job : status[j] \in {"running", "complete", "failed"}
                         => status'[j] # "pending"]_vars
    BY <1>1
  <1>. QED
    BY <1>2, FreshInvariant, PTL DEF Spec, PendingIsFirst

-----------------------------------------------------------------------------
(* Refinement: every step is a step of AuditService, or none *)

\* The promise to a job depends on its report, its messages and its caller.
LEMMA OwedStays ==
  ASSUME NEW i \in Job, reports'[i] > 0 <=> reports[i] > 0,
         Outstanding(i)' <=> Outstanding(i), NotAccepted(i)' <=> NotAccepted(i)
  PROVE  Owed'[i] = Owed[i]
  BY DEF Owed

\* One job's promise changes, in one of the ways AuditService allows.
LEMMA OwedTurns ==
  ASSUME NEW j \in Job, \A i \in Job : i # j => Owed'[i] = Owed[i],
         \/ Owed'[j] = Owed[j]
         \/ Owed[j] = "unknown" /\ Owed'[j] = "accepted"
         \/ Owed[j] \in {"accepted", "abandoned"} /\ Owed'[j] = "reported"
         \/ Owed[j] = "accepted" /\ Owed'[j] = "abandoned"
  PROVE  [Service!Next]_Owed
  <1>1. Owed = [i \in Job |-> Owed[i]] /\ Owed' = [i \in Job |-> Owed'[i]]
    BY DEF Owed
  <1>2. CASE Owed'[j] = Owed[j]
    BY <1>1, <1>2
  <1>3. Owed' = [Owed EXCEPT ![j] = Owed'[j]]
    BY <1>1
  <1>4. CASE Owed[j] = "unknown" /\ Owed'[j] = "accepted"
    BY <1>3, <1>4 DEF Service!Next, Service!Accept, Service!Turn
  <1>5. CASE Owed[j] \in {"accepted", "abandoned"} /\ Owed'[j] = "reported"
    BY <1>3, <1>5 DEF Service!Next, Service!Report, Service!Turn
  <1>6. CASE Owed[j] = "accepted" /\ Owed'[j] = "abandoned"
    BY <1>3, <1>6 DEF Service!Next, Service!Abandon, Service!Turn
  <1>. QED
    BY <1>2, <1>4, <1>5, <1>6

\* Publishing a job's first message is Accept; no other call of the API and its
\* clients changes a promise.
LEMMA ApiRefines ==
  ASSUME AcceptInv, NEW j \in Job, ApiStep(j)
  PROVE  [Service!Next]_Owed
  <1>0. TypeOK
    BY DEF AcceptInv
  <1>1. /\ UNCHANGED <<task, reports>>
        /\ \A i \in Job : i # j => caller'[i] = caller[i]
        /\ \A m \in Job \X Attempt : queue'[m] # queue[m] => Enqueue(j) /\ m = <<j, 0>>
    BY <1>0, ApiKeeps
  <1>2. \A i \in Job : i # j => Owed'[i] = Owed[i]
    <2>. SUFFICES ASSUME NEW i \in Job, i # j PROVE Owed'[i] = Owed[i]
      OBVIOUS
    <2>1. \A n \in Attempt : queue'[<<i, n>>] = queue[<<i, n>>]
      BY <1>1
    <2>2. Outstanding(i)' <=> Outstanding(i)
      BY <1>1, <2>1 DEF Outstanding
    <2>3. NotAccepted(i)' <=> NotAccepted(i)
      BY <1>1 DEF NotAccepted
    <2>. QED
      BY <1>1, <2>2, <2>3, OwedStays
  <1>3. CASE Enqueue(j)
    <2>1. NotAccepted(j) /\ ~NotAccepted(j)' /\ queue'[<<j, 0>>] > 0 /\ 0 \in Attempt
      BY <1>0, <1>3, MaxRetriesAssumption DEF Enqueue, NotAccepted, TypeOK
    <2>2. reports[j] = 0 /\ ~Outstanding(j)
      BY <2>1, UntouchedIsIdle DEF AcceptInv, Untouched
    <2>3. Owed[j] = "unknown"
      BY <2>1, <2>2 DEF Owed
    <2>4. Outstanding(j)' /\ reports'[j] = 0
      BY <1>1, <2>1, <2>2 DEF Outstanding
    <2>5. Owed'[j] = "accepted"
      BY <2>4 DEF Owed
    <2>. QED
      BY <1>2, <2>3, <2>5, OwedTurns
  <1>4. CASE ~Enqueue(j)
    <2>1. \A n \in Attempt : queue'[<<j, n>>] = queue[<<j, n>>]
      BY <1>1, <1>4
    <2>2. Outstanding(j)' <=> Outstanding(j)
      BY <1>1, <2>1 DEF Outstanding
    <2>3. NotAccepted(j)' <=> NotAccepted(j)
      BY <1>0, <1>4 DEF ApiStep, SubmitSync, StorePending, EnqueueFails, Poll, FetchReport, Expire,
         NotAccepted, TypeOK
    <2>4. Owed'[j] = Owed[j]
      BY <1>1, <2>2, <2>3, OwedStays
    <2>. QED
      BY <1>2, <2>4, OwedTurns
  <1>. QED
    BY <1>3, <1>4

\* A commit is Report, of a job that was accepted; a retry's message takes the
\* place of the one its process still holds.
LEMMA CoroutineRefines ==
  ASSUME AcceptInv, NEW w \in Worker, NEW s \in Slot, CoroutineStep(w, s)
  PROVE  [Service!Next]_Owed
  <1>. DEFINE j == coro[w][s].job
  <1>0. TypeOK
    BY DEF AcceptInv
  <1>1. UNCHANGED <<caller, task>> /\ task[w] \in Task /\ j \in Job
    BY <1>0, CoroutineKeeps
  <1>2. /\ \A i \in Job : i # j => reports'[i] = reports[i]
        /\ \A i \in Job : reports[i] > 0 => reports'[i] > 0
        /\ \A m \in Job \X Attempt : m[1] # task[w].job => queue'[m] = queue[m]
    BY <1>0, CoroutineWrites
  <1>3. \A i \in Job : Outstanding(i)' <=> Outstanding(i)
    <2>. SUFFICES ASSUME NEW i \in Job PROVE Outstanding(i)' <=> Outstanding(i)
      OBVIOUS
    <2>1. CASE task[w].job = i
      BY <1>1, <2>1 DEF Outstanding
    <2>2. CASE task[w].job # i
      <3>1. \A n \in Attempt : queue'[<<i, n>>] = queue[<<i, n>>]
        BY <1>2, <2>2
      <3>. QED
        BY <1>1, <3>1 DEF Outstanding
    <2>. QED
      BY <2>1, <2>2
  <1>4. \A i \in Job : NotAccepted(i)' <=> NotAccepted(i)
    BY <1>1 DEF NotAccepted
  <1>5. \A i \in Job : i # j => Owed'[i] = Owed[i]
    BY <1>2, <1>3, <1>4, OwedStays
  <1>6. ~NotAccepted(j)
    BY <1>1 DEF AcceptInv, Untouched
  <1>7. CASE reports'[j] > 0 <=> reports[j] > 0
    <2>1. Owed'[j] = Owed[j]
      BY <1>1, <1>3, <1>4, <1>7, OwedStays
    <2>. QED
      BY <1>1, <1>5, <2>1, OwedTurns
  <1>8. CASE reports'[j] > 0 /\ ~(reports[j] > 0)
    <2>1. Owed[j] \in {"accepted", "abandoned"} /\ Owed'[j] = "reported"
      BY <1>1, <1>6, <1>8 DEF Owed
    <2>. QED
      BY <1>1, <1>5, <2>1, OwedTurns
  <1>. QED
    BY <1>1, <1>2, <1>7, <1>8

\* A process that loses its message abandons the job, unless it is reported,
\* queued again or held by another process.
LEMMA ProcessRefines ==
  ASSUME AcceptInv, NEW w \in Worker, Receive(w) \/ Ack(w) \/ Reap(w) \/ WorkerFault(w)
  PROVE  [Service!Next]_Owed
  <1>0. TypeOK
    BY DEF AcceptInv
  <1>1. /\ UNCHANGED <<caller, reports>>
        /\ \A i \in Job : Outstanding(i)' => Outstanding(i)
        /\ \A i \in Job : i # task[w].job /\ Outstanding(i) => Outstanding(i)'
    BY <1>0, ProcessKeeps
  <1>2. \A i \in Job : NotAccepted(i)' <=> NotAccepted(i)
    BY <1>1 DEF NotAccepted
  <1>3. \A i \in Job : i # task[w].job => Owed'[i] = Owed[i]
    BY <1>1, <1>2, OwedStays
  <1>4. ASSUME NEW j \in Job, j = task[w].job, ~Outstanding(j)'
        PROVE  [Service!Next]_Owed
    <2>1. Outstanding(j) /\ ~NotAccepted(j)
      BY <1>4 DEF Outstanding, AcceptInv, Untouched
    <2>2. CASE reports[j] > 0
      <3>1. Owed'[j] = Owed[j]
        BY <1>1, <1>4, <2>2 DEF Owed
      <3>. QED
        BY <1>3, <1>4, <3>1, OwedTurns
    <2>3. CASE ~(reports[j] > 0)
      <3>1. Owed[j] = "accepted"
        BY <1>4, <2>1, <2>3 DEF Owed
      <3>2. Owed'[j] = "abandoned"
        BY <1>1, <1>2, <1>4, <2>1, <2>3 DEF Owed
      <3>. QED
        BY <1>3, <1>4, <3>1, <3>2, OwedTurns
    <2>. QED
      BY <2>2, <2>3
  <1>5. ASSUME NEW j \in Job, j = task[w].job, Outstanding(j)'
        PROVE  [Service!Next]_Owed
    <2>1. Owed'[j] = Owed[j]
      BY <1>1, <1>2, <1>5, OwedStays
    <2>. QED
      BY <1>3, <1>5, <2>1, OwedTurns
  <1>6. CASE task[w].job \notin Job
    <2>1. \A i \in Job : Owed'[i] = Owed[i]
      BY <1>3, <1>6
    <2>2. Owed' = Owed
      BY <2>1 DEF Owed
    <2>. QED
      BY <2>2
  <1>. QED
    BY <1>4, <1>5, <1>6

\* Theorem: seen from outside, queue, workers and database do what AuditService
\* says: a job that was accepted is reported or abandoned, nothing is reported
\* that was not accepted, and a report stays.  (Fairness is left to the model
\* checker.)
THEOREM ServiceImplemented == Spec => Service!Spec
  <1>1. Init => Service!Init
    <2>. SUFFICES ASSUME Init PROVE Owed = [j \in Job |-> "unknown"]
      BY DEF Service!Init
    <2>. SUFFICES ASSUME NEW j \in Job PROVE Owed[j] = "unknown"
      BY DEF Owed
    <2>1. NotAccepted(j) /\ Untouched(j)
      BY NoJobAssumption DEF Init, NotAccepted, Untouched
    <2>2. reports[j] = 0 /\ ~Outstanding(j)
      BY <2>1, UntouchedIsIdle DEF Untouched
    <2>. QED
      BY <2>1, <2>2 DEF Owed
  <1>2. AcceptInv /\ [Next]_vars => [Service!Next]_Owed
    <2>. SUFFICES ASSUME AcceptInv, [Next]_vars PROVE [Service!Next]_Owed
      OBVIOUS
    <2>1. CASE UNCHANGED vars
      <3>1. Owed' = Owed
        BY <2>1 DEF vars, Owed, Outstanding, NotAccepted
      <3>. QED
        BY <3>1
    <2>2. CASE Next
      BY <2>2, ApiRefines, CoroutineRefines, ProcessRefines DEF Next, CoroutineStep
    <2>. QED
      BY <2>1, <2>2
  <1>. QED
    BY <1>1, <1>2, AcceptInvariant, PTL DEF Spec, Service!Spec

-----------------------------------------------------------------------------
(* Runs without faults *)

\* Faults are counted, never forgotten.
LEMMA FaultsStay ==
  ASSUME TypeOK, [Next]_vars, faults' = 0
  PROVE  /\ faults = 0
         /\ \A w \in Worker : ~WorkerFault(w)
         /\ \A j \in Job : ~Expire(j)
  <1>1. faults \in Nat
    BY MaxFaultsAssumption DEF TypeOK
  <1>2. \A w \in Worker : ~WorkerFault(w)
    BY <1>1 DEF WorkerFault, SoftLimit, ChildKilled, WorkerKilled
  <1>3. \A j \in Job : ~Expire(j)
    BY <1>1 DEF Expire
  <1>4. \A j \in Job : ApiStep(j) => faults = 0
    BY <1>1 DEF ApiStep, SubmitSync, StorePending, Enqueue, EnqueueFails, Poll, FetchReport, Expire
  <1>5. \A w \in Worker, s \in Slot : CoroutineStep(w, s) => faults = 0
    <2>. SUFFICES ASSUME NEW w \in Worker, NEW s \in Slot, CoroutineStep(w, s) PROVE faults = 0
      OBVIOUS
    <2>1. CASE MarkRunning(w, s) \/ Audit(w, s) \/ InsertContract(w, s) \/ InsertReport(w, s)
      BY <1>1, <2>1 DEF MarkRunning, Audit, InsertContract, InsertReport
    <2>2. CASE Commit(w, s) \/ Announce(w, s) \/ MarkFailed(w, s) \/ Retry(w, s)
      BY <1>1, <2>2 DEF Commit, Announce, MarkFailed, Retry
    <2>3. CASE Progress(w, s) \/ DatabaseError(w, s)
      BY <1>1, <2>3 DEF Progress, DatabaseError
    <2>. QED
      BY <2>1, <2>2, <2>3 DEF CoroutineStep, Advance
  <1>6. \A w \in Worker : Receive(w) \/ Ack(w) \/ Reap(w) => faults = 0
    BY DEF Receive, Ack, Reap
  <1>. QED
    BY <1>2, <1>3, <1>4, <1>5, <1>6 DEF Next, CoroutineStep, vars

\* Without faults the coroutine that moves is its process's own, it runs its
\* job, and its step starts no other run.
LEMMA OwnStep ==
  ASSUME TypeOK, OwnCoroutine, NEW w \in Worker, NEW s \in Slot, CoroutineStep(w, s)
  PROVE  /\ s = "own" /\ task[w].job \in Job /\ coro[w]["own"].job = task[w].job
         /\ Runs(w, task[w].job) /\ UNCHANGED task
         /\ \A v \in Worker : v # w => coro'[v]["own"] = coro[v]["own"]
         /\ \A v \in Worker, i \in Job : Runs(v, i)' => Runs(v, i)
         /\ OwnCoroutine'
  <1>1. /\ UNCHANGED task
        /\ task[w] \in Task /\ coro[w]["own"].pc # "end" /\ coro[w][s] \in Coroutine
        /\ \A v \in Worker, t \in Slot : ~(v = w /\ t = s) => coro'[v][t] = coro[v][t]
        /\ \A v \in Worker, t \in Slot : coro'[v][t].job = coro[v][t].job
        /\ coro'[w][s] \in Coroutine
    BY CoroutineKeeps
  <1>2. s = "own"
    <2>1. coro[w][s].pc # "none"
      BY <1>1
    <2>. QED
      BY <2>1 DEF OwnCoroutine
  <1>3. Runs(w, task[w].job) /\ \A v \in Worker, i \in Job : Runs(v, i)' => Runs(v, i)
    BY <1>1, <1>2 DEF Runs
  <1>4. OwnCoroutine'
    BY <1>1, <1>2 DEF OwnCoroutine
  <1>. QED
    BY <1>1, <1>2, <1>3, <1>4 DEF OwnCoroutine

\* With the queue as it is, fewer runs are still one at a time.
LEMMA FewerRuns ==
  ASSUME OneExecution, queue' = queue,
         \A v \in Worker, i \in Job : Runs(v, i)' => Runs(v, i)
  PROVE  OneExecution'
  BY DEF OneExecution

LEMMA ExecutionStep == ExecutionInv /\ [Next]_vars => ExecutionInv'
  <1>. SUFFICES ASSUME ExecutionInv, [Next]_vars, faults' = 0
                PROVE  OwnCoroutine' /\ OneExecution'
    BY AcceptStep DEF ExecutionInv
  <1>. USE NoJobAssumption
  <1>0. TypeOK /\ TypeOK' /\ AcceptInv /\ faults = 0 /\ OwnCoroutine /\ OneExecution
    BY TypeStep, FaultsStay DEF ExecutionInv, AcceptInv
  <1>1. ASSUME NEW j \in Job, ApiStep(j) PROVE OwnCoroutine' /\ OneExecution'
    <2>1. /\ UNCHANGED <<task, coro>>
          /\ \A m \in Job \X Attempt : queue'[m] # queue[m] => Enqueue(j) /\ m = <<j, 0>>
      BY <1>0, <1>1, ApiKeeps
    <2>2. OwnCoroutine' /\ \A v \in Worker, i \in Job : Runs(v, i)' <=> Runs(v, i)
      BY <1>0, <2>1 DEF OwnCoroutine, Runs
    <2>3. CASE Enqueue(j)
      <3>1. /\ \A n \in Attempt : queue[<<j, n>>] = 0
            /\ \A v \in Worker : ~Runs(v, j)
        BY <1>0, <2>3 DEF Enqueue, AcceptInv, NotAccepted, Untouched, Runs
      <3>2. /\ queue'[<<j, 0>>] = 1
            /\ \A m \in Job \X Attempt : m # <<j, 0>> => queue'[m] = queue[m]
        BY <1>0, <2>3, <3>1, MaxRetriesAssumption DEF Enqueue, TypeOK
      <3>3. \A n \in Attempt : queue'[<<j, n>>] = IF n = 0 THEN 1 ELSE 0
        BY <3>1, <3>2
      <3>4. \A i \in Job, n \in Attempt : i # j => queue'[<<i, n>>] = queue[<<i, n>>]
        BY <3>2
      <3>. HIDE DEF Attempt
      <3>. QED
        BY <1>0, <2>2, <3>1, <3>3, <3>4 DEF OneExecution
    <2>4. CASE ~Enqueue(j)
      <3>1. queue' = queue
        BY <1>0, <2>1, <2>4 DEF TypeOK
      <3>. QED
        BY <1>0, <2>2, <3>1, FewerRuns
    <2>. QED
      BY <2>2, <2>3, <2>4
  <1>2. ASSUME NEW w \in Worker, NEW s \in Slot, CoroutineStep(w, s)
        PROVE  OwnCoroutine' /\ OneExecution'
    <2>1. /\ s = "own" /\ Runs(w, task[w].job) /\ UNCHANGED task
          /\ \A v \in Worker, i \in Job : Runs(v, i)' => Runs(v, i)
          /\ OwnCoroutine'
      BY <1>0, <1>2, OwnStep
    <2>2. CASE queue' = queue
      BY <1>0, <2>1, <2>2, FewerRuns
    <2>3. CASE queue' # queue
      <3>1. PICK j \in Job, k \in Attempt :
               /\ j = task[w].job
               /\ queue' = [queue EXCEPT ![<<j, k>>] = @ + 1]
               /\ coro'[w]["own"].pc = "end"
        <4>1. Retry(w, s) /\ task[w].attempt < MaxRetries
          BY <1>2, <2>3 DEF CoroutineStep, Advance, MarkRunning, Audit, InsertContract,
             InsertReport, Commit, Announce, MarkFailed, Retry, Progress, DatabaseError
        <4>2. task[w] \in Task /\ coro[w]["own"] \in Coroutine
          BY <1>0, <4>1 DEF Retry, TypeOK, OwnCoroutine
        <4>3. task[w].attempt + 1 \in Attempt
          BY <4>1, <4>2, MaxRetriesAssumption
        <4>4. coro'[w]["own"].pc = "end"
          BY <1>0, <2>1, <4>1, <4>2 DEF Retry, TypeOK
        <4>. QED
          BY <4>1, <4>2, <4>3, <4>4 DEF Retry
      <3>2. /\ \A n \in Attempt : queue[<<j, n>>] = 0
            /\ \A v \in Worker : Runs(v, j) => v = w
        <4>1. \A n \in Attempt : queue[<<j, n>>] \in Nat
          BY <1>0 DEF TypeOK
        <4>. HIDE DEF Attempt
        <4>. QED
          BY <1>0, <2>1, <3>1, <4>1 DEF OneExecution
      <3>3. \A v \in Worker : ~Runs(v, j)'
        BY <2>1, <3>1, <3>2 DEF Runs
      <3>4. /\ queue'[<<j, k>>] = 1
            /\ \A m \in Job \X Attempt : m # <<j, k>> => queue'[m] = queue[m]
        BY <1>0, <3>1, <3>2 DEF TypeOK
      <3>5. \A n \in Attempt : queue'[<<j, n>>] = IF n = k THEN 1 ELSE 0
        BY <3>2, <3>4
      <3>6. \A i \in Job, n \in Attempt : i # j => queue'[<<i, n>>] = queue[<<i, n>>]
        BY <3>4
      <3>. HIDE DEF Attempt
      <3>. QED
        BY <1>0, <2>1, <3>3, <3>5, <3>6 DEF OneExecution
    <2>. QED
      BY <2>2, <2>3
  <1>3. ASSUME NEW w \in Worker, Receive(w) PROVE OwnCoroutine' /\ OneExecution'
    <2>1. PICK m \in Job \X Attempt :
             /\ task[w] = NoTask
             /\ queue[m] > 0
             /\ queue' = [queue EXCEPT ![m] = @ - 1]
             /\ task' = [task EXCEPT ![w] = [job |-> m[1], attempt |-> m[2]]]
             /\ coro' = [coro EXCEPT ![w]["own"] = [job |-> m[1], pc |-> "enter"]]
      BY <1>3 DEF Receive
    <2>2. PICK j \in Job, k \in Attempt : m = <<j, k>>
      OBVIOUS
    <2>3. /\ \A v \in Worker : v # w => task'[v] = task[v] /\ coro'[v] = coro[v]
          /\ task'[w] = [job |-> j, attempt |-> k]
          /\ coro'[w]["own"] = [job |-> j, pc |-> "enter"]
          /\ coro'[w]["stray"] = coro[w]["stray"]
      BY <1>0, <2>1, <2>2 DEF TypeOK
    <2>4. OwnCoroutine'
      BY <1>0, <2>3 DEF OwnCoroutine
    <2>5. \A i \in Job, n \in Attempt : queue[<<i, n>>] \in Nat
      BY <1>0 DEF TypeOK
    <2>6. \A v \in Worker, i \in Job : Runs(v, i)' <=> Runs(v, i) \/ (v = w /\ i = j)
      BY <2>1, <2>3 DEF Runs
    <2>7. /\ queue[<<j, k>>] = 1
          /\ \A n \in Attempt : n # k => queue[<<j, n>>] = 0
          /\ \A v \in Worker : ~Runs(v, j)
      <3>. HIDE DEF Attempt
      <3>. QED
        BY <1>0, <2>1, <2>2, <2>5 DEF OneExecution
    <2>8. /\ \A n \in Attempt : queue'[<<j, n>>] = 0
          /\ \A i \in Job, n \in Attempt : i # j => queue'[<<i, n>>] = queue[<<i, n>>]
      BY <1>0, <2>1, <2>2, <2>7 DEF TypeOK
    <2>9. OneExecution'
      <3>. HIDE DEF Attempt
      <3>. QED
        BY <1>0, <2>6, <2>7, <2>8 DEF OneExecution
    <2>. QED
      BY <2>4, <2>9
  <1>4. ASSUME NEW w \in Worker, Ack(w) PROVE OwnCoroutine' /\ OneExecution'
    <2>1. /\ \A v \in Worker : v # w => task'[v] = task[v] /\ coro'[v] = coro[v]
          /\ task'[w] = NoTask /\ coro'[w]["own"] = NoCoro
          /\ coro'[w]["stray"] = coro[w]["stray"] /\ queue' = queue
      BY <1>0, <1>4 DEF Ack, TypeOK
    <2>2. OwnCoroutine'
      BY <1>0, <2>1 DEF OwnCoroutine
    <2>3. \A v \in Worker, i \in Job : Runs(v, i)' => Runs(v, i)
      BY <2>1 DEF Runs
    <2>. QED
      BY <1>0, <2>1, <2>2, <2>3, FewerRuns
  <1>5. ASSUME NEW w \in Worker, Reap(w) PROVE FALSE
    BY <1>0, <1>5 DEF Reap, OwnCoroutine
  <1>6. CASE UNCHANGED vars
    BY <1>0, <1>6, FewerRuns DEF vars, OwnCoroutine, Runs
  <1>. QED
    BY <1>0, <1>1, <1>2, <1>3, <1>4, <1>5, <1>6, FaultsStay DEF Next, CoroutineStep

LEMMA ExecutionInit == Init => ExecutionInv
  <1>. SUFFICES ASSUME Init PROVE ExecutionInv
    OBVIOUS
  <1>1. AcceptInv
    BY NoJobAssumption, TypeInit DEF Init, AcceptInv, NotAccepted, Untouched
  <1>2. OwnCoroutine
    BY DEF Init, OwnCoroutine
  <1>3. \A j \in Job, n \in Attempt : queue[<<j, n>>] = 0
    BY DEF Init
  <1>4. \A j \in Job, w \in Worker : ~Runs(w, j)
    BY NoJobAssumption DEF Init, Runs
  <1>5. OneExecution
    <2>. HIDE DEF Attempt
    <2>. QED
      BY <1>3, <1>4 DEF OneExecution
  <1>. QED
    BY <1>1, <1>2, <1>5 DEF ExecutionInv

LEMMA ExecutionInvariant == Spec => []ExecutionInv
  BY ExecutionInit, ExecutionStep, PTL DEF Spec

\* Theorem: without faults a job is run by one coroutine at a time, retries
\* included, however many workers take messages.
THEOREM OneRunner == Spec => []SingleRunner
  <1>1. ExecutionInv => SingleRunner
    <2>. SUFFICES ASSUME ExecutionInv, faults = 0,
                         NEW v \in Worker, NEW w \in Worker, NEW s \in Slot, NEW t \in Slot,
                         Active(v, s), Active(w, t), coro[v][s].job = coro[w][t].job
                  PROVE  v = w /\ s = t
      BY DEF SingleRunner
    <2>1. OwnCoroutine /\ OneExecution /\ TypeOK
      BY DEF ExecutionInv, AcceptInv
    <2>2. s = "own" /\ t = "own"
      BY <2>1 DEF Active, OwnCoroutine
    <2>3. /\ coro[v]["own"].job \in Job
          /\ task[v].job = coro[v]["own"].job /\ task[w].job = coro[w]["own"].job
      BY <2>1, <2>2 DEF Active, OwnCoroutine, TypeOK
    <2>4. Runs(v, task[v].job) /\ Runs(w, task[v].job)
      BY <2>2, <2>3 DEF Active, Runs
    <2>. QED
      BY <2>1, <2>2, <2>3, <2>4 DEF OneExecution
  <1>. QED
    BY <1>1, ExecutionInvariant, PTL

-----------------------------------------------------------------------------
(* A stored report ends its job *)

\* A step that leaves a job's report, messages and runs alone.
LEMMA EndKept ==
  ASSUME NEW j \in Job, ReportEnds(j), reports'[j] = reports[j],
         \A n \in Attempt : queue'[<<j, n>>] = queue[<<j, n>>],
         \A v \in Worker : Runs(v, j)' => Runs(v, j),
         \A v \in Worker : Runs(v, j)' => coro'[v]["own"].pc = coro[v]["own"].pc
  PROVE  ReportEnds(j)'
  <1>. HIDE DEF Attempt
  <1>. QED
    BY DEF ReportEnds

\* The run of a job that has not committed yet finds no report, so that only its
\* own next place matters.
LEMMA RunnerEnds ==
  ASSUME ExecutionInv, ExecutionInv', faults = 0, faults' = 0,
         NEW w \in Worker, NEW j \in Job, Runs(w, j), CoroutineStep(w, "own"),
         reports'[j] > 0 => queue' = queue /\ (Runs(w, j)' => coro'[w]["own"].pc = "announce")
  PROVE  ReportEnds(j)'
  <1>1. TypeOK /\ OwnCoroutine /\ OneExecution
    BY DEF ExecutionInv, AcceptInv
  <1>2. \A v \in Worker : Runs(v, j)' => v = w
    <2>1. \A v \in Worker : Runs(v, j)' => Runs(v, j)
      BY <1>1, OwnStep
    <2>. QED
      BY <1>1, <2>1 DEF OneExecution
  <1>3. queue' = queue => \A n \in Attempt : queue'[<<j, n>>] = 0
    <2>1. \A n \in Attempt : queue[<<j, n>>] \in Nat
      BY <1>1 DEF TypeOK
    <2>. HIDE DEF Attempt
    <2>. QED
      BY <1>1, <2>1 DEF OneExecution
  <1>. HIDE DEF Attempt
  <1>. QED
    BY <1>2, <1>3 DEF ReportEnds

\* What the run of a job does to it, action by action.
LEMMA RunStep ==
  ASSUME EndInv, ExecutionInv', faults = 0, faults' = 0,
         NEW w \in Worker, NEW j \in Job, j = task[w].job, CoroutineStep(w, "own")
  PROVE  ReportEnds(j)'
  <1>. DEFINE c == coro[w]["own"]
  <1>1. TypeOK /\ OwnCoroutine /\ ReportEnds(j) /\ ExecutionInv
    BY DEF EndInv, ExecutionInv, AcceptInv
  <1>2. /\ c \in Coroutine /\ c.job = j /\ Runs(w, j) /\ task' = task
        /\ coro'[w]["own"] \in Coroutine
    BY <1>1, OwnStep, CoroutineKeeps
  <1>3. Runs(w, j)' <=> coro'[w]["own"].pc # "end"
    BY <1>2 DEF Runs
  <1>4. c.pc # "announce" => reports[j] = 0
    BY <1>1, <1>2 DEF ReportEnds, TypeOK
  <1>5. CASE Commit(w, "own")
    <2>1. coro'[w]["own"].pc = "announce" /\ queue' = queue
      BY <1>1, <1>5 DEF Commit, TypeOK
    <2>. QED
      BY <1>1, <1>2, <2>1, RunnerEnds
  <1>6. CASE Announce(w, "own")
    <2>1. coro'[w]["own"].pc = "end" /\ queue' = queue
      BY <1>1, <1>2, <1>6 DEF Announce, TypeOK
    <2>. QED
      BY <1>1, <1>2, <1>3, <2>1, RunnerEnds
  <1>7. CASE Advance(w, "own") /\ ~Commit(w, "own") /\ ~Announce(w, "own")
    <2>1. reports' = reports /\ c.pc # "announce"
      BY <1>7 DEF Advance, MarkRunning, Audit, InsertContract, InsertReport, MarkFailed, Retry
    <2>. QED
      BY <1>1, <1>2, <1>4, <2>1, RunnerEnds
  <1>8. CASE Progress(w, "own") \/ DatabaseError(w, "own")
    <2>1. reports' = reports /\ c.pc # "announce"
      BY <1>8 DEF Progress, DatabaseError
    <2>. QED
      BY <1>1, <1>2, <1>4, <2>1, RunnerEnds
  <1>. QED
    BY <1>5, <1>6, <1>7, <1>8 DEF CoroutineStep

LEMMA EndStep == EndInv /\ [Next]_vars => EndInv'
  <1>. SUFFICES ASSUME EndInv, [Next]_vars, faults' = 0, NEW i \in Job
                PROVE  ReportEnds(i)'
    BY ExecutionStep DEF EndInv
  <1>. USE NoJobAssumption
  <1>0. /\ TypeOK /\ AcceptInv /\ ExecutionInv /\ ExecutionInv' /\ faults = 0
        /\ OwnCoroutine /\ OneExecution /\ ReportEnds(i)
    BY FaultsStay, ExecutionStep DEF EndInv, ExecutionInv, AcceptInv
  <1>1. ASSUME NEW j \in Job, ApiStep(j) PROVE ReportEnds(i)'
    <2>1. UNCHANGED <<task, coro, reports>>
      BY <1>1 DEF ApiStep, SubmitSync, StorePending, Enqueue, EnqueueFails, Poll, FetchReport,
         Expire, database
    <2>2. CASE Enqueue(j) /\ i = j
      <3>1. Untouched(i)
        BY <1>0, <2>2 DEF AcceptInv, Enqueue, Tell, NotAccepted
      <3>2. ~(reports'[i] > 0)
        BY <2>1, <3>1 DEF Untouched
      <3>. QED
        BY <3>2 DEF ReportEnds
    <2>3. CASE ~(Enqueue(j) /\ i = j)
      <3>1. \A n \in Attempt : queue'[<<i, n>>] = queue[<<i, n>>]
        BY <1>0, <1>1, <2>3 DEF ApiStep, SubmitSync, StorePending, Enqueue, EnqueueFails, Publish,
           Poll, FetchReport, Expire, TypeOK
      <3>2. \A v \in Worker : Runs(v, i)' <=> Runs(v, i)
        BY <2>1 DEF Runs
      <3>. QED
        BY <1>0, <2>1, <3>1, <3>2, EndKept
    <2>. QED
      BY <2>2, <2>3
  <1>2. ASSUME NEW w \in Worker, NEW s \in Slot, CoroutineStep(w, s)
        PROVE  ReportEnds(i)'
    <2>1. /\ s = "own" /\ task[w].job \in Job /\ coro[w]["own"].job = task[w].job
          /\ UNCHANGED <<caller, task>>
          /\ \A v \in Worker : v # w => coro'[v]["own"] = coro[v]["own"]
      BY <1>0, <1>2, OwnStep, CoroutineKeeps
    <2>2. CASE i = task[w].job
      BY <1>0, <1>2, <2>1, <2>2, RunStep
    <2>3. CASE i # task[w].job
      <3>1. /\ reports'[i] = reports[i]
            /\ \A n \in Attempt : queue'[<<i, n>>] = queue[<<i, n>>]
        BY <1>0, <1>2, <2>1, <2>3, CoroutineWrites
      <3>2. \A v \in Worker : /\ Runs(v, i)' <=> Runs(v, i)
                              /\ Runs(v, i)' => coro'[v]["own"].pc = coro[v]["own"].pc
        BY <2>1, <2>3 DEF Runs
      <3>. QED
        BY <1>0, <3>1, <3>2, EndKept
    <2>. QED
      BY <2>2, <2>3
  <1>3. ASSUME NEW w \in Worker, Receive(w) PROVE ReportEnds(i)'
    <2>1. PICK m \in Job \X Attempt :
             /\ task[w] = NoTask
             /\ queue[m] > 0
             /\ queue' = [queue EXCEPT ![m] = @ - 1]
             /\ task' = [task EXCEPT ![w] = [job |-> m[1], attempt |-> m[2]]]
             /\ coro' = [coro EXCEPT ![w]["own"] = [job |-> m[1], pc |-> "enter"]]
             /\ UNCHANGED <<caller, status, reports>>
      BY <1>3 DEF Receive
    <2>2. PICK j \in Job, k \in Attempt : m = <<j, k>>
      OBVIOUS
    <2>3. /\ \A v \in Worker : v # w => task'[v] = task[v] /\ coro'[v] = coro[v]
          /\ task'[w].job = j /\ coro'[w]["own"].pc = "enter"
      BY <1>0, <2>1, <2>2 DEF TypeOK
    <2>5. CASE i = j
      <3>1. ~(reports[i] > 0) /\ \A v \in Worker : ~Runs(v, i)
        <4>1. queue[<<i, k>>] > 0 /\ queue[<<i, k>>] # 0
          BY <2>1, <2>2, <2>5
        <4>. HIDE DEF Attempt
        <4>. QED
          BY <1>0, <4>1 DEF ReportEnds, OneExecution
      <3>2. Runs(w, i)' /\ \A v \in Worker : Runs(v, i)' => v = w
        BY <2>3, <2>5, <3>1 DEF Runs
      <3>. QED
        BY <2>1, <2>3, <3>1, <3>2 DEF ReportEnds
    <2>6. CASE i # j
      <3>1. \A n \in Attempt : queue'[<<i, n>>] = queue[<<i, n>>]
        BY <1>0, <2>1, <2>2, <2>6 DEF TypeOK
      <3>2. \A v \in Worker : /\ Runs(v, i)' <=> Runs(v, i)
                              /\ Runs(v, i)' => coro'[v]["own"].pc = coro[v]["own"].pc
        BY <2>1, <2>3, <2>6 DEF Runs
      <3>. QED
        BY <1>0, <2>1, <3>1, <3>2, EndKept
    <2>. QED
      BY <2>5, <2>6
  <1>4. ASSUME NEW w \in Worker, Ack(w) PROVE ReportEnds(i)'
    <2>1. /\ \A v \in Worker : v # w => task'[v] = task[v] /\ coro'[v] = coro[v]
          /\ task'[w] = NoTask /\ coro[w]["own"].pc = "end"
          /\ UNCHANGED <<queue, caller, status, reports>>
      BY <1>0, <1>4 DEF Ack, TypeOK
    <2>2. \A v \in Worker : /\ Runs(v, i)' <=> Runs(v, i)
                            /\ Runs(v, i)' => coro'[v]["own"].pc = coro[v]["own"].pc
      BY <2>1 DEF Runs
    <2>. QED
      BY <1>0, <2>1, <2>2, EndKept
  <1>5. ASSUME NEW w \in Worker, Reap(w) PROVE FALSE
    BY <1>0, <1>5 DEF Reap, OwnCoroutine
  <1>6. CASE UNCHANGED vars
    BY <1>0, <1>6, EndKept DEF vars, Runs
  <1>. QED
    BY <1>0, <1>1, <1>2, <1>3, <1>4, <1>5, <1>6, FaultsStay DEF Next, CoroutineStep

\* Theorem: whether or not the workers reach Redis, a run without faults does
\* nothing more for a job whose report is stored than announce it.
THEOREM ReportedOnce == Spec => []ReportEndsTheJob
  <1>1. Init => EndInv
    <2>. SUFFICES ASSUME Init PROVE EndInv
      OBVIOUS
    <2>1. ExecutionInv /\ \A j \in Job : reports[j] = 0
      BY ExecutionInit DEF Init
    <2>. QED
      BY <2>1 DEF EndInv, ReportEnds
  <1>2. EndInv /\ [Next]_vars => EndInv'
    BY EndStep
  <1>3. EndInv => ReportEndsTheJob
    <2>. SUFFICES ASSUME EndInv, NEW j \in Job, faults = 0, reports[j] > 0
                  PROVE  /\ \A n \in Attempt : queue[<<j, n>>] = 0
                         /\ \A w \in Worker, s \in Slot :
                              coro[w][s].job = j => coro[w][s].pc \in {"announce", "end"}
      BY DEF ReportEndsTheJob
    <2>1. OwnCoroutine /\ ReportEnds(j)
      BY DEF EndInv, ExecutionInv
    <2>2. ASSUME NEW w \in Worker, NEW s \in Slot, coro[w][s].job = j
          PROVE  coro[w][s].pc \in {"announce", "end"}
      <3>1. s = "own" /\ task[w].job = j
        BY <2>1, <2>2, NoJobAssumption DEF OwnCoroutine, NoCoro, Slot
      <3>. QED
        BY <2>1, <3>1 DEF ReportEnds, Runs
    <2>. HIDE DEF Attempt
    <2>. QED
      BY <2>1, <2>2 DEF ReportEnds
  <1>. QED
    BY <1>1, <1>2, <1>3, PTL DEF Spec

-----------------------------------------------------------------------------
(* A worker that never called init_redis *)

\* No poller is ever told anything but that its job waits.
NeverTold ==
  \A j \in Job :
    /\ status[j] \in {"absent", "pending"}
    /\ caller[j] \notin {"fetching", "gotReport", "gotNothing", "gotFailed"}

\* Theorem: without a Redis client in the worker process no audit is ever
\* announced, whatever it stores: its client polls for good.
THEOREM SilentWorker ==
  ASSUME "worker" \notin RedisClients
  PROVE  Spec => []NeverTold
  <1>1. Init => NeverTold
    BY DEF Init, NeverTold
  <1>2. TypeOK /\ NeverTold /\ [Next]_vars => NeverTold'
    <2>. SUFFICES ASSUME TypeOK, NeverTold, [Next]_vars PROVE NeverTold'
      OBVIOUS
    <2>1. ASSUME NEW j \in Job, ApiStep(j) PROVE NeverTold'
      BY <2>1 DEF ApiStep, SubmitSync, StorePending, Enqueue, EnqueueFails, Poll, FetchReport,
         Expire, NeverTold, TypeOK
    <2>2. ASSUME NEW w \in Worker, NEW s \in Slot, CoroutineStep(w, s) PROVE NeverTold'
      <3>1. UNCHANGED <<caller, status>>
        BY <2>2 DEF CoroutineStep, Advance, MarkRunning, Audit, InsertContract, InsertReport,
           Commit, Announce, MarkFailed, Retry, Progress, DatabaseError
      <3>. QED
        BY <3>1 DEF NeverTold
    <2>3. ASSUME NEW w \in Worker, Receive(w) \/ Ack(w) \/ Reap(w) \/ WorkerFault(w)
          PROVE  NeverTold'
      BY <2>3, ProcessKeeps DEF NeverTold
    <2>4. CASE UNCHANGED vars
      BY <2>4 DEF vars, NeverTold
    <2>. QED
      BY <2>1, <2>2, <2>3, <2>4 DEF Next, CoroutineStep
  <1>. QED
    BY <1>1, <1>2, TypeCorrect, PTL DEF Spec
=============================================================================
