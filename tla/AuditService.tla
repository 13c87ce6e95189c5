---------------------------- MODULE AuditService ----------------------------
(***************************************************************************)
(* What the asynchronous audit API promises of a job it has accepted: the  *)
(* job is reported or given up, it is not forgotten, and a report, once    *)
(* stored, stays.  Queue, workers, retries and transactions are hidden.    *)
(***************************************************************************)
CONSTANT Job

VARIABLE verdict  \* of each job: what the service owes it or has done for it

Verdict == {"unknown", "accepted", "reported", "abandoned"}

TypeOK == verdict \in [Job -> Verdict]

Init == verdict = [j \in Job |-> "unknown"]

Turn(j, from, to) == verdict[j] \in from /\ verdict' = [verdict EXCEPT ![j] = to]

Accept(j) == Turn(j, {"unknown"}, "accepted")

\* A suspended execution may still store the report of an abandoned job.
Report(j) == Turn(j, {"accepted", "abandoned"}, "reported")

\* Retries used up, a validation error, or the process was killed.
Abandon(j) == Turn(j, {"accepted"}, "abandoned")

Next == \E j \in Job : Accept(j) \/ Report(j) \/ Abandon(j)

Spec == Init /\ [][Next]_verdict

FairSpec == Spec /\ \A j \in Job : WF_verdict(Abandon(j) \/ (verdict[j] = "accepted" /\ Report(j)))
=============================================================================
