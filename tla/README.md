# Verification of the prediction-market audit service

TLA+ models of the program in `src/`, TLC configurations that check them on
small instances, and TLAPS proofs of the properties that matter most for every
instance. Paths below are relative to `src/`.

The program audits prediction-market contracts with a set of LLM analyzers. A
client posts a contract, a Celery worker runs the pipeline and stores a scored
report, the dashboard polls for it. Beside this path, past disputes are scraped
and embedded, and outcomes of real markets are recorded and used to calibrate
the weights of the score.

    dashboard -> API -> Redis (status) ---.
                  |                        >-- polling
                  '-> Celery -> worker ---'
                                  |  parse -> analyzers -> merge -> rewrite -> score
                                  '-> PostgreSQL: contracts, reports, findings
    Beat -> scrape_disputes ----------> PostgreSQL: disputes <- backfill, labelling
    webhook, process_outcome ---------> PostgreSQL: market_outcomes
                                         -> calibrate_weights -> scoring_weights

## Inventory

| Part | State | Operations | What is hard | What makes it correct |
|---|---|---|---|---|
| Audit API and job status (`api/routers/audit.py`, `data/cache/redis_client.py`) | `job:<id>:status` in Redis, with a TTL | submit, sync or queued; status; report | status and report live in two stores; writes to Redis may be lost | "complete" implies a report; "pending" overwrites nothing |
| Audit worker (`worker/tasks/audit_task.py`, `worker/celery_app.py`) | messages, held tasks, coroutines in the process's event loop | run, retry, acknowledge; soft and hard limits | redelivery, retry, an interrupted coroutine that goes on | one report per job, every accepted job reported or given up |
| Storage (`data/database.py`, `contract_repo.py`, `models/contract.py`) | contracts, reports, findings | session with commit or rollback, create, read, delete | unknown outcome of a commit, unique constraints | no orphan contract, no second report |
| Pipeline (`core/pipeline.py`) | none across runs | parse, analyze, diff, rewrite, score, build | errors of one stage in the next | a report says what was audited |
| Analyzers and runner (`core/analyzers/`) | findings and errors of a run | six analyzers at once, timeouts, merge | failures in any order; duplicates | isolation; nothing lost in the merge |
| Scoring (`core/scoring/rcs_calculator.py`) | none | penalties, caps, label | rounding, caps | in range, monotone |
| Rewriter (`core/rewriter/clause_rewriter.py`) | feedback on each finding | rewrite, validate, retry | stale feedback, failing judge | only approved rewrites adopted |
| Dispute corpus (`data/scrapers/`, `data/embeddings/`, `scrape_task.py`, `backfill_embeddings.py`, `dispute_repo.py`) | disputes with label and embedding | scrape, upsert, embed, label | overlapping sessions, row locks, stale objects | no lost label, no foreign vector |
| Outcomes (`outcome_task.py`, `webhooks.py`, `outcome_repo.py`) | market outcomes | record, count, signal | what each kind of crash acknowledges, racing counts | an outcome lost only where an error, a limit or a discarded message says so |
| Calibration (`calibrate_weights.py`, `weights.py`) | scoring weights | read, search, deactivate and insert | two runs at once | always an active row, only one |
| Platform scrapers (`data/scrapers/*.py`) | none | page through a feed by offset or cursor, normalise | the feed grows between requests, records raise | no dispute skipped, what was read is kept |
| Parser and enrichment (`core/parser/`, `core/enrichment/`) | none | extract entities, probe sources, look up entities and disputes | malformed LLM answers, services that fail one by one | what the deterministic pass adds reaches the report, no finding is lost to a service |
| Diffs and report builder (`diff_generator.py`, `report/builder.py`) | none | word diff, rewrites into the full text | rewrites that meet in one clause, clauses found inside of words | the diff reads both ways, nothing else of the contract changes |
| LLM client (`integrations/llm/client.py`) | usage log | complete with retries and fallback, embed | retries against the analyzers' timeouts | bounded attempts |
| Request gate and routers (`api/auth/`, `api/dependencies.py`, `routers/contracts.py`, `reports.py`) | limiter windows in Redis, keys with their counts | verify, limit, answer, delete, commit, revoke | a window shared by processes whose clocks differ; a count read early and written late | at most the limit in a window, revoked keys stay out |

`PROJECT.json` lists every part, with those left out and why, and the hazards
at their lines with the property that covers each.

## Modules

| Module | Models |
|---|---|
| `AuditJob` | the job from submission to the last poll: API, Redis, queue, workers, database, faults |
| `AuditService` | what is promised of an accepted job; `AuditJob` implements it |
| `AuditPipeline` | concurrent analyzers, timeouts, deterministic checks, then `FindingMerge` and `RCS` as stages |
| `LLMClient`, `ContractParser` | one completion with its retries, backoff and second provider; what an extraction becomes |
| `AnalyzerCall` | one analyzer with the two above, its deadline and its lookups; it implements `AuditPipeline` |
| `Findings` | severities, categories, overlap of clauses, the stable sort |
| `FindingMerge` | the merge as the code's loop |
| `Scoring`, `RCS` | the score as operators over any weights; the loop over findings |
| `ClauseRewriter` | attempts, judgements and feedback |
| `ReportStages` | `ClauseRewriter` with the texts, the diffs and the builder after it |
| `Api` | requests from the key over the rate limit and the handler to the commit |
| `Scrapers` | what a run of a platform's scraper may return |
| `DisputeCorpus` | scrapes, backfills and labelling as transactions over the disputes table |
| `Calibration`, `Feedback` | the grid search; recording of outcomes and calibration as transactions |
| `MC*` | instances for TLC: constants that are not plain values, symmetry |
| `*_proofs` | theorems |

Composition: `AnalyzerCall` extends `LLMClient` and `ContractParser` and is
mapped to `AuditPipeline`; `AuditPipeline` extends `FindingMerge` and `RCS` and
runs their loops as its merge and score stages, turn by turn;
`ReportStages` runs `ClauseRewriter` and goes on from its end; `DisputeCorpus`
runs `Scrapers`, `Feedback` runs `Calibration`; `AuditJob` takes the pipeline as
one step with three kinds of end, and is mapped to `AuditService`.

**AuditJob.** An action is the code between two awaits that another process can
observe. `status` is the status field in Redis, `queue` the broker's
undelivered messages as a bag, `task` the message a process holds until it is
acknowledged, `coro` the coroutines in its event loop (a process has one loop,
`audit_task.py:67`, so a coroutine that a soft time limit interrupted is
resumed by the next task), `contracts` and `reports` the committed rows. The
actions follow `_run_audit_async` line by line: `MarkRunning`, `Progress`,
`Audit` (the pipeline, with its three kinds of end), `InsertContract`,
`InsertReport`, `Commit`, `Announce`, `MarkFailed`, `Retry`, `Ack`. Faults:
loss of a Redis write or of a key, of the answer to a commit, a soft limit, the
death of a child (the parent acknowledges for it) or of a whole worker (the
broker delivers again). `RedisClients` says which processes have called
`init_redis`: in the code the API alone.

**FindingMerge, AuditPipeline.** A clause is its set of words,
which is what `_text_overlap` compares; a percentage is compared as a product of
integers. `list.sort` is the order in which each finding stands behind those that
go before it (`SortOrder`). Besides being a specification of its own, for lists
of every kind, the loop is a stage of `AuditPipeline`: `Gather` gives it the
lists of the analyzers in their order, `Merge` is one turn of it, and `Merged`
hands its result on. `ScoreFinding` is one turn of the loop of `RCS` over that
result. In between the rewriter and the diffs change neither category, severity
nor order; they can only raise. The timeouts are nondeterministic: an analyzer
may be cancelled before it returned.

**LLMClient, ContractParser, AnalyzerCall.** Here time is counted in seconds: a
call takes any of a set of durations or until it is cut, the backoff is the
code's, and `wait_for` fires at the analyzer's own timeout. The attempts that
the providers' libraries make inside of one call are part of its duration. An
extraction is abstracted to what decides: whether it is an object, whether each
list can be iterated, which items are malformed, what a deadline phrase or a
risky term is matched by. Each analyzer's post-processing is an action of its
own; a service answers, finds nothing or raises. `ImplementsPipeline` maps all
this to one analyzer of `AuditPipeline` with the other five at their start: a
result list keeps its length and origins, a timeout or error becomes `errors`,
and calls, lookups and waiting become stutters.

**Scoring, RCS.** Penalties are in tenths of a point, so that multipliers of 1.1
and 1.2 are exact. The code sums floats and truncates; a sum that is not exact
may come out just below a whole number, so `Truncations` has both results.
The loss is real: three high and two low findings of threshold gaming deduct 44
points, their floats sum to 44.00000000000001, and 55 remain instead of 56. The
properties hold for either result.

**ClauseRewriter, ReportStages.** One finding after the other; an attempt ends
with an approval (approved and a quality of at least 3), a rejection with or
without feedback, or a failure of one of the two calls. A text is the sequence of its
characters. The diff compares tokens, the longest runs of spaces and of anything
else (`Tokens`). `difflib` is external: any alignment that no pair of equal
tokens could be added to is one it may choose. `build_report` replaces the first
occurrence of each clause, the most severe first, in what the earlier ones left:
`ApplyRewrite` is one turn of that loop and `applied` the findings that had one.
The code's `in` and `replace` know no words, so a clause "2%" is found in "12%"
and turns that word into another one; `Applied` does the same. What the
properties promise is therefore said of characters: two texts meet
(`Meets`) when some text could hold both with a character in common, a rewrite
that no other one meets arrives, a stretch of the contract that no clause meets
stays (`UnmetStays`), and no other character comes or goes. A longer word around a
clause does change.

**Api.** A request's session is one transaction: `verify_api_key` changes the
key's row in memory only, the handler's first query flushes it, `get_db` commits
it with the count that was read at the start. The limiter is the Lua script, one
step; a member's name is the time stamp of the process and a pseudo-random
number (`Tag`), so that two requests may get the same. The clocks of processes
differ by at most `Skew`. A contract has a report, since a job commits both.

**Scrapers, DisputeCorpus.** A page is what the platform has published when the
request meets it; a request fails, a record raises, or the page is short, and
what was read until then is returned. A session of `DisputeCorpus` is one
transaction. The ORM writes only changed columns, in the order of primary keys
(taken to be that of the posts), and holds the row locks until its end;
`ON CONFLICT DO NOTHING` waits for an uncommitted row of the same id. An
embedding is named by the row whose text it embeds. The scrapes are tasks of one
process (the worker of their queue runs with `--concurrency 1`), hence of one
event loop, `scrape_task.py:22`. A soft limit (`SoftLimit`) ends the task but
leaves its coroutine suspended in that loop, with its transaction open and its
rows locked, until a later task runs the loop (`InLoop`); what it has sent to the
database goes on without the loop. The hard limit and the death of the process
take suspended scrapes with them (`Fails`). Bound: no seed run meets a suspended
scrape, and labelling comes after it; to both of them it is a slow scrape.
Abstracted: the upsert takes
its locks in one step (two scrapes that insert the same ids in opposite orders
may deadlock in it and one of them rolls back), the reason and text columns,
how many platforms there are (one feed stands for all), and that the seed embeds
up to 2000 rows where the scrape embeds 500.

**Feedback.** Each delivery is one market outcome, a message of the
`process_outcome` task or a request to the endpoint. A pool process runs its
task as one coroutine and may have another, left by a soft limit (`Own`,
`Stray`). `Importing` is the set of processes that know the task. In the code
it is empty: `celery_app.py:21` includes `audit_task` and `scrape_task` only and
nothing imports `outcome_task`, so a worker started from this app discards the
task's messages as unregistered (`Discard`). The model has processes of both
kinds, since the task is written to be run and a worker that imports it is the
harder case. Acknowledgement is late but without `task_reject_on_worker_lost`:
an error, the soft limit (`RecordFails`, `SoftLimit`) and a child that dies or
meets the hard limit (`ChildKilled`) all acknowledge, and what was not committed
is lost, unless a stray coroutine still commits it. Only when the whole worker
dies is the message delivered again (`WorkerKilled`). `lost` collects what
was discarded or cut. `overlapped` and `disturbed` are history variables that name the circumstances of two properties. The clock
moves with `Deactivate`, where the version is named; row locks of one UPDATE are
taken together.

## Runs

| Run | Question | Instance |
|---|---|---|
| `AuditJob_jobs` | do statuses tell the truth, is a job stored once, run by one process and over once stored, does "pending" come first, is `AuditService` implemented, whatever is lost or interrupted? | 2 jobs, 2 workers whose status writes arrive, 1 retry, 1 fault |
| `AuditJob_status` | (violation) is a settled job announced? | Redis clients as in the code |
| `FindingMerge_lists` | does the loop lose nothing, invent nothing and leave no duplicate? | all lists of up to 3 findings over a chain of overlapping clauses |
| `RCS_default` | is the score bounded, capped and monotone? | up to 8 findings, default weights |
| `AuditPipeline_report` | are failures isolated, do deterministic findings arrive, does it end? | 3 analyzers, every answer and timeout |
| `AuditPipeline_perfect` | (violation) does a perfect score mean audited? | the same |
| `AnalyzerCall_budget` | does backoff fit the timeouts, is nothing lost to a failing service, is a deadline phrase reported, is `AuditPipeline` implemented? | the timeouts, attempts and backoff of the code; calls of 0 or 5 s or cut, services of 0 or 12 s; 5 extractions, one for each kind of defect, 4 answers |
| `ReportStages_report` | are rewrites judged, is feedback fresh, do the diffs read both ways, what happens to the rest of the contract? | 2 findings, 3 attempts, the contract `12 a 2`, clauses that occur first inside a word, between spaces, not at all or are empty |
| `Api_requests` | does the limit hold, are refusals earned, counts right, revoked keys out? | 3 requests, a key and the master key, limit 2 in a window of 2, clocks 1 apart, 2 tags, 1 fault |
| `Api_delete` | (violation) does the deletion of a contract work? | the same without faults |
| `DisputeCorpus_sessions` | do overlapping sessions keep labels, records, vectors? | a feed of 4 posts with 2 disputes, pages of 2; a repeated scrape, a seed, a backfill in batches of 1, a labeller, 1 fault (an end or a suspended scrape) |
| `Feedback_loop` | are outcomes kept and weights always active? | 2 outcomes, a process that knows the task and one that does not, a request, 2 calibrations in the same minute or in two, 1 fault |

Why these bounds are enough to meet the interesting cases. Two jobs and two
workers: one job can be retried by one process while the other runs a second
delivery of it, and a stray coroutine of one job can wake up inside the other's
task. One retry: both the branch that publishes again and the one that gives up.
One fault meets each step. Three findings: a chain in which the
middle one overlaps both neighbours and they do not overlap. Eight findings
reach a deduction of more than 100 and every cap. Calls of 5 seconds fill every
timeout in the last attempts, in a call as well as in a backoff. Two rewrites
are the least that can meet in one clause, and in `12 a 2` the clause `2` stands
alone only behind the word it is found in. Three requests and a limit of two:
one is refused, and with a clock that goes past the window one passes after
others have left it. Two disputes that are never on one page and a post that
raises: a scrape may return none, one or both; stored without embeddings, and
embedded in batches of one, they are the smallest case in which a backfill can
deadlock with a scrape. A scrape's limit of two never cuts
with two disputes; a limit of one, which would, leaves batches of one only, in
which nothing can get out of step. With one fault no process that holds a
suspended scrape is killed; the proofs cover that. A threshold and a limit of two
are the boundary where the listing of outcomes saturates.

The largest runs have 1,222,039 (`ReportStages_report`), 895,516
(`DisputeCorpus_sessions`), 160,402 (`AuditJob_jobs`) and 64,170 (`Feedback_loop`)
distinct states.

Deadlock is not checked where a finished system stops.

## Fairness

Weak fairness only, of steps the code takes on its own: a worker process takes
messages and runs the task it holds (all the pipeline's calls have timeouts or
attempts that are counted), an open transaction goes on, Beat starts the scrape
again. Nothing is assumed of clients that submit or poll, of a stray
coroutine (its loop runs only while the next task does), of somebody running
a script, or of faults. The scrapes share one loop, so together they have one
fairness condition: some coroutine that can go on does. Where a fault excuses a promise the property says so.
Deadlocks are ended by PostgreSQL, whose abort is a fair action.
`ImplementsService` is checked with one fault: a stray coroutine can hold an
uncommitted report row that a second execution of the job waits for, which with
more faults only a further time limit ends.

Whether workers reach Redis. In the code they do not, and then a queued job's
status never leaves "pending": `AuditJob_status` shows it, and `SilentWorker`
proves it for every instance. So nothing is claimed of what a poll gets in the
end, not even that polling ends: a dashboard that waits for a queued job waits for
ever. `AuditJob_jobs` lets the writes arrive, because that is where
`CompletionIsReal` and `PendingIsFirst` could fail; a worker whose writes are
lost has fewer statuses to get wrong. None of the run's other properties mentions
a status, and every theorem of `AuditJob_proofs` but `SilentWorker`
holds for any set of Redis clients. `AnalyzerCall` and `Api`
state safety only: a call ends by its timeout, a request by its answer, and
neither waits for another but in the database.

## Disagreements found

Three, each shown by a run and quoted in `PROJECT.json`:
the worker never initialises Redis, so no status after "pending" is ever written
(`AuditJob_status`); an audit whose analyzers all failed scores 100
(`AuditPipeline_perfect`); a contract that has reports cannot be deleted
(`Api_delete`).

Two more behaviours the models have and the properties are stated around: "failed"
is shown while a retry waits, and the dashboard stops there (`AuditJob`); two
overlapping calibrations may leave two active rows, which is why
`OneActiveUnlessOverlapping` has its condition (`Feedback`).

Others, met while reading and kept here because they are plain at the line:
`audit_task.py:7` announces an event loop per task, l. 67 reuses the process's;
`celery_app.py:31` calls redelivery safe, but after a commit it fails on the
unique `job_id` and writes "failed" over "complete";
`analyzers/runner.py:151` promises to keep "more evidence", the loop keeps the
first of equal severity;
`clause_rewriter.py:141` means to approve when the validator is down, l. 55 asks
for a quality the default does not have;
`outcome_task.py:29` sets a number of retries that nothing asks for;
`celery_app.py:21` does not include that task, l. 31 calls its acknowledgement safe
and yet a child that is killed loses the outcome;
`report/builder.py:97` looks for clauses inside of words;
`calibrate_weights.py:113` unpacks `None` when no combination was ever right,
which a single outcome with one critical finding brings about (cap 50, test
`< 50`); `backfill_embeddings.py:117` continues after a failed flush with a
session that can only roll back; `client.py` waits a last backoff before it gives
a provider up; migration 004 makes `embedding` a `vector` column where the ORM
writes JSON (the model takes the ORM's column).

## What is proved

With TLAPS, for every value of the constants that satisfies the named
assumptions (at least one of anything that must exist, numbers natural):

- `AuditJob_proofs`: type correctness; `CompletionIsReal` and
  `OneReportPerJob`, from `ReportInv`: a coroutine about to announce has
  committed (`Announced`), and an uncommitted report row excludes any other of
  its job (`RowLocked`), which is the UNIQUE constraint and its lock. The two
  properties alone are not inductive, since they say nothing about a coroutine
  between insert and commit. `PendingIsFirst`, from `FreshInv`: before the
  message is published no queue, process or coroutine knows the job.
  `SingleRunner`, from `ExecutionInv`: without faults every coroutine is its
  process's own (`OwnCoroutine`), and a job has one message or one process that
  is not through with it, never both and never two (`OneExecution`); a retry is
  published by the step that ends its attempt. `ReportEndsTheJob`, from
  `EndInv`: without faults a stored report leaves only the announcement to do
  (`ReportEnds`), also when that reaches nobody, since its error stays in the helper.
  `SilentWorker` is about the code as it is: without the worker among the Redis
  clients no job ever shows anything but "pending" or nothing, which is the
  finding of `AuditJob_status` for any number of jobs, processes, retries and
  faults. `ServiceImplemented` is the
  refinement of `AuditService` but for fairness, step by step; it needs
  `AcceptInv` (a job not accepted is nowhere) to show that what was unknown is
  accepted only by its publication.
- `AnalyzerCall_proofs`: type correctness, `RequestsBounded` and
  `OnlySlownessTimesOut`, for any timeouts and number of attempts. The invariant
  `CallInv` adds that the clock of `wait_for` is at most the time in calls and
  one bounded backoff for each attempt that is over (`TimeSpent`, where all of
  Anthropic's count once OpenAI is asked), and that requests and attempts go
  together (`RequestsSent`). `LookupsLoseNothing` and `DeadlineReported`, from
  `FindingsInv`: every phrase of the text is covered by a parsed time reference
  (`PhrasesCovered`, which is what `ParserCovers` shows of the parser), and what
  an analyzer holds is the LLM's list until it returns (`FindingsHeld`).
  `PipelineImplemented`: `ImplementsPipeline`, whole, since neither side states
  fairness. `CallAssumption` says of the constants that the items an extraction
  keeps have been through a constructor that validates them, and that a text has
  finitely many phrases.
- `Api_proofs`: type correctness; `WithinLimit` and `RefusedMeansFull` from
  `LimitInv`, which relates what the script let pass to what Redis still holds:
  what passed within the window less the skew is still a member
  (`Remembered`), every member has passed at about its score (`Earned`), and a
  bucket never holds more than the limit (`BucketBounded`). `RevokedStaysOut`:
  a write of a row never sets `is_active`. `CountsServed` from `CountInv`: a
  request read no more than was served, and what is still stored unless another
  one overlapped (`ReadsCurrent`).
- `DisputeCorpus_proofs`: type correctness, `VectorsMatch`, `LabelsStay` and
  `ScrapedIsStored`, for any number of sessions and faults, from `CorpusInv`: no
  row is changed in two open transactions (`Exclusive`, the row lock), vectors
  are right already on their way (`VectorsUnderWay`), what embeds a row writes
  its label as it is stored (`LabelsKept`, which needs the lock), and what a
  finder found is there once upserted (`FoundIsThere`). It holds of suspended
  scrapes too, and the end of any set of sessions keeps it (`CloseKeeps`). Of `Scrapers`:
  `NoDisputeIsSkipped`, that offsets into a feed that grows between the requests
  skip no dispute. Its proof takes the first request whose page reaches down to
  the post: by the request before, the post was further down than that page, so
  it is not above this one.
- `FindingMerge_proofs`: type correctness, and from `MergeInv` that the result has
  no duplicates, is sorted and has lost nothing, for any list. The invariant adds
  that what remains is sorted and not more severe than what is kept.
  `NothingInvented`, from `OriginInv`: the list still to be merged holds only
  what was found (`OnlyFound`), and each entry is one of those with evidence that
  its category brought (`MadeOf`). The sort itself is `SortIsStable`: the places
  of the findings (one more than the number that go before) are pairwise
  different, so by the pigeonhole principle each place is taken.
- `AuditPipeline_proofs`: first of `RCS`, for all weights of at least one point:
  the score is in range, one and two critical findings cap the label, and a
  further finding never improves it under either rounding (`NeverImproves`, a
  step property: `MorePenalty` compares the truncations of two sums). The
  invariant `RCSInv` bounds the deduction from below by the number of findings.
  Then of the pipeline, for any analyzers, any answers and any order of answers,
  failures and timeouts: type correctness, `FailureIsIsolated`,
  `DeadSourceReported` and `TimezoneReported`. None of them is inductive, as
  each relates what an analyzer returned to a report several stages later. They
  follow from `PipelineInv` and the invariants of the two loops: what an
  analyzer shows depends on where it is and on whether it is in `errors`
  (`AnalysisInv`), the merge works on all of that and on nothing else
  (`GatheredInv`), and the score counts every entry once (`CountedInv`). Every
  step of an analyzer is first brought to one form (`Moves`); the stages in which
  a loop runs keep that loop's invariant by the lemmas of its own proof
  (`MergeInvStep`, `OriginStep`, `ScoreStep`). That `FlattenSeq` loses and adds
  nothing (`Flattened`) is shown by the least length at which it would, since
  the library's induction cannot be used. `ScoringImplemented`: a run of the
  pipeline is one of `RCS`, which carries the theorems about the score over.
  `ReportIsMerged` does so for those about the merge, whose list is not there
  from the start. `StepsRunOut` is what `AnalysisEnds` rests on: a step ends its
  stage for good or leaves less in it to do (`StepsLeft`).
- `ReportStages_proofs`: of `ClauseRewriter`, type correctness; only approved
  rewrites are adopted, and feedback is that of the attempt before, for any
  number of findings and attempts. The invariant adds that findings not reached
  yet are untouched (`Untouched`). `StagesRewrite`: the stages around it
  implement it, so the same holds of every report. `IndependentRewritesApplied`,
  for any contract, clauses and rewrites, from `StagesInv`: an independent clause
  stands in the text until its turn and its rewrite from then on (`Placed`), and
  so does every stretch of the contract that no clause meets (`UnmetStays`). It
  rests on lemmas about texts: where the first occurrence of a text is
  (`FirstOccurrence`, by the least prefix that holds it), what replacing it
  leaves (`Replacement`), that a text which does not meet the one replaced is
  still there, before or behind it (`OthersOccur`), since a text that is neither
  would have a character in common with it. `DiffReadsBothWays`, for any alignment that
  `difflib` may choose: an alignment is an ascending list of pairs, the part of
  the diff up to a pair reads as the stretch of either text up to it (`PartReads`),
  and what two parts read as, one behind the other, their concatenation reads as
  (`ConcatReads`); over all parts, by the least number of them that would not
  (`DiffReads`). `NothingElseChanges`, from `ChangesInv`, which says at every turn of
  the builder's loop that the text differs from the contract by the rewrites that
  had their turn: an occurrence is a place, counts are cardinalities of places, and
  replacing a text changes them by those of the two texts alone (`ReplacedCount`,
  by moving the places behind it). `CallsRunOut` is what `RewritingEnds` rests
  on: each step uses up one of the calls that are left (`CallsLeft`).
- `Feedback_proofs`: the newest weights are active for any number of runs,
  overlaps and faults, and alone if none overlapped. The invariant `WeightsInv`
  adds that then one run writes at a time (`OneWriter`) and that what it will
  deactivate is all that is active (`SeesAll`). Of the outcomes: type
  correctness; `StoredOnceUnlessFaults`, from `RowsInv`, in which every row of a
  delivery beyond the first is paid for by a fault (`PaidByFaults`: a
  delivery that waits or is being recorded has no more rows than there were faults); and
  `TriggersExact`, from `TriggersInv`: while nothing disturbs, one recorder is at
  work at a time (`Alone`), so the count it read is still the count of the table.

Only model-checked:

- everything temporal: `AnalysisEnds`, `RewritingEnds`,
  `OutcomeStored`, `CalibrationEnds`, `EventuallyEmbedded`, and the fairness half
  of `ImplementsService`. Reasoning under fairness is outside the prover. Of
  `AnalysisEnds` and `RewritingEnds` it is proved that there are finitely many
  steps to take (`StepsRunOut`, `CallsRunOut`); that the code takes them is what
  the fairness says and the runs show.
- `PerfectMeansAudited`, `SettledIsAnnounced` with the code's Redis clients and
  the deletion of a contract are violated, see above.

## Not modelled

Rendering (HTML, PDF), prompt texts, logging and usage records, progress
percentages, external data sources beyond what they may return, deployment
files, and code without callers: `integrations/external_apis` (enrichment makes
its requests itself), `vector_store`, `indexer`, `retry_async`, `CostTracker`,
`deterministic_validate`, `generate_pdf`, `load_active_weights`, `jwt.py`,
`create_api_key`. `middleware.py` is not
registered with the application. Which combination of weights wins the grid
search is left out, since nothing else in the program decides on it. The webhook
router is modelled although `api/main.py` does not mount it, since it is the
writer that the outcome task's documentation names; so is the task itself
although no worker knows it, see `Importing` above.

## Plan

Every invariant and every action property that holds in a run is proved.
What remains to be done is more of the model: the external data sources by their
own conditions instead of what they may return, the vector store once something
calls it, and a variant for `CalibrationEnds` like those for
`AnalysisEnds` and `RewritingEnds`.
