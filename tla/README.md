# Tender agent: verification project

TLA+ models of the concurrent and crash-sensitive core of the tender agent in
`src/` (a FastAPI monolith over PostgreSQL, with optional Redis and a local
artifact directory), TLC runs that check them on small instances and TLAPS
proofs of the properties that matter most for every instance.

## 1. The system

One Python application (`src/src/main.py`) serves all HTTP routes. PostgreSQL is
the source of truth; Redis carries deliveries, locks and in-flight claims; a
local directory holds published artifacts; a separate process
(`python -m src.tender_research.rag.worker`) executes analysis jobs. Most of the
~115 packages of `src/src/modules` are request-scoped reports and CRUD over
PostgreSQL. The parts where order, concurrency or failure decide correctness are
these.

| Component | State it keeps | Operations | Talks to | What makes it correct |
|---|---|---|---|---|
| Analysis job worker (`tender_research/rag/worker.py`, `job_runner.py`) | the delivery each worker processes, its lease renewer thread | receive, dispatch, run, retry, acknowledge, renew | Redis stream, job rows | one execution of a job at a time, attempts bounded, no job left without a delivery |
| Redis stream queue (`shared/redis/queue.py`) | stream, consumer group, pending entries | enqueue, reclaim, read, touch, retry, ack | Redis | a live job has exactly one live delivery |
| Analysis job rows (`tender_research/rag/job_service.py`) | status, heartbeat, progress, result | create, run, progress, complete, fail, requeue, heartbeat | PostgreSQL | terminal stays terminal, exhausted stays failed |
| Customer pilot cases (`modules/customer_pilot/router.py`) | case status, runs, run results, operator reviews, audit | create, start run, complete, review, mark ready, deliver, archive, publish PDF | PostgreSQL, Redis lock, artifact store | transitions of the case, one review and result per run |
| Expert review (`modules/customer_pilot/expert_review_service.py`) | escalations, commercial approval, decisions, hash-chained events | create, approve, assign, start, resume, decide | case rows | a severe escalation blocks delivery of the case; included review limit; immutable decision |
| Redis lock and in-flight claim (`shared/redis/lock.py`, `idempotency.py`), run start (`router.start_run`) | lock key with token and TTL, claim key | acquire, release, claim, result cache | Redis, run rows | one run per idempotency key |
| Immutable publication (`canonical_snapshot.py`, `artifact_publisher.py`, `artifact_snapshot.py`) | snapshot directory, PDF generations, bindings on the run row | publish snapshot, bind, publish final PDF, verify | filesystem, PostgreSQL | what the database binds exists and is never overwritten |
| Daily tender run (`modules/daily_tender_run/service.py`, `post_go.py`, `scripts/run_daily_tender_run.py`) | runs and their items: status, fingerprint, analysis, deal | create, execute, resume, retry, discover, screen, process, advance decided items, notify | PostgreSQL, intake, analysis, decision records, push | a cap on analyses per run, every item dealt with, a changed card is never passed over, decisions are applied |
| Mobile push (`modules/mobile_api/push.py`) | devices, a delivery row per device and event | register, revoke, dispatch, retry, disable a dead device | PostgreSQL, APNs | a notice is repeated only after a fault |
| SaaS foundation (`modules/saas_foundation/service.py`, `router.py`) | tenants, invitations, members, access tokens, usage counters | invite, redeem, rotate, log out, revoke, suspend, charge, refund, verify payment | PostgreSQL | seats, one member per invitation, one live token per member, monthly quota |
| PQ run lease (`modules/market_intelligence/pq_run_lease.py`) | a lease directory with an owner file | acquire, renew, release, inspect | filesystem | one owner |
| Integration outbox (`modules/integration_outbox/service.py`) | events by idempotency key | enqueue | PostgreSQL | one event per key |
| Ingest checkpoints (`tender_research/ingest_checkpoint.py`, `pipeline.py`) | a cursor file per batch | begin, advance, fail, resume | PostgreSQL, filesystem | every item committed before the cursor passes it |
| Legacy binding backfill (`legacy_binding_backfill_orchestrator.py`) | the nullable binding columns of old runs | backfill | PostgreSQL, filesystem | all fields of a binding or none |
| Production LLM analysis (`modules/production_llm_analysis`) | staged files of one process | recover documents, call the model | filesystem, LLM | content |
| Storage gate (`shared/storage/gate.py`), rate limit, cache (`shared/redis`) | thresholds, windows | check | filesystem, Redis | admission |
| Report generators, providers, LLM transport, mobile API, iOS client, frontend | request-scoped data | read, render, call out | everything | content |

Interactions: the HTTP routes call the service functions inside one SQLAlchemy
session (READ COMMITTED, so an unlocked read may be stale when the row is
written); the worker and the API share the job row and the stream and nothing
else; a pilot case is written by the router and by the expert review service,
which lock it in different ways; publication writes the filesystem first and the
database second; a daily run calls intake, analysis and push from one process and
meets the manager's decisions in the database; the requests of a tenant share its
row, its counters and its tokens.

What is hard here: reads of a status that are acted on without a lock; two
stores written one after the other with a crash in between; leases and TTLs that
lapse while their owner is alive; replies that are lost after the effect;
retries of what was already done. `PROJECT.json` lists each such hazard at its
line with the properties that cover it.

## 2. The modules

| Module | Models | Composes |
|---|---|---|
| `RedisStreamQueue` | `shared/redis/queue.py` | |
| `AnalysisJobStore` | `rag/job_service.py` | |
| `TenderJobWorker` | `rag/worker.py`, `rag/job_runner.py`, the job endpoints of `api.py` | the two above |
| `TenderJobDelivery` | abstract: what the queue and its workers promise of one job | |
| `TenderJobWorkerProofs` | theorems about `TenderJobWorker` | |
| `TenderJobRefinement` | `TenderJobWorker` implements `TenderJobDelivery` | |
| `TenderJobSerialProofs` | theorems about workers that do not overlap on one job | |
| `PilotCase` | `customer_pilot/router.py` and the order in which the artifact publishers touch disk and rows | |
| `ExpertReview` | `customer_pilot/expert_review_service.py` | `PilotCase` |
| `PilotWorkflow` | both over the same rows, with requests that die and deadlocks | the two above |
| `CaseLifecycle` | abstract: what the pilot promises of a case | |
| `MCPilotWorkflow` | symmetry for TLC | `PilotWorkflow` |
| `PilotWorkflowProofs` | theorems about `PilotWorkflow` | |
| `PilotSerialProofs` | theorems about requests that do not overwrite what another has read; `PilotWorkflow` implements `CaseLifecycle` | |
| `MobilePush` | `mobile_api/push.py`, the devices of `mobile_api/service.py` | |
| `DailyTenderRun` | `daily_tender_run/service.py`, `post_go.py`, their router and command | `MobilePush` |
| `MCDailyTenderRun` | the notices of an instance | `DailyTenderRun` |
| `DailyTenderRunProofs` | theorems about `DailyTenderRun` | |
| `SaasQuota` | `charge` and `refund` of `saas_foundation/service.py` and the handlers that spend | |
| `SaasAccess` | invitations, members and tokens, `service.py` and `router.py` | `SaasQuota` |
| `TenantAccount` | abstract: what the account of a tenant promises | |
| `MCSaasAccess` | symmetry for TLC | `SaasAccess` |
| `SaasAccessProofs` | theorems about `SaasAccess` | |
| `SaasAccountRefinement` | `SaasAccess` implements `TenantAccount` | |

Analysis jobs, the pilot, the daily run and the tenants write no table in common
that the properties are about, and are modelled apart.

### 2.1 Analysis jobs

*State.* `stream` and `lastId` are the Redis stream with its consumer group: an
entry is new, pending, stale (pending for longer than the visibility timeout) or
gone. `status` and `fresh` are the PostgreSQL row: its status and whether
`updated_at` is younger than the visibility timeout. `pc`, `held` and
`reclaimed` say where each worker process is in `process_delivery` and with
which delivery; `api` where the HTTP request is that submits each job. `ran` is a
history variable, `faults` counts crashes and lost replies.

*Actions.* One per Redis command, MULTI or PostgreSQL transaction, because
nothing holds a lock across two of them: `Submit`/`EnqueueJob`/`EnqueueReplyLost`/
`EnqueueRefused`/`Reject` (the endpoint, with the reply of XADD lost or the
command refused), `ReceiveReclaimed`/`ReceiveNew` (XAUTOCLAIM, then XREADGROUP),
`LoadJob` (all branches of `process_delivery` on the row just read, in `Route`),
`PublishRetry` (`queue.retry`), `MarkRead` and `MarkWrite` (`requeue_job`: its
test and its commit are two steps at READ COMMITTED), `StartRun`, `Pulse` (the
lease renewer), `ProgressPulse`/`ProgressWrite` (`on_progress`), `FinishRun`,
`FailRun`, `AfterRun`, `AckDelivery`, `FailExpired`, `TouchAndLeave`, `Crash`,
`Restart`; and the two clocks, `LeaseExpires` and `JobHeartbeatExpires`.

*Abstractions.* `completed` stands for both terminal statuses. Consumer names
are not kept: no command compares them. The retry backoff is any delay.
Progress, steps and results carry no control. Malformed envelopes, missing rows
and unsupported job types are not produced by anything in the repository, and
`cancel_job` has no caller. `TimelyRenewal` is the assumption, stated as a
constant, that a live worker renews its lease and heartbeat before the
visibility timeout (the renewer's interval is a fraction of it); with FALSE the
clocks may fire at any moment.

### 2.2 The customer pilot

*State.* `cases` (status and current run), `runs` (per case and idempotency key:
status with its result row, operator review, PDF row), `disk` (the immutable
generations present, which no rollback removes), `esc` (escalations by
idempotency key), `caseLock`, `runLock`, `escLock` (holders of `SELECT ... FOR
UPDATE`), and `req`: for each HTTP request in progress, the statement it is at,
what it is about, and the value it read and will act on.

*Actions.* A handler is a chain of actions, one per group of statements between
which other requests can be served. What the code loads without a lock is kept
in `req` and used later; what it re-reads under a lock is read from the row.

| Handler | Actions |
|---|---|
| `start_run` | `StartRead`, `StartClaim` (conditional UPDATE and INSERT under a unique key, one commit) |
| `complete_run` | `CompleteRead`, `CompleteBind`, `CompletePublish` (rename on disk), `CompleteCommit` |
| `publish_pdf` | `PdfRead`, `PdfPublish` (run row locked, rename on disk), `PdfCommit` |
| `review_run` | `ReviewRead`, `ReviewCommit` |
| `mark_client_ready`, `delivered`, `archive_case` | `AdvanceRead`, `AdvanceCheck`, `AdvanceWrite` |
| `create_escalation` | `CreateRead`, `CreateLock` or `CreateRefused`, `CreateBill`, `CreateInsert` or `CreateConflict` |
| `record_expert_decision`, final | `DecideLock`, `DecideCount`, `Resolve`, `ReleaseCase`, `BlockCase` |
| other escalation operations | `CommercialDecision`, `AssignExpert`, `StartExpertReview`, `AskCustomer`, `Resume`: one locked row, one action each |

`Crash` ends a request anywhere: its locks are released, its uncommitted rows are
gone, its files stay. `DeadlockVictim` is PostgreSQL aborting one of two
transactions that wait for each other; the cycle the code allows is publication
(run row, then a row referencing the case) against creation of an escalation
(case row, then a row referencing the run).

*Abstractions.* `needs_reanalysis` and `rejected` are one verdict, and the two
approvals another. REJECTED is CONFIRMED (it differs by a feedback row),
waived is approved (it differs by an amount), NEEDS_CUSTOMER_INPUT is the status
it leads to. A sev3 escalation with a safety trigger is `minor`. Hash and
manifest verifications are assumed to pass when the files are there. All cases
of an instance belong to one project.

*Left out:* the Redis lock and result cache around `start_run`, runs of the time
before bindings were verified, the hash chain of events, the SLA calendar, and
the audit and feedback rows with the share locks their foreign keys take.

### 2.3 The daily tender run and its notifications

*State.* `run`, `status`, `print`, `analysis`, `bound`, `born` are the rows of
runs and items, as committed; `step`, `cur`, `retry`, `todo`, `item`, `notices`
are what the executing process holds in memory and loses when it dies; `deals`
and `decision` are what the manager sees and says. In `MobilePush`, `enabled` and
`sent` are committed rows, `dispatch` is the open transaction of one dispatch,
and `accepted` counts what APNs took.

*Actions.* One per commit of `execute_daily_tender_run`, because a crash keeps
what was committed and nothing else.

| Code | Actions |
|---|---|
| `create_daily_tender_run`, resumption by the command and by the API | `CreateRun`, `StartCreated`, `CliResume`, `ApiResume` |
| `_discover`, with `_previous_item` | `Discover` (`IsPrevious`, `Unchanged`) |
| `_screen` | `Screen` (`Reserved`, `Slots`, `Cut`) |
| the retry and the candidates | `RetryFailed` |
| `_process_item`, with `_ensure_canonical_intake` | `Pick`, `IntakeDeal`, `BindDeal`, `Analyze`, `Summarize`, `ItemFails` |
| `advance_post_decision_items` | `AdvanceBegin`, `SkipUndecided`, `ApplyStop`, `ApplyGo`, `AdvanceGo`, `AdvanceFails` |
| the status of the run and its notifications | `Finish`, `Notify`, `NotifyDeferred`, `Done` |
| `dispatch_mobile_push_event` | `BeginDispatch`, `SendOk`, `SendFails`, `SendRefused`, `SendLost`, `CommitDispatch`, `AbortDispatch` |

`Crash` may come between any two; `Decide`, `RegisterDevice` and `RevokeDevice`
come from outside at any time. `born` ranks runs by the discovery that created
their items, which is what `_previous_item` sorts by (`created_at` of the item).

*Abstractions.* The score of a card is a choice of the shortlist, and of which of
it is best. The result of an analysis is a choice. How far a GO gets depends on
readiness, submission and outcome records that others write: a choice of
`Evidenced`. A delivery row that is not SENT is tried again like an absent one.
All runs belong to one profile.

*Left out:* two processes that execute the same run at once (nothing in the code
prevents it; the deployment has one host and one scheduled command, and the
hazard is listed), and the 410 of an old token that switches off a device
registered anew meanwhile.

### 2.4 Access and quota of a tenant

*State.* `invite`, `member`, `bearer`, `live`, `lifecycle` and `used` are the rows;
`holder` is who holds the row of the tenant FOR UPDATE; `at`, `mon`, `seen`,
`inv` and `tok` say where each HTTP request is, and what it has read and will act
on. The locks of invitations and tokens are the places `redeeming` and `rotating`.
`redemptions`, `overdue`, `done`, `leaked` and `wrong` are history.

*Actions.* A handler is `Begin...` (authentication), then one action per lock or
commit: `ChargeLock`, `ChargeCommit` or `ChargeExhausted`, `WorkDone`, or
`WorkFails` and `Refund`; `IssueLock`, `IssueCommit`; `RedeemLock`,
`RedeemCommit`; `RotateLock`, `RotateCommit`; `Logout`; `RevokeRead`,
`RevokeCommit`; and the refusals. An INSERT whose foreign key names the tenant
waits for `holder` to be free, although it asks for no lock in the code: this is
what makes the count of seats right. `Refund` decreases the counter of the month
it runs in, as the code does. `Crash` rolls back and, after the charge has been
committed, leaks the unit.

`TenantAccount` is the same account without requests, locks or tokens: `Invite`,
`Expire`, `Redeem`, `LogOut`, `Remove`, `Charge`, `GiveBack` and `Suspend`, each
guarded by the account as it is at that moment. A member is signed in
(`SignedIn`) when he is active and bears a live token, which is what
`require_tenant` looks at; a rotation is a stutter.

*Left out:* roles, the acknowledgement of terms, trial and payment state (each is
one more refusal), the expiry of a token (one more `Authentic` that is false), and
the uploaded runs, which live in files.

## 3. The runs

| Run | Instance | Distinct states | Question |
|---|---|---|---|
| `WorkerFleet` | 2 workers, 1 job, 3 attempts, 2 faults, fair | 7,140 | are leases and executions exclusive, is there one delivery per job, is `TenderJobDelivery` implemented, and does the stream drain although requeues may land late? |
| `WorkerPrompt` | 2 workers, 2 jobs, 2 attempts, 1 fault, `FairPromptSpec` | 46,624 | while no worker is given a job before the row of its retry is requeued, does every submitted job settle, never without a delivery, never executing a delivery twice, never leaving "failed" once exhausted? |
| `PilotFleet` | 1 case, 2 keys, 1 escalation, 2 requests, 1 death | 746,641 | under interleaving: exclusive publication, the chain review, PDF, snapshot, no orphan adopted, history and decisions immutable |
| `PilotSerial` | 1 case, 2 keys, 2 escalations, 2 requests, `SerialSpec` | 1,576,361 | do handlers that overlap without conflicts implement `CaseLifecycle` and the rules of blocking and review? |
| `PilotProgress` | 1 case, 1 key, 1 escalation, 2 requests, fair | 24,012 | is every request answered, deadlock included? |
| `DailyRun` | 2 runs, 2 procurements, 2 fingerprints, cap 1, 1 crash | 1,977,218 | resumed and retried at will: does the cap hold, is every item dealt with, is every duplicate known? |
| `DailyDecisions` | 1 run, 2 procurements (one urgent), 2 decisions, 1 device, 1 fault, fair | 157,922 | do reports stand, is a notice repeated only after a fault, is every decision applied? |
| `SaasAccess` | 2 requests, 3 invitations, 2 seats, 3 tokens, quota 1, 2 months, 1 death | 1,423,596 | are seats, invitations, tokens and units accounted for under interleaving, a suspension and the end of a month, does nobody wait in a circle, and is `TenantAccount` implemented? |

*Why the bounds are enough.* `MaxMsgs` is the number of XADDs the instance can
do with timely renewal (jobs times attempts, plus one or none), so it never
stops a retry. Two workers give every race of the loop, because each race is
between the holder of a delivery and one other worker. One case is enough for
the rules of a case, two keys for a superseded run, two escalations for one that
holds the case while another is decided, two requests for every pair of
handlers. Three requests would add the races of three handlers over one case;
section 5 proves every property of `PilotFleet` for any
number. Permutations of keys, escalations and requests are symmetric
(they are only compared for equality) and are used in safety runs only.
`IncludedLimit` is scaled from 3 to 1.

A daily run needs a second run to meet a duplicate or a changed card, and a second
procurement to compete for the cap of one; `DailyRun` has no manager and no device,
so that a crash, any number of resumptions and both fingerprints fit. In
`DailyDecisions` one item is urgent, so that an item has two or three notices, and
two decisions allow a deferral or a refusal to be taken back. The bound on faults
is one or two because each fault is recovered from before another matters; the
proofs of section 5 hold for any number. `PilotSerial` has two requests and no
death, to leave room for their overlaps; its theorems allow any number of both. In `SaasAccess` the owner takes one seat,
so that two more invitations compete for the last one; two requests give every pair
of handlers; quota 1 makes each charge compete; two months let a refund land in the
wrong one; three tokens allow two redemptions and a rotation.

Deadlock checking is on in the two daily runs, whose scheduled command can always
go on. It is off in the others: workers may all wait for messages that never come,
a pilot instance ends when its keys and escalations are used up, and that of a
tenant when it is suspended in the last month; there `NobodyWaitsInCircle` and
`OnlyLocksStop` state what must not happen instead: somebody in progress waits for
no lock, and who waits for none has a step.

### 3.1 Where the code departs from its documents

Each of these runs checks one property that a document states, and TLC finds it
violated. `PROJECT.json` quotes the lines.

| Run | Property | What happens |
|---|---|---|
| `WorkerLateRequeue` | `ExhaustedJobStaysFailed` | a worker publishes the retry before it resets the row; the second worker gets the last attempt, finds the row failed, acknowledges it without running; the first then writes "queued": the job is queued for ever with no delivery |
| `PilotStaleReview` | `HandoverReviewed` | `start_run` commits between the checks and the commit of `mark_client_ready`: the case is client-ready on a run nobody reviewed |
| `PilotReleaseRace` | `ReleasedOnlyIfUnblocked` | a sev3 decision counts the blocking escalations, waits for the case row that a sev1 creation holds, then releases the case the sev1 has just put on hold |
| `PilotIncludedLimit` | `IncludedWithinLimit` | the included reviews of a project are counted under the lock of one of its cases |

Other behaviour seen while modelling, recorded as hazards and not kept as runs
because no document contradicts it plainly: the last attempt is acknowledged
without running when its predecessor's worker died between `queue.retry` and the
reset of the row; a late requeue can put a completed row back to "queued"; a
crash of a daily run after its failed items were put back on the shortlist makes
the next screening cut them, because an item with an analysis counts both as
reserved and as shortlisted; a run that died while RUNNING is left to the operator;
a refund after the end of the month is taken from the next month's counter; a
retried escalation creation is answered with an error instead of the stored row;
a submission answered 503 may still run; the run an expert sent back may be
reviewed and handed over.

The properties these races break hold of everything else. `WorkerPrompt` and
`PilotSerial` check them under specifications that leave out just these overlaps
(`PromptSpec`, `SerialSpec`), and section 5 proves them there:

| Left out | By | In the code |
|---|---|---|
| a worker is given a job whose retry is published but whose row is not requeued yet | `RequeueFirst` | `queue.retry`, then `_mark_retry` (`worker.py:240-241`) |
| a run is completed between the load and the commit of another completion of the case | `Conflict`, first clause | `complete_run` (`router.py:538`) |
| a run is started, a transition committed or a severe escalation created between the load of the case and the write of its status | second clause | `_transition` (`router.py:172`, `780`) |
| a severe escalation is created or the case archived between the load and the commit of a review | third clause | `review_run` |
| a severe escalation is created between the count of the open ones and the release of the case | fourth clause | `_release_case_if_unblocked` (`expert_review_service.py:607`) |

Each clause of `Conflict` is needed: TLC finds `ImplementsLifecycle` violated when
any one of them is dropped. The single rules need fewer (table in section 5).

## 4. Fairness

*Workers.* Weak fairness of `Process(w)`: a live worker's loop keeps going and
its Redis and PostgreSQL calls return (they have timeouts, and an error is a
`Crash`). Strong fairness of `EndRun(w)`: an analysis ends, although progress
callbacks disable the end of the run again and again. Weak fairness of
`Restart(w)`: the worker's service has `restart: unless-stopped`
(`deploy/production/compose.yaml`). Weak fairness of the two clocks: time passes.
Weak fairness of the submission once it has created the row. None for `Submit`,
`Crash`, `Pulse` or `ProgressPulse`: nothing makes them happen. `FairPromptSpec`
takes the same fairness under `RequeueFirst`. The constraint does not take steps
away for ever: a worker that still has to requeue a row can always do it (its own
step leads out of the places the constraint speaks of), and after that the other
worker may receive the job.

*Pilot.* Strong fairness of `Handle(q)`: a handler that has begun goes on, and
PostgreSQL serves waiters for a row lock in turn, so one that could run again
and again does. Weak fairness of `DeadlockVictim`: the detector runs. None for
`Ask`: no client is obliged to call.

*Daily run.* Weak fairness of `Execute`: a process that executes a run goes on
(its calls have timeouts, and an exception is `ItemFails`, `AdvanceFails` or
`PushAborts`). Strong fairness of `CliResume(r, FALSE)` for each run: the command
is scheduled, takes every waiting run, and is disabled while another run is in
execution. None for `Decide`, `ApiResume`, `CreateRun`, `Crash` or the devices.
`DecisionApplied` holds for a decision that changes the report's standing; it
excepts a run whose process died before the end, because the command leaves
RUNNING rows alone.

## 5. What is proved

TLAPS checks more than 9,000 obligations. The assumptions are those named in the modules:
`QueueAssumption` (`NoJob` is not a job, at least one attempt), `WorkerAssumption`,
`PilotAssumption` (the null values are not values), `LimitAssumption`,
`FaultAssumption`, `DailyAssumption` (finitely many procurements, bounds are
natural numbers, what the notices are), `QuotaAssumption` and `AccessAssumption`
(finitely many requests and invitations, the owner's is one of them, at least one
seat). The sets of jobs, workers, cases, keys, escalations, requests, procurements,
devices and invitations are otherwise arbitrary.

**`TenderJobWorkerProofs`.** `TypeCorrect` needs more than the types: a worker
about to retry must have an attempt left and a delivery that exists. `IInv` adds
`StreamInv` (ids up to `lastId`, and only those, carry a job), `HeldInv` (a worker
inside `process_delivery` holds one of them, and retries below the budget) and
`FirstDeliveryInv` (no delivery before the request that publishes the first).
On it rest `LeaseMutualExclusion` (`LeaseHeld`) and `SingleDelivery`
(`OneLiveDelivery`), inductive together as `LeaseInv`: retry replaces a delivery
only while the worker holds it alone, and `Enqueue` finds no delivery of its job.
`NoConcurrentExecution` (`ExclusiveExecution`) follows: two executions of a job
would hold the same, only, live delivery. The three say nothing when
`TimelyRenewal` is FALSE.

**`TenderJobRefinement`.** `DeliveryImplemented`: under `TimelyRenewal`, `Spec`
implements `TenderJobDelivery` (`ImplementsDelivery`). The token of a job is its
last delivery, so the invariant needed on top of `IInv` and `LeaseInv` is `TokenInv`:
a published job has a last delivery (`LastExists`) and a live delivery is that one
(`LiveIsLast`). Then `PublishRetry` is the advance of the token, `AckDelivery` its
end, `StartRun` and the three ways out of a run (end, failure, crash) begin and end
an execution, and every other call of Redis or PostgreSQL is a stutter.

**`TenderJobSerialProofs`.** The safety properties of `WorkerPrompt`, first without
`TimelyRenewal`, for any number of workers, under a hypothesis about the behaviour:
`Spec /\ []OnePerJob`, no two workers are inside `process_delivery` with the same job
at a time. The code does not enforce it. A reclaim after a lapsed lease breaks it,
and so does the gap between `queue.retry`, which publishes the next attempt, and the
commit of `requeue_job`: that is what `WorkerLateRequeue` shows. What the theorems
say is that nothing else can go wrong: not crashes at any statement, lost replies,
late renewals or the interleaving of different jobs. `SerialInv` says of each worker
what it relies on (`HeldOK`: its delivery is live, a row it is about to acknowledge is
settled, the retry behind a row it still has to mark is unread, a delivery it is about
to start was never run), of the jobs that a job without a live delivery is settled
(`GoneSettled`), and of the deliveries that one which was run shows in its row or its
state (`RanShown`); `LastExists` and `LiveIsLast` are as
above, and `AttemptsGrow` says that attempts grow along the stream. From it:

- `SerialStrandsNoJob` (`NoStrandedJob`), `SerialRunsDeliveryOnce`
  (`DeliveryRunsOnce`), `SerialLeavesExhaustedJob` (`ExhaustedJobStaysFailed`);
- `OneWorker`: a single worker process satisfies the hypothesis in every behaviour,
  so the three hold of it with no hypothesis but that there is one;
- `PromptRequeue`: so do any number of workers under `TimelyRenewal` and
  `RequeueFirst`. Two workers inside with one job would both hold its only live
  delivery, unless one of them has published the retry and not requeued the row
  yet; the race of `WorkerLateRequeue` is therefore the only one. `PromptWorkers`
  says the same of `PromptSpec`, the specification of the run.

**`PilotWorkflowProofs`.** The invariant `IInv` is `TypeOK`, `RowsOK` (a current run
exists, an absent run has nothing), `TrustChain`, and for each request `RequestOK`:
what it relies on between two statements, that the rows it names exist
(`NamesRows`, `CaseStarted`), that what it read of the run's history still holds
(`RunKnown`), that its files are on disk (`FilesWritten`) and its locks are its own
(`OwnsLocks`). The argument is rely and guarantee: every step of a request
satisfies `History(q)` (completed runs, verdicts, PDFs, files and others' locks
are kept), and `OthersKeep` shows that `RequestOK` of the others survives any such
step, whatever their number. From it:

- `TypeCorrect`, `ChainOfTrust` (`TrustChain`), `HistoryImmutable` (`RunHistoryKept`);
- `DecisionImmutable` (`FinalDecisionKept`): the request that closes an escalation
  holds its row and found it in review;
- `PublicationExclusive` (`OnePublisher`), by the strengthening `OneSnapshot`: two
  requests can be about to commit the same snapshot only once its run is
  completed, because a rename is refused while the other's file is there;
- `OrphansStayOrphans` (`OrphansNeverAdopted`): a file that no row binds and no
  request in progress has written makes every later rename fail, so no request comes
  to hold it and no row to bind it.

**`PilotSerialProofs`.** The rules of a case, under `Spec /\ []NoConflicts`: no
request is about to commit what another request about the same case has read
without a lock and still relies on (the clauses of `Conflict`, listed in 3.1).
Requests overlap in every other way, the experts work at any time and requests die
at any statement. The router does not enforce this; `PilotStaleReview` and
`PilotReleaseRace` are what happens otherwise. `SerialInv` is a part about the rows
(`RowsSerial`: a case is analyzing while its current run is, is handed over on the
approved review of that run, and is on hold exactly while one severe escalation is
open) and a part about what each request has read (`Reads`), which the others keep
true: the lemmas about what another's step may change use `NoConflicts` for the
commits that would not. Each action is shown to keep both and, in the same case
analysis, to be a step or a stutter of `CaseLifecycle`. From it:

- `SerialHandoverUnblocked` (`SevereBlocksHandover`), `SerialHandoverReviewed`
  (`HandoverReviewed`), `SerialReviewReleasable` (`ExpertReviewReleasable`);
- `SerialLifecycle` (`ImplementsLifecycle`) and, from the abstract steps,
  `SerialArchivedFinal` (`ArchivedIsFinal`);
- `ConflictFreeRequests`: the five for `SerialSpec`, the specification of the run;
- `OneRequest`: with one request at a time there are no conflicts, and the five hold
  with no further hypothesis;

The second part of the module asks how little of `NoConflicts` each rule needs:

| Theorem | Rule | Overlaps that must not happen, about one case |
|---|---|---|
| `HandoverNeedsNoStart` | `HandoverReviewed` | `StartsApart`: a `start_run` at its commit while a handover is between its load and its write |
| `ReleaseNeedsApart` | `ReleasedOnlyIfUnblocked` | `ReleasesApart`: a severe escalation at its insert while a decision is between its count and its release |
| `ReleasableNeedsApart` | `ExpertReviewReleasable` | `SevereApart`: that one, and a completion at its commit while another is in progress |
| `BlockNeedsApart` | `SevereBlocksHandover` | `SevereApart`, and `HandoversApart`: a severe escalation at its insert while a handover is between its load and its write |

So the races of `PilotStaleReview` and `PilotReleaseRace` are the only ways to break
the rules these runs check. The inductive invariants: `HandoverRead` (the run a
handover looks at is the current one and, once checked, approved), `Counted` (what a
decision has counted is still so when it releases), and `HeldInv`: a case has one
severe escalation at most, about a completed run, which keeps the case from being
started again; a completion has the current run, still analyzing; a creation has
what it read under the lock. `HeldStep` says what each action makes of the case, and
`HeldBackStep` needs nothing else to show that nothing moves a held case out of
expert review and archived. TLC finds `ExpertReviewReleasable` violated without
either part of `SevereApart`, and `SevereBlocksHandover` without `HandoversApart`.

**`DailyTenderRunProofs`.** Three of the properties are not inductive: whether an
ended run is settled depends on what the process that ended it had still to do.
`IInv` adds `Positioned` (a process past its start executes a RUNNING run; nothing is
DISCOVERED after the screening), `Agenda` (`todo` and `item` are exactly what is
left to process, and to advance), `Unscreened` (a run that has findings has nothing
else), `Grounded` (a report rests on an analysis, what follows a decision on a
decision) and `Accounted` (each acceptance by APNs is recorded, about to be, or paid
for by a fault). The lemma `Changes` says once, for every step, how the status of
an item may change and that only items of the run in execution do; most steps
follow from it without looking at the action again. From `IInv`:

- `TypeCorrect`, `Settled` (`EndedIsSettled`), `DuplicatesKnown` (`DuplicateIsKnown`);
- `CapHolds` (`CapKept`): what screening keeps fits the slots it has computed, and
  a retry only moves items that already count;
- `NotifiedOnce` (`NotifiedOncePerFault`), from `Accounted`;
- `ReportsStand` (`ReportStands`), an action property, from `Changes`.

**`SaasAccessProofs`.** `IInv` adds to the types `CountsHeld` (who decides on a count
holds the tenant and the count is still right), `RowsHeld` (one request at a time
redeems an invitation or replaces a token), `Unused` (nothing has come of an
invitation that is not consumed), `TokensLeft` and `OneLiveToken`. From it:

- `TypeCorrect`, `SingleRedemption` (`RedeemedOnce`), `SingleToken` (`OneLiveToken`);
- `QuotaAccounted` (`UsageAccounted`), one equation per month that each step
  preserves because it moves a request into or out of the set that is counted, and
  `QuotaKept` (`ServedWithinLimit`), which the equation and `used[m] <= Limit` imply;
- `Frozen` (`SuspendedFrozen`): a charge or an invitation about to be committed holds
  the tenant, so that it cannot have been suspended meanwhile;
- `SeatsHold` (`SeatsKept`), by the set of seats `Taken`, which only grows by an
  invitation whose issuer has counted it under the lock;
- `LocksOrdered` (`NobodyWaitsInCircle`), by `Engaged`: whoever holds the tenant is about
  to commit, and who holds an invitation or a token waits for the tenant only.

**`SaasAccountRefinement`.** `AccountImplemented`: `Spec` implements `TenantAccount`
(`ImplementsAccount`). On top of `IInv` it needs `Serving` (who is about to charge or
to invite does so for an active tenant) and `OwnerStays` (nobody is about to remove
the owner). A lemma for each commit says who is signed in after it: a redemption adds
its member (`RedeemSignsIn`), a rotation nobody (`RotateKeeps`), and a logout or a
removal takes one away, because a member has one live token (`LogoutSignsOut`,
`RevokeSignsOut`). `CountsHeld` makes the guards of `Invite` and `Charge` true at the
commit, `RowsHeld` and `Unused` that of `Redeem`; removing a member a second time, a
refund with nothing counted and everything else are stutters.

**Only model-checked.** Liveness (`JobSettles`, `DeliveriesDrain`,
`RequestsAnswered`, `DecisionApplied`), which this prover cannot treat under
fairness, and `OnlyLocksStop`, which speaks of ENABLED. Every other property of a
passing run is a theorem, the ones of `WorkerPrompt` and `PilotSerial` under the
hypotheses just given.

## 6. What is not modelled, and the plan

Not modelled and not planned: report generators, providers, the LLM pipeline,
clients (data, no shared control), storage gate, rate limit and cache (thresholds
on measured values), the outbox (one insert), the backfill (one transaction under
both row locks), the thread backend of the job runner (no recovery).

In this order:

1. `RunStart`: the Redis lock with token and TTL, the in-flight claim and the
   result cache around `start_run`, over the conditional UPDATE. Properties: one
   run per key whatever expires, and what a cached answer may say of another case.
2. `IngestBatch`: commit, advance, block, crash and resume; no item is skipped.
3. `PqRunLease` with the review batch it protects: directory, owner file, renewal
   against manual removal.
4. The steps inside one publication (staging, fsync, rename), below
   `CompletePublish` and `PdfPublish`, shown to implement them.
5. Of the components modelled: two processes that execute one daily run, the
   expiry of tokens and the payment state of a tenant, its uploaded runs.

Proofs to add: the safety theorems of the modules above, and `ArchivedIsFinal` under
the clauses of `Conflict` it needs, which are nearly all of them.
