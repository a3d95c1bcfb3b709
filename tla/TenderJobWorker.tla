--------------------------- MODULE TenderJobWorker ---------------------------
(***************************************************************************)
(* The durable analysis workers: the job API that creates and submits a    *)
(* job (src/src/tender_research/api.py), the worker loop                   *)
(* (src/src/tender_research/rag/worker.py), the runner it calls            *)
(* (job_runner.py), the Redis stream between them and the PostgreSQL row   *)
(* all of them write.  One action per Redis or PostgreSQL call, so that    *)
(* everything the code leaves unprotected can interleave: reading the row  *)
(* and acting on it, publishing a retry and marking the row, looking at a  *)
(* lease and renewing it.                                                  *)
(*                                                                         *)
(* Left out: malformed envelopes, missing rows and unsupported job types   *)
(* (nothing in the repository produces them), cancel_job (it has no        *)
(* caller), the length of the retry backoff (a worker may stay in any      *)
(* state arbitrarily long) and what the analysis computes.                 *)
(***************************************************************************)
EXTENDS RedisStreamQueue

CONSTANTS
  Workers,        \* worker processes
  MaxFaults,      \* bound: crashes and lost Redis replies in a behaviour
  TimelyRenewal   \* TRUE: a live worker never lets its lease or heartbeat lapse

ASSUME WorkerAssumption == MaxFaults \in Nat /\ TimelyRenewal \in BOOLEAN

VARIABLES
  status, fresh,  \* the PostgreSQL rows
  pc,             \* where each worker is in process_delivery, "down" after a crash
  held,           \* the delivery each worker processes, 0 for none
  reclaimed,      \* QueueDelivery.reclaimed of that delivery
  api,            \* progress of the HTTP request that submits each job
  ran,            \* history: the deliveries some worker handed to a runner
  faults          \* faults so far

INSTANCE AnalysisJobStore

jobVars == <<status, fresh>>
workerVars == <<pc, held, reclaimed>>
vars == <<stream, lastId, status, fresh, pc, held, reclaimed, api, ran, faults>>

Executing == {"run", "progress"}

HoldsLease == Executing \cup
  {"load", "touch", "expire", "ack", "retry", "premark", "premarkWrite",
   "start", "after"}

WorkerState == HoldsLease \cup {"idle", "mark", "markWrite", "down"}

ApiState == {"none", "created", "refused", "done", "rejected", "lost"}

Init ==
  /\ QueueInit
  /\ JobInit
  /\ pc = [w \in Workers |-> "idle"]
  /\ held = [w \in Workers |-> 0]
  /\ reclaimed = [w \in Workers |-> FALSE]
  /\ api = [j \in Jobs |-> "none"]
  /\ ran = {}
  /\ faults = 0

JobOf(w) == stream[held[w]].job
AttemptOf(w) == stream[held[w]].attempt

(* A worker that leaves process_delivery forgets the delivery. *)
Goto(w, from, to) ==
  /\ pc[w] = from
  /\ pc' = [pc EXCEPT ![w] = to]
  /\ held' = IF to \in {"idle", "down"} THEN [held EXCEPT ![w] = 0] ELSE held

Fault == faults < MaxFaults /\ faults' = faults + 1

-----------------------------------------------------------------------------
(* start_analyze_job_endpoint and start_prepare_job_endpoint              *)

Submit(j) ==
  /\ api[j] = "none"
  /\ api' = [api EXCEPT ![j] = "created"]
  /\ CreateJob(j)
  /\ UNCHANGED <<queueVars, workerVars, ran, faults>>

EnqueueJob(j) ==
  /\ api[j] = "created"
  /\ api' = [api EXCEPT ![j] = "done"]
  /\ Enqueue(j)
  /\ UNCHANGED <<jobVars, workerVars, ran, faults>>

(* Redis executes the XADD and its reply is lost: the client times out. *)
EnqueueReplyLost(j) ==
  /\ api[j] = "created"
  /\ api' = [api EXCEPT ![j] = "refused"]
  /\ Fault
  /\ Enqueue(j)
  /\ UNCHANGED <<jobVars, workerVars, ran>>

EnqueueRefused(j) ==
  /\ api[j] = "created"
  /\ api' = [api EXCEPT ![j] = "refused"]
  /\ Fault
  /\ UNCHANGED <<queueVars, jobVars, workerVars, ran>>

(* fail_job, then HTTP 503 *)
Reject(j) ==
  /\ api[j] = "refused"
  /\ api' = [api EXCEPT ![j] = "rejected"]
  /\ FailJob(j)
  /\ UNCHANGED <<queueVars, workerVars, ran, faults>>

ApiCrash(j) ==
  /\ api[j] \in {"created", "refused"}
  /\ api' = [api EXCEPT ![j] = "lost"]
  /\ Fault
  /\ UNCHANGED <<queueVars, jobVars, workerVars, ran>>

-----------------------------------------------------------------------------
(* run_once: receive, then process_delivery                                *)

Take(w, m, again) ==
  /\ pc[w] = "idle"
  /\ pc' = [pc EXCEPT ![w] = "load"]
  /\ held' = [held EXCEPT ![w] = m]
  /\ reclaimed' = [reclaimed EXCEPT ![w] = again]
  /\ UNCHANGED <<jobVars, api, ran, faults>>

ReceiveReclaimed(w) ==
  \E m \in MsgIds : ReclaimStale(m) /\ Take(w, m, TRUE)

ReceiveNew(w) ==
  \E m \in MsgIds : ReadNew(m) /\ Take(w, m, FALSE)

(* Variants of Route: a delivery already on its last attempt is retried;  *)
(* one whose lease ran out on its last attempt is only touched; a          *)
(* reclaimed failed delivery is treated as a fresh retry.                  *)
RouteOffByOne(s, alive, again, attempt) ==
  LET last == attempt > MaxAttempts IN
  CASE s \in Terminal -> "ack"
    [] again /\ s = "running" /\ alive -> "touch"
    [] again /\ s = "running" /\ ~alive -> IF last THEN "expire" ELSE "retry"
    [] s = "failed" /\ last -> "ack"
    [] s = "failed" /\ ~last -> IF again THEN "retry" ELSE "premark"
    [] OTHER -> "start"

RouteTouchesExpired(s, alive, again, attempt) ==
  LET last == attempt >= MaxAttempts IN
  CASE s \in Terminal -> "ack"
    [] again /\ s = "running" -> IF alive \/ last THEN "touch" ELSE "retry"
    [] s = "failed" /\ last -> "ack"
    [] s = "failed" /\ ~last -> IF again THEN "retry" ELSE "premark"
    [] OTHER -> "start"

RouteRerunsFailed(s, alive, again, attempt) ==
  LET last == attempt >= MaxAttempts IN
  CASE s \in Terminal -> "ack"
    [] again /\ s = "running" /\ alive -> "touch"
    [] again /\ s = "running" /\ ~alive -> IF last THEN "expire" ELSE "retry"
    [] s = "failed" -> IF last THEN "ack" ELSE "premark"
    [] OTHER -> "start"

(* The branches of process_delivery on the row just loaded.  "premark" is  *)
(* the _mark_retry before execution, "expire" fails a job whose lease      *)
(* ran out on its last attempt.                                            *)
Route(s, alive, again, attempt) ==
  LET last == attempt >= MaxAttempts IN
  CASE s \in Terminal -> "ack"
    [] again /\ s = "running" /\ alive -> "touch"
    [] again /\ s = "running" /\ ~alive /\ last -> "expire"
    [] again /\ s = "running" /\ ~alive /\ ~last -> "retry"
    [] s = "failed" /\ last -> "ack"
    [] s = "failed" /\ ~last /\ again -> "retry"
    [] s = "failed" /\ ~last /\ ~again -> "premark"
    [] OTHER -> "start"

LoadJob(w) ==
  LET j == JobOf(w) IN
  /\ Goto(w, "load", Route(status[j], fresh[j], reclaimed[w], AttemptOf(w)))
  /\ reclaimed' = [reclaimed EXCEPT ![w] = FALSE]
  /\ UNCHANGED <<queueVars, jobVars, api, ran, faults>>

(* Another worker seems alive: renew the lease and leave the delivery. *)
TouchAndLeave(w) ==
  /\ Goto(w, "touch", "idle")
  /\ Touch(held[w])
  /\ UNCHANGED <<jobVars, reclaimed, api, ran, faults>>

FailExpired(w) ==
  /\ Goto(w, "expire", "ack")
  /\ FailJob(JobOf(w))
  /\ UNCHANGED <<queueVars, reclaimed, api, ran, faults>>

AckDelivery(w) ==
  /\ Goto(w, "ack", "idle")
  /\ Ack(held[w])
  /\ UNCHANGED <<jobVars, reclaimed, api, ran, faults>>

(* queue.retry raises when XACK finds nothing, and main then returns 2:   *)
(* the attempt it published stays in the stream.                          *)
PublishRetry(w) ==
  /\ Goto(w, "retry", IF Pending(held[w]) THEN "mark" ELSE "down")
  /\ Retry(held[w])
  /\ UNCHANGED <<jobVars, reclaimed, api, ran, faults>>

(* _mark_retry: requeue_job's read, then its commit *)
MarkRead(w) ==
  /\ \/ Goto(w, "mark", IF RequeueReads(JobOf(w)) THEN "markWrite" ELSE "idle")
     \/ Goto(w, "premark", IF RequeueReads(JobOf(w)) THEN "premarkWrite" ELSE "start")
  /\ UNCHANGED <<queueVars, jobVars, reclaimed, api, ran, faults>>

MarkWrite(w) ==
  /\ \/ Goto(w, "markWrite", "idle")
     \/ Goto(w, "premarkWrite", "start")
  /\ RequeueWrites(JobOf(w))
  /\ UNCHANGED <<queueVars, reclaimed, api, ran, faults>>

-----------------------------------------------------------------------------
(* run_prepare_job and run_analyze_job under _LeaseRenewer                 *)

StartRun(w) ==
  /\ Goto(w, "start", "run")
  /\ MarkJobRunning(JobOf(w))
  /\ ran' = ran \cup {held[w]}
  /\ UNCHANGED <<queueVars, reclaimed, api, faults>>

(* pulse: the renewal thread, at its interval *)
Pulse(w) ==
  /\ pc[w] \in Executing
  /\ Pending(held[w])
  /\ Touch(held[w])
  /\ TouchJobHeartbeat(JobOf(w))
  /\ UNCHANGED <<status, pc, held, reclaimed, api, ran, faults>>

(* on_progress: the same pulse from the runner's thread, then             *)
(* update_job_progress.                                                   *)
ProgressPulse(w) ==
  /\ Goto(w, "run", "progress")
  /\ Pending(held[w])
  /\ Touch(held[w])
  /\ TouchJobHeartbeat(JobOf(w))
  /\ UNCHANGED <<status, reclaimed, api, ran, faults>>

ProgressWrite(w) ==
  /\ Goto(w, "progress", "run")
  /\ UpdateJobProgress(JobOf(w))
  /\ UNCHANGED <<queueVars, reclaimed, api, ran, faults>>

FinishRun(w) ==
  /\ Goto(w, "run", "after")
  /\ CompleteJob(JobOf(w))
  /\ UNCHANGED <<queueVars, reclaimed, api, ran, faults>>

(* A failed result, an exception of the runner (a lost lease found by     *)
(* on_progress is one) or the storage gate before mark_job_running.       *)
FailRun(w) ==
  /\ \/ Goto(w, "run", "after")
     \/ Goto(w, "start", "after")
  /\ FailJob(JobOf(w))
  /\ ran' = ran \cup {held[w]}
  /\ UNCHANGED <<queueVars, reclaimed, api, faults>>

(* Variant: the attempt bound is off by one. *)
AfterRunOffByOne(w) ==
  LET s == status[JobOf(w)] IN
  /\ Goto(w, "after",
          IF s = "failed" /\ AttemptOf(w) <= MaxAttempts THEN "retry"
          ELSE IF s \in Terminal \cup {"failed"} THEN "ack" ELSE "idle")
  /\ UNCHANGED <<queueVars, jobVars, reclaimed, api, ran, faults>>

(* The row is loaded again; a non-terminal row leaves the delivery pending. *)
AfterRun(w) ==
  LET s == status[JobOf(w)] IN
  /\ Goto(w, "after",
          IF s = "failed" /\ AttemptOf(w) < MaxAttempts THEN "retry"
          ELSE IF s \in Terminal \cup {"failed"} THEN "ack" ELSE "idle")
  /\ UNCHANGED <<queueVars, jobVars, reclaimed, api, ran, faults>>

-----------------------------------------------------------------------------
(* Crashes and the clocks                                                  *)

(* Also any Redis or database error that leaves process_delivery: the     *)
(* worker's main returns 2 or dies with the exception.                    *)
Crash(w) ==
  /\ pc[w] # "down"
  /\ pc' = [pc EXCEPT ![w] = "down"]
  /\ held' = [held EXCEPT ![w] = 0]
  /\ reclaimed' = [reclaimed EXCEPT ![w] = FALSE]
  /\ Fault
  /\ UNCHANGED <<queueVars, jobVars, api, ran>>

Restart(w) ==
  /\ Goto(w, "down", "idle")
  /\ UNCHANGED <<queueVars, jobVars, reclaimed, api, ran, faults>>

LeaseExpires(m) ==
  /\ stream[m].state = "pending"
  /\ TimelyRenewal => \A w \in Workers : pc[w] \in HoldsLease => held[w] # m
  /\ stream' = SetState(m, "stale")
  /\ UNCHANGED <<lastId, jobVars, workerVars, api, ran, faults>>

JobHeartbeatExpires(j) ==
  /\ TimelyRenewal => \A w \in Workers : pc[w] \in Executing => JobOf(w) # j
  /\ HeartbeatExpires(j)
  /\ UNCHANGED <<queueVars, workerVars, api, ran, faults>>

-----------------------------------------------------------------------------

ApiNext(j) ==
  \/ Submit(j) \/ EnqueueJob(j) \/ EnqueueReplyLost(j) \/ EnqueueRefused(j)
  \/ Reject(j) \/ ApiCrash(j)

Process(w) ==
  \/ ReceiveReclaimed(w) \/ ReceiveNew(w) \/ LoadJob(w)
  \/ TouchAndLeave(w) \/ FailExpired(w) \/ AckDelivery(w)
  \/ PublishRetry(w) \/ MarkRead(w) \/ MarkWrite(w)
  \/ StartRun(w) \/ ProgressWrite(w) \/ AfterRun(w)

EndRun(w) == FinishRun(w) \/ FailRun(w)

WorkerNext(w) ==
  \/ Process(w) \/ EndRun(w) \/ Pulse(w) \/ ProgressPulse(w)
  \/ Crash(w) \/ Restart(w)

Next ==
  \/ \E j \in Jobs : ApiNext(j) \/ JobHeartbeatExpires(j)
  \/ \E w \in Workers : WorkerNext(w)
  \/ \E m \in MsgIds : LeaseExpires(m)

Spec == Init /\ [][Next]_vars

(* A worker that can take a step takes one, the supervisor restarts it,   *)
(* the clocks advance, and an analysis has finitely many progress         *)
(* callbacks: it cannot report progress for ever.                         *)
Fairness ==
  /\ \A w \in Workers : /\ WF_vars(Process(w))
                        /\ SF_vars(EndRun(w))
                        /\ WF_vars(Restart(w))
  /\ \A j \in Jobs : /\ WF_vars(EnqueueJob(j))
                     /\ WF_vars(Reject(j))
                     /\ WF_vars(JobHeartbeatExpires(j))
  /\ \A m \in MsgIds : WF_vars(LeaseExpires(m))

FairSpec == Spec /\ Fairness

-----------------------------------------------------------------------------
(* Properties                                                              *)

(* Every variable has its type; with it, no delivery carries an attempt    *)
(* beyond max_attempts (QueueEnvelope.validate).                           *)
TypeOK ==
  /\ stream \in [MsgIds -> Entry]
  /\ lastId \in 0..MaxMsgs
  /\ status \in [Jobs -> Status]
  /\ fresh \in [Jobs -> BOOLEAN]
  /\ pc \in [Workers -> WorkerState]
  /\ held \in [Workers -> 0..MaxMsgs]
  /\ reclaimed \in [Workers -> BOOLEAN]
  /\ api \in [Jobs -> ApiState]
  /\ ran \subseteq MsgIds
  /\ faults \in 0..MaxFaults

(* While live workers renew their leases in time, a job has at most one    *)
(* delivery in the stream: retry replaces the delivery it acknowledges and *)
(* reclaim hands over the one a dead worker left.                          *)
OneLiveDelivery ==
  TimelyRenewal =>
    \A m, n \in MsgIds :
      Live(m) /\ Live(n) /\ stream[m].job = stream[n].job => m = n

(* While live workers renew their leases in time, two workers never        *)
(* execute the same job, whatever crashes, reclaims, stale reads of the    *)
(* row and late requeues happened before.                                  *)
ExclusiveExecution ==
  TimelyRenewal =>
    \A v, w \in Workers :
      pc[v] \in Executing /\ pc[w] \in Executing /\ JobOf(v) = JobOf(w) => v = w

(* A worker that would act on a delivery (run it, retry it, acknowledge    *)
(* it) still has its lease and shares it with nobody.                      *)
LeaseHeld ==
  TimelyRenewal =>
    \A w \in Workers :
      pc[w] \in HoldsLease =>
        /\ stream[held[w]].state = "pending"
        /\ \A v \in Workers : pc[v] \in HoldsLease /\ held[v] = held[w] => v = w

(* The token of each job in the stream, for the refinement: its last       *)
(* attempt, spent once no delivery of the job is live.                     *)
Deliveries(j) == {m \in MsgIds : stream[m].job = j}

LastAttempt(j) ==
  IF Deliveries(j) = {} THEN 0
  ELSE stream[CHOOSE m \in Deliveries(j) : \A n \in Deliveries(j) : n <= m].attempt

Delivery == INSTANCE TenderJobDelivery WITH
  attempt <- [j \in Jobs |-> LastAttempt(j)],
  spent <- {j \in Jobs : Deliveries(j) # {} /\ \A m \in Deliveries(j) : ~Live(m)},
  executing <- {JobOf(w) : w \in {v \in Workers : pc[v] \in Executing}}

(* Queue, workers and crashes together implement the delivery promise of   *)
(* TenderJobDelivery.                                                      *)
ImplementsDelivery == Delivery!Spec

(* Every published delivery is eventually acknowledged or replaced, and a  *)
(* submitted job ends with no delivery left in the stream.                 *)
DeliveriesDrain ==
  \A j \in Jobs : api[j] = "done" ~> \A m \in MsgIds : stream[m].job = j => ~Live(m)

(* The retry of a job is published before its row is requeued (worker.py:  *)
(* queue.retry, then _mark_retry).  RequeueFirst: no other worker is given *)
(* the job in between.                                                     *)
Inside(w) == pc[w] \notin {"idle", "down"}

RequeueFirst ==
  \A v, w \in Workers :
    v # w /\ pc[v] \in {"mark", "markWrite"} /\ Inside(w) => JobOf(v) # JobOf(w)

PromptSpec == Init /\ [][Next /\ RequeueFirst']_vars

FairPromptSpec == PromptSpec /\ Fairness

(* A submitted job that PostgreSQL shows as queued or running always has a *)
(* delivery that some worker holds or will receive.                        *)
NoStrandedJob ==
  \A j \in Jobs :
    api[j] = "done" /\ status[j] \in {"queued", "running"} =>
      \E m \in MsgIds : Live(m) /\ stream[m].job = j

(* A submitted job is in the end completed or failed and stays so.         *)
JobSettles ==
  \A j \in Jobs : api[j] = "done" ~> [](status[j] \in {"completed", "failed"})

(* One delivery is executed at most once: a crash costs its attempt and a  *)
(* reclaimed delivery moves to the next attempt instead of running again.  *)
DeliveryRunsOnce ==
  [][\A w \in Workers : StartRun(w) => held[w] \notin ran]_vars

(* docs/tender_research/durable_worker_runtime.md: "A final failed         *)
(* PostgreSQL job is not resurrected after its attempt budget is           *)
(* exhausted."                                                             *)
BudgetExhausted(j) ==
  /\ status[j] = "failed"
  /\ \E m \in MsgIds : /\ stream[m].job = j
                       /\ stream[m].attempt = MaxAttempts
                       /\ stream[m].state = "gone"

ExhaustedJobStaysFailed ==
  [][\A j \in Jobs : BudgetExhausted(j) => status'[j] = "failed"]_vars
=============================================================================
