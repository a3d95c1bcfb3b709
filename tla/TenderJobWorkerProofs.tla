------------------------ MODULE TenderJobWorkerProofs ------------------------
(***************************************************************************)
(* Theorems about TenderJobWorker, for every set of jobs and workers,      *)
(* every attempt budget and every number of faults.                        *)
(***************************************************************************)
EXTENDS TenderJobWorker, TLAPS

(* A stream id up to lastId carries a job and a positive attempt; the ids  *)
(* above it are unused.                                                    *)
StreamInv ==
  \A m \in MsgIds :
    IF m <= lastId
    THEN stream[m].job \in Jobs /\ stream[m].attempt > 0 /\ stream[m].state # "absent"
    ELSE stream[m].job = NoJob /\ stream[m].state = "absent"

(* A worker inside process_delivery holds a delivery of the stream, and    *)
(* one about to publish a retry has an attempt left to publish.            *)
HeldInv ==
  \A w \in Workers :
    /\ pc[w] \notin {"idle", "down"} => held[w] \in 1..lastId
    /\ pc[w] = "retry" => stream[held[w]].attempt < MaxAttempts

(* No delivery of a job exists before its request has enqueued it.         *)
FirstDeliveryInv ==
  \A j \in Jobs :
    api[j] \in {"none", "created"} => \A m \in MsgIds : stream[m].job # j

IInv == TypeOK /\ StreamInv /\ HeldInv /\ FirstDeliveryInv

LEMMA InitIInv == Init => IInv
  BY QueueAssumption, WorkerAssumption
  DEF Init, QueueInit, JobInit, IInv, TypeOK, StreamInv, HeldInv, FirstDeliveryInv,
      MsgIds, Entry, Status, WorkerState, HoldsLease, Executing, ApiState

(* The API steps preserve IInv. *)
LEMMA ApiIInv == ASSUME IInv, NEW j \in Jobs, ApiNext(j) PROVE IInv'
  <1> USE QueueAssumption, WorkerAssumption
      DEF IInv, TypeOK, StreamInv, HeldInv, FirstDeliveryInv, MsgIds, Entry, Status,
          ApiState, workerVars, queueVars, jobVars, Fault, Write, Published
  <1>1. CASE Submit(j)
    BY <1>1 DEF Submit, CreateJob
  <1>2. CASE EnqueueJob(j)
    BY <1>2 DEF EnqueueJob, Enqueue
  <1>3. CASE EnqueueReplyLost(j)
    BY <1>3 DEF EnqueueReplyLost, Enqueue
  <1>4. CASE EnqueueRefused(j)
    BY <1>4 DEF EnqueueRefused
  <1>5. CASE Reject(j)
    BY <1>5 DEF Reject, FailJob
  <1>6. CASE ApiCrash(j)
    BY <1>6 DEF ApiCrash
  <1>7. QED
    BY <1>1, <1>2, <1>3, <1>4, <1>5, <1>6 DEF ApiNext

(* The rows and the stream keep their shape; entries change state only. *)
RowsTyped == status' \in [Jobs -> Status] /\ fresh' \in [Jobs -> BOOLEAN]

EntriesKept ==
  /\ lastId' = lastId
  /\ stream' \in [MsgIds -> Entry]
  /\ \A m \in MsgIds : /\ stream'[m].job = stream[m].job
                       /\ stream'[m].attempt = stream[m].attempt
                       /\ stream'[m].state = "absent" <=> stream[m].state = "absent"

LEMMA Holding ==
  ASSUME IInv, NEW w \in Workers, pc[w] \notin {"idle", "down"}
  PROVE  held[w] \in MsgIds /\ held[w] <= lastId /\ stream[held[w]] \in Entry
         /\ JobOf(w) \in Jobs
  BY DEF IInv, TypeOK, StreamInv, HeldInv, MsgIds, JobOf

LEMMA WriteTyped ==
  ASSUME IInv, NEW j \in Jobs, NEW s \in Status, Write(j, s)
  PROVE  RowsTyped
  BY DEF IInv, TypeOK, Write, RowsTyped

LEMMA HeartbeatTyped ==
  ASSUME IInv, NEW j, TouchJobHeartbeat(j), UNCHANGED status
  PROVE  RowsTyped
  BY DEF IInv, TypeOK, TouchJobHeartbeat, RowsTyped

LEMMA SetStateKept ==
  ASSUME IInv, NEW m \in MsgIds, m <= lastId, lastId' = lastId,
         NEW s \in {"new", "pending", "stale", "gone"}, stream' = SetState(m, s)
  PROVE  EntriesKept
  BY DEF IInv, TypeOK, StreamInv, SetState, EntriesKept, Entry

LEMMA TouchKept ==
  ASSUME IInv, NEW m \in MsgIds, m <= lastId, Touch(m)
  PROVE  EntriesKept
  <1>1. CASE Pending(m)
    BY <1>1, SetStateKept DEF Touch
  <1>2. CASE ~Pending(m)
    BY <1>2 DEF Touch, EntriesKept, IInv, TypeOK
  <1>3. QED
    BY <1>1, <1>2

(* The effect of Goto on the worker's own variables. *)
LEMMA GotoEffect ==
  ASSUME IInv, NEW w \in Workers, NEW from \in WorkerState, NEW to \in WorkerState,
         Goto(w, from, to)
  PROVE  /\ pc' \in [Workers -> WorkerState] /\ held' \in [Workers -> 0..MaxMsgs]
         /\ pc'[w] = to
         /\ to \notin {"idle", "down"} => held'[w] = held[w]
         /\ \A v \in Workers : v # w => pc'[v] = pc[v] /\ held'[v] = held[v]
  BY QueueAssumption DEF IInv, TypeOK, Goto

(* A step of process_delivery that changes no attempt and no job of the    *)
(* stream preserves IInv.                                                  *)
LEMMA LocalStep ==
  ASSUME IInv, NEW w \in Workers, NEW to \in WorkerState,
         NEW from \in WorkerState \ {"idle"}, from = "down" => to = "idle",
         Goto(w, from, to), to = "retry" => AttemptOf(w) < MaxAttempts,
         EntriesKept, RowsTyped, reclaimed' \in [Workers -> BOOLEAN], api' = api,
         ran' \subseteq MsgIds, faults' \in 0..MaxFaults
  PROVE  IInv'
  <1>1. TypeOK'
    BY GotoEffect DEF IInv, TypeOK, EntriesKept, RowsTyped, MsgIds, Entry
  <1>2. StreamInv'
    BY DEF IInv, StreamInv, EntriesKept
  <1>3. HeldInv'
    <2>1. from # "down" => held[w] \in 1..lastId
      BY DEF Goto, IInv, HeldInv
    <2>2. \A v \in Workers : pc[v] \notin {"idle", "down"} => held[v] \in MsgIds
      BY Holding
    <2>3. SUFFICES ASSUME NEW v \in Workers
                   PROVE  /\ pc'[v] \notin {"idle", "down"} => held'[v] \in 1..lastId'
                          /\ pc'[v] = "retry" => stream'[held'[v]].attempt < MaxAttempts
      BY DEF HeldInv
    <2>4. CASE v # w
      BY <2>2, <2>4, GotoEffect DEF IInv, HeldInv, EntriesKept
    <2>5. CASE v = w
      <3>1. pc'[w] = to /\ (to \notin {"idle", "down"} => held'[w] = held[w])
        BY GotoEffect
      <3>2. to \notin {"idle", "down"} => held[w] \in 1..lastId /\ held[w] \in MsgIds
        BY <2>1, <2>2 DEF Goto
      <3>3. to = "retry" => stream'[held[w]].attempt < MaxAttempts
        BY <3>2 DEF EntriesKept, AttemptOf
      <3>4. QED
        BY <2>5, <3>1, <3>2, <3>3 DEF EntriesKept
    <2>6. QED
      BY <2>4, <2>5
  <1>4. FirstDeliveryInv'
    BY DEF IInv, FirstDeliveryInv, EntriesKept
  <1>5. QED
    BY <1>1, <1>2, <1>3, <1>4 DEF IInv

(* A delivery taken from the stream is one of its entries. *)
LEMMA TakeIInv ==
  ASSUME IInv, NEW w \in Workers, NEW m \in MsgIds, NEW again \in BOOLEAN,
         m <= lastId, EntriesKept, Take(w, m, again)
  PROVE  IInv'
  <1>1. /\ pc' \in [Workers -> WorkerState] /\ held' \in [Workers -> 0..MaxMsgs]
        /\ reclaimed' \in [Workers -> BOOLEAN]
        /\ pc'[w] = "load" /\ held'[w] = m
        /\ \A v \in Workers : v # w => pc'[v] = pc[v] /\ held'[v] = held[v]
    BY DEF Take, IInv, TypeOK, WorkerState, HoldsLease, MsgIds
  <1>2. TypeOK'
    BY <1>1 DEF Take, jobVars, IInv, TypeOK, EntriesKept
  <1>3. StreamInv' /\ FirstDeliveryInv'
    BY DEF Take, IInv, StreamInv, FirstDeliveryInv, EntriesKept
  <1>4. \A v \in Workers : pc[v] \notin {"idle", "down"} => held[v] \in MsgIds
    BY Holding
  <1>5. HeldInv'
    BY <1>1, <1>4 DEF IInv, HeldInv, EntriesKept, MsgIds
  <1>6. QED
    BY <1>2, <1>3, <1>5 DEF IInv

(* The worker steps preserve IInv. *)
LEMMA WorkerIInv == ASSUME IInv, NEW w \in Workers, WorkerNext(w) PROVE IInv'
  <1> USE DEF queueVars, jobVars
  <1>t. /\ RowsTyped <=> status' \in [Jobs -> Status] /\ fresh' \in [Jobs -> BOOLEAN]
        /\ UNCHANGED jobVars => RowsTyped
        /\ UNCHANGED queueVars => EntriesKept
        /\ reclaimed \in [Workers -> BOOLEAN] /\ ran \subseteq MsgIds
        /\ faults \in 0..MaxFaults
    BY DEF IInv, TypeOK, RowsTyped, EntriesKept
  <1>h. pc[w] \notin {"idle", "down"} =>
          held[w] \in MsgIds /\ held[w] <= lastId /\ JobOf(w) \in Jobs
    BY Holding
  <1>1. CASE ReceiveReclaimed(w)
    <2>1. PICK m \in MsgIds : ReclaimStale(m) /\ Take(w, m, TRUE)
      BY <1>1 DEF ReceiveReclaimed
    <2>2. stream[m].state = "stale" /\ m <= lastId
      BY <2>1 DEF ReclaimStale, Oldest, Reclaimable, IInv, StreamInv
    <2>3. QED
      BY <2>1, <2>2, SetStateKept, TakeIInv DEF ReclaimStale
  <1>2. CASE ReceiveNew(w)
    <2>1. PICK m \in MsgIds : ReadNew(m) /\ Take(w, m, FALSE)
      BY <1>2 DEF ReceiveNew
    <2>2. stream[m].state = "new" /\ m <= lastId
      BY <2>1 DEF ReadNew, Oldest, Unread, IInv, StreamInv
    <2>3. QED
      BY <2>1, <2>2, SetStateKept, TakeIInv DEF ReadNew
  <1>3. CASE LoadJob(w)
    <2> DEFINE to == Route(status[JobOf(w)], fresh[JobOf(w)], reclaimed[w], AttemptOf(w))
    <2>1. AttemptOf(w) \in Nat
      BY <1>3, Holding DEF LoadJob, Goto, AttemptOf, Entry
    <2>2. to \in WorkerState /\ (to = "retry" => AttemptOf(w) < MaxAttempts)
      BY <2>1, QueueAssumption DEF Route, WorkerState, HoldsLease
    <2>3. Goto(w, "load", to) /\ reclaimed' \in [Workers -> BOOLEAN]
      BY <1>3, <1>t DEF LoadJob
    <2>4. QED
      BY <1>3, <1>t, <2>2, <2>3, LocalStep DEF LoadJob, WorkerState, HoldsLease
  <1>4. CASE TouchAndLeave(w)
    <2>1. EntriesKept
      BY <1>4, <1>h, TouchKept DEF TouchAndLeave, Goto
    <2>2. QED
      BY <1>4, <1>t, <2>1, LocalStep DEF TouchAndLeave, WorkerState, HoldsLease
  <1>5. CASE FailExpired(w)
    <2>1. RowsTyped
      BY <1>5, <1>h, WriteTyped DEF FailExpired, FailJob, Goto, Status
    <2>2. QED
      BY <1>5, <1>t, <2>1, LocalStep DEF FailExpired, WorkerState, HoldsLease
  <1>6. CASE AckDelivery(w)
    <2>1. EntriesKept
      BY <1>6, <1>h, SetStateKept DEF AckDelivery, Ack, Goto
    <2>2. QED
      BY <1>6, <1>t, <2>1, LocalStep DEF AckDelivery, WorkerState, HoldsLease
  <1>8. CASE MarkRead(w)
    BY <1>8, <1>t, LocalStep DEF MarkRead, WorkerState, HoldsLease
  <1>9. CASE MarkWrite(w)
    <2>1. RowsTyped
      BY <1>9, <1>h, WriteTyped DEF MarkWrite, RequeueWrites, Goto, Status
    <2>2. QED
      BY <1>9, <1>t, <2>1, LocalStep DEF MarkWrite, WorkerState, HoldsLease
  <1>10. CASE StartRun(w)
    <2>1. RowsTyped /\ ran' \subseteq MsgIds
      BY <1>10, <1>h, <1>t, WriteTyped DEF StartRun, MarkJobRunning, Goto, Status
    <2>2. QED
      BY <1>10, <1>t, <2>1, LocalStep
      DEF StartRun, WorkerState, HoldsLease, Executing
  <1>11. CASE ProgressWrite(w)
    <2>1. RowsTyped
      BY <1>11, <1>h, WriteTyped DEF ProgressWrite, UpdateJobProgress, Goto, Status
    <2>2. QED
      BY <1>11, <1>t, <2>1, LocalStep
      DEF ProgressWrite, WorkerState, HoldsLease, Executing
  <1>12. CASE AfterRun(w)
    BY <1>12, <1>t, LocalStep DEF AfterRun, WorkerState, HoldsLease
  <1>13. CASE FinishRun(w)
    <2>1. RowsTyped
      BY <1>13, <1>h, WriteTyped DEF FinishRun, CompleteJob, Goto, Status
    <2>2. QED
      BY <1>13, <1>t, <2>1, LocalStep DEF FinishRun, WorkerState, HoldsLease, Executing
  <1>14. CASE FailRun(w)
    <2>1. RowsTyped /\ ran' \subseteq MsgIds
      BY <1>14, <1>h, <1>t, WriteTyped DEF FailRun, FailJob, Goto, Status
    <2>2. QED
      BY <1>14, <1>t, <2>1, LocalStep DEF FailRun, WorkerState, HoldsLease, Executing
  <1>15. CASE ProgressPulse(w)
    <2>1. EntriesKept
      BY <1>15, <1>h, TouchKept DEF ProgressPulse, Goto
    <2>2. RowsTyped
      BY <1>15, HeartbeatTyped DEF ProgressPulse
    <2>3. QED
      BY <1>15, <1>t, <2>1, <2>2, LocalStep
      DEF ProgressPulse, WorkerState, HoldsLease, Executing
  <1>16. CASE Pulse(w)
    <2>1. EntriesKept
      BY <1>16, <1>h, TouchKept DEF Pulse, Executing
    <2>4. RowsTyped
      BY <1>16, HeartbeatTyped DEF Pulse
    <2>2. \A v \in Workers : pc[v] \notin {"idle", "down"} => held[v] \in MsgIds
      BY Holding
    <2>3. QED
      BY <1>16, <1>t, <2>1, <2>2, <2>4
      DEF Pulse, IInv, TypeOK, StreamInv, HeldInv, FirstDeliveryInv, EntriesKept, RowsTyped
  <1>17. CASE Restart(w)
    BY <1>17, <1>t, LocalStep DEF Restart, WorkerState, HoldsLease
  <1>18. CASE Crash(w)
    <2>1. /\ pc' \in [Workers -> WorkerState] /\ held' \in [Workers -> 0..MaxMsgs]
          /\ reclaimed' \in [Workers -> BOOLEAN] /\ faults' \in 0..MaxFaults
          /\ pc'[w] = "down"
          /\ \A v \in Workers : v # w => pc'[v] = pc[v] /\ held'[v] = held[v]
      BY <1>18, WorkerAssumption, QueueAssumption
      DEF Crash, Fault, IInv, TypeOK, WorkerState
    <2>2. TypeOK' /\ StreamInv' /\ FirstDeliveryInv'
      BY <1>18, <2>1 DEF Crash, IInv, TypeOK, StreamInv, FirstDeliveryInv
    <2>3. HeldInv'
      BY <1>18, <2>1 DEF Crash, IInv, HeldInv
    <2>4. QED
      BY <2>2, <2>3 DEF IInv
  <1>19. CASE PublishRetry(w)
    <2>1. /\ held[w] \in MsgIds /\ held[w] <= lastId /\ lastId + 1 \in MsgIds
          /\ lastId + 1 # held[w] /\ lastId \in Nat
      BY <1>19, <1>h, QueueAssumption DEF PublishRetry, Retry, Goto, IInv, TypeOK, MsgIds
    <2>2. stream[held[w]].attempt \in 1..(MaxAttempts - 1) /\ JobOf(w) \in Jobs
      BY <1>19, Holding, QueueAssumption
      DEF PublishRetry, Goto, IInv, HeldInv, StreamInv, Entry
    <2>3. Published(JobOf(w), AttemptOf(w) + 1) \in Entry
      BY <2>2, QueueAssumption DEF Published, Entry, AttemptOf, JobOf
    <2>4. /\ stream' \in [MsgIds -> Entry]
          /\ \A m \in MsgIds \ {lastId + 1} :
               /\ stream'[m].job = stream[m].job /\ stream'[m].attempt = stream[m].attempt
               /\ stream'[m].state = "absent" => stream[m].state = "absent"
               /\ m # held[w] => stream'[m] = stream[m]
          /\ stream'[lastId + 1] = Published(JobOf(w), AttemptOf(w) + 1)
          /\ lastId' = lastId + 1
      BY <1>19, <2>1, <2>3 DEF PublishRetry, Retry, IInv, TypeOK, Entry, JobOf, AttemptOf
    <2>5. PICK to \in {"mark", "down"} : Goto(w, "retry", to)
      BY <1>19 DEF PublishRetry
    <2>6. pc' \in [Workers -> WorkerState] /\ held' \in [Workers -> 0..MaxMsgs]
          /\ pc'[w] \in {"mark", "down"} /\ (pc'[w] # "down" => held'[w] = held[w])
          /\ \A v \in Workers : v # w => pc'[v] = pc[v] /\ held'[v] = held[v]
      <3>1. to \in WorkerState /\ "retry" \in WorkerState
        BY DEF WorkerState, HoldsLease
      <3>2. QED
        BY <2>5, <3>1, GotoEffect
    <2>7. TypeOK'
      BY <1>19, <2>1, <2>4, <2>6 DEF PublishRetry, IInv, TypeOK, MsgIds
    <2>8. StreamInv'
      BY <2>1, <2>2, <2>4 DEF IInv, StreamInv, Published, AttemptOf, MsgIds
    <2>9. HeldInv'
      <3>1. SUFFICES ASSUME NEW v \in Workers
                     PROVE  /\ pc'[v] \notin {"idle", "down"} => held'[v] \in 1..lastId'
                            /\ pc'[v] = "retry" => stream'[held'[v]].attempt < MaxAttempts
        BY DEF HeldInv
      <3>2. CASE v = w
        BY <3>2, <2>1, <2>4, <2>6 DEF MsgIds
      <3>3. CASE v # w
        <4>1. pc[v] \notin {"idle", "down"} =>
                held[v] \in MsgIds \ {lastId + 1} /\ held[v] \in 1..lastId
          BY <2>1, Holding DEF IInv, HeldInv, MsgIds
        <4>2. QED
          BY <2>1, <2>4, <2>6, <3>3, <4>1 DEF IInv, HeldInv, TypeOK
      <3>4. QED
        BY <3>2, <3>3
    <2>10. FirstDeliveryInv'
      BY <1>19, <2>1, <2>2, <2>4
      DEF PublishRetry, IInv, FirstDeliveryInv, Published, JobOf
    <2>11. QED
      BY <2>7, <2>8, <2>9, <2>10 DEF IInv
  <1>20. QED
    BY <1>1, <1>2, <1>3, <1>4, <1>5, <1>6, <1>8, <1>9, <1>10, <1>11, <1>12, <1>13,
       <1>14, <1>15, <1>16, <1>17, <1>18, <1>19 DEF WorkerNext, Process, EndRun

LEMMA StepIInv == IInv /\ [Next]_vars => IInv'
  <1> SUFFICES ASSUME IInv, [Next]_vars PROVE IInv'
    OBVIOUS
  <1>1. CASE \E j \in Jobs : ApiNext(j)
    BY <1>1, ApiIInv
  <1>2. CASE \E w \in Workers : WorkerNext(w)
    BY <1>2, WorkerIInv
  <1>3. CASE \E j \in Jobs : JobHeartbeatExpires(j)
    BY <1>3 DEF JobHeartbeatExpires, HeartbeatExpires, queueVars, workerVars, IInv,
      TypeOK, StreamInv, HeldInv, FirstDeliveryInv
  <1>4. ASSUME NEW m \in MsgIds, LeaseExpires(m)
        PROVE  IInv'
    <2>1. UNCHANGED <<lastId, status, fresh, pc, held, reclaimed, api, ran, faults>>
      BY <1>4 DEF LeaseExpires, jobVars, workerVars
    <2>2. m <= lastId
      BY <1>4 DEF LeaseExpires, IInv, TypeOK, StreamInv, MsgIds
    <2>3. EntriesKept
      BY <1>4, <2>1, <2>2, SetStateKept DEF LeaseExpires
    <2>4. TypeOK'
      BY <2>1, <2>3 DEF IInv, TypeOK, EntriesKept
    <2>5. StreamInv'
      BY <2>3 DEF IInv, StreamInv, EntriesKept
    <2>6. HeldInv'
      <3>1. \A w \in Workers : pc[w] \notin {"idle", "down"} => held[w] \in MsgIds
        BY Holding
      <3>2. QED
        BY <2>1, <2>3, <3>1 DEF IInv, HeldInv, EntriesKept
    <2>7. FirstDeliveryInv'
      BY <2>1, <2>3 DEF IInv, FirstDeliveryInv, EntriesKept
    <2>8. QED
      BY <2>4, <2>5, <2>6, <2>7 DEF IInv
  <1>5. CASE UNCHANGED vars
    BY <1>5 DEF vars, IInv, TypeOK, StreamInv, HeldInv, FirstDeliveryInv
  <1>6. QED
    BY <1>1, <1>2, <1>3, <1>4, <1>5 DEF Next

LEMMA Inductive == Spec => []IInv
  BY InitIInv, StepIInv, PTL DEF Spec

(* Type correctness of every reachable state; in particular no delivery    *)
(* ever carries more than max_attempts attempts.                           *)
THEOREM TypeCorrect == Spec => []TypeOK
  <1>1. IInv => TypeOK
    BY DEF IInv
  <1>2. QED
    BY <1>1, Inductive, PTL

-----------------------------------------------------------------------------
(* Mutual exclusion of the leases.  LeaseInv is inductive relative to      *)
(* IInv: a stale or unread delivery has no live holder, so handing it over *)
(* creates the only one; a retry retires the only live delivery of its job *)
(* in the step that publishes the next.                                    *)

LeaseInv == LeaseHeld /\ OneLiveDelivery

LEMMA InitLease == Init => LeaseInv
  BY DEF Init, QueueInit, LeaseInv, LeaseHeld, OneLiveDelivery, HoldsLease, Executing, Live

(* A step that leaves the stream alone and in which w takes no new lease.  *)
LEMMA QuietStep ==
  ASSUME LeaseInv, NEW w \in Workers, stream' = stream,
         \A v \in Workers : v # w => pc'[v] = pc[v] /\ held'[v] = held[v],
         pc'[w] \in HoldsLease => pc[w] \in HoldsLease /\ held'[w] = held[w]
  PROVE  LeaseInv'
  BY DEF LeaseInv, LeaseHeld, OneLiveDelivery, Live

(* Taking a delivery that is stale or unread.                              *)
LEMMA TakeLease ==
  ASSUME IInv, LeaseInv, NEW w \in Workers, NEW m \in MsgIds, NEW again \in BOOLEAN,
         stream[m].state \in {"new", "stale"}, stream' = SetState(m, "pending"),
         Take(w, m, again)
  PROVE  LeaseInv'
  <1>1. /\ pc'[w] = "load" /\ held'[w] = m
        /\ \A v \in Workers : v # w => pc'[v] = pc[v] /\ held'[v] = held[v]
    BY DEF Take, IInv, TypeOK
  <1>2. /\ stream'[m].state = "pending" /\ stream'[m].job = stream[m].job
        /\ \A n \in MsgIds : n # m => stream'[n] = stream[n]
    BY DEF SetState, IInv, TypeOK, Entry
  <1>3. \A v \in Workers : pc[v] \in HoldsLease => held[v] \in MsgIds
    BY Holding DEF HoldsLease, Executing
  <1>4. ASSUME TimelyRenewal, NEW v \in Workers, pc[v] \in HoldsLease
        PROVE  held[v] # m
    BY <1>4 DEF LeaseInv, LeaseHeld
  <1>5. LeaseHeld'
    BY <1>1, <1>2, <1>3, <1>4 DEF LeaseInv, LeaseHeld
  <1>6. OneLiveDelivery'
    BY <1>2 DEF LeaseInv, OneLiveDelivery, Live
  <1>7. QED
    BY <1>5, <1>6 DEF LeaseInv

(* Publishing the first delivery of a job. *)
LEMMA EnqueueLease ==
  ASSUME IInv, LeaseInv, NEW j \in Jobs, Enqueue(j), UNCHANGED workerVars,
         api[j] = "created"
  PROVE  LeaseInv'
  <1>1. /\ lastId + 1 \in MsgIds /\ stream[lastId + 1].state = "absent"
        /\ stream'[lastId + 1].job = j
        /\ \A n \in MsgIds : n # lastId + 1 => stream'[n] = stream[n]
    BY QueueAssumption DEF Enqueue, IInv, TypeOK, StreamInv, MsgIds, Published
  <1>2. \A v \in Workers : pc[v] \in HoldsLease => held[v] \in MsgIds
    BY Holding DEF HoldsLease, Executing
  <1>3. LeaseHeld'
    BY <1>1, <1>2 DEF LeaseInv, LeaseHeld, workerVars
  <1>4. \A n \in MsgIds : stream[n].job # j
    BY DEF IInv, FirstDeliveryInv
  <1>5. OneLiveDelivery'
    BY <1>1, <1>4 DEF LeaseInv, OneLiveDelivery, Live
  <1>6. QED
    BY <1>3, <1>5 DEF LeaseInv

(* Retiring the delivery the worker holds, with or without publishing the  *)
(* next attempt.                                                           *)
LEMMA AckLease ==
  ASSUME IInv, LeaseInv, NEW w \in Workers, AckDelivery(w)
  PROVE  LeaseInv'
  <1>1. /\ pc'[w] = "idle" /\ pc[w] = "ack" /\ held[w] \in MsgIds
        /\ \A v \in Workers : v # w => pc'[v] = pc[v] /\ held'[v] = held[v]
    BY Holding DEF AckDelivery, Goto, IInv, TypeOK
  <1>2. /\ stream'[held[w]].state = "gone"
        /\ \A n \in MsgIds : n # held[w] => stream'[n] = stream[n]
    BY <1>1 DEF AckDelivery, Ack, SetState, IInv, TypeOK, Entry
  <1>3. \A v \in Workers : pc[v] \in HoldsLease => held[v] \in MsgIds
    BY Holding DEF HoldsLease, Executing
  <1>4. LeaseHeld'
    BY <1>1, <1>2, <1>3 DEF LeaseInv, LeaseHeld, HoldsLease, Executing
  <1>5. OneLiveDelivery'
    BY <1>2 DEF LeaseInv, OneLiveDelivery, Live
  <1>6. QED
    BY <1>4, <1>5 DEF LeaseInv

LEMMA RetryLease ==
  ASSUME IInv, LeaseInv, NEW w \in Workers, PublishRetry(w)
  PROVE  LeaseInv'
  <1> DEFINE m == held[w]
             n == lastId + 1
  <1>1. /\ pc[w] = "retry" /\ pc'[w] \in {"mark", "down"}
        /\ m \in MsgIds /\ m <= lastId
        /\ \A v \in Workers : v # w => pc'[v] = pc[v] /\ held'[v] = held[v]
    BY Holding DEF PublishRetry, Goto, IInv, TypeOK
  <1>2. /\ n \in MsgIds /\ m # n /\ stream[n].state = "absent"
    BY <1>1, Holding, QueueAssumption
    DEF PublishRetry, Retry, IInv, TypeOK, StreamInv, MsgIds
  <1>3. /\ stream'[m].state = "gone" /\ stream'[n].job = stream[m].job
        /\ \A k \in MsgIds : k # m /\ k # n => stream'[k] = stream[k]
    BY <1>1, <1>2 DEF PublishRetry, Retry, Published, IInv, TypeOK, Entry
  <1>4. \A v \in Workers : pc[v] \in HoldsLease => held[v] \in MsgIds
    BY Holding DEF HoldsLease, Executing
  <1>5. LeaseHeld'
    BY <1>1, <1>2, <1>3, <1>4 DEF LeaseInv, LeaseHeld, HoldsLease, Executing
  <1>6. TimelyRenewal =>
          \A k \in MsgIds : Live(k) /\ stream[k].job = stream[m].job => k = m
    BY <1>1 DEF LeaseInv, LeaseHeld, OneLiveDelivery, Live, HoldsLease
  <1>7. OneLiveDelivery'
    BY <1>1, <1>2, <1>3, <1>6 DEF LeaseInv, OneLiveDelivery, Live
  <1>8. QED
    BY <1>5, <1>7 DEF LeaseInv

(* With TimelyRenewal the clock only takes the lease of a dead worker.     *)
LEMMA ExpiryLease ==
  ASSUME IInv, LeaseInv, NEW m \in MsgIds, LeaseExpires(m)
  PROVE  LeaseInv'
  <1>1. /\ stream'[m].job = stream[m].job /\ Live(m)
        /\ \A n \in MsgIds : n # m => stream'[n] = stream[n]
    BY DEF LeaseExpires, SetState, Live, IInv, TypeOK, Entry
  <1>2. \A v \in Workers : pc[v] \in HoldsLease => held[v] \in MsgIds
    BY Holding DEF HoldsLease, Executing
  <1>3. LeaseHeld'
    BY <1>1, <1>2 DEF LeaseInv, LeaseHeld, LeaseExpires, workerVars
  <1>4. OneLiveDelivery'
    BY <1>1 DEF LeaseInv, OneLiveDelivery, Live
  <1>5. QED
    BY <1>3, <1>4 DEF LeaseInv

LEMMA WorkerLease ==
  ASSUME IInv, LeaseInv, NEW w \in Workers, WorkerNext(w) PROVE LeaseInv'
  <1> DEFINE Quiet ==
        /\ stream' = stream
        /\ \A v \in Workers : v # w => pc'[v] = pc[v] /\ held'[v] = held[v]
        /\ pc'[w] \in HoldsLease => pc[w] \in HoldsLease /\ held'[w] = held[w]
  <1>q. Quiet => LeaseInv'
    BY QuietStep
  <1>t. TimelyRenewal /\ pc[w] \in HoldsLease =>
          (Touch(held[w]) => stream' = stream)
    <2>1. SUFFICES ASSUME TimelyRenewal, pc[w] \in HoldsLease, Touch(held[w])
                   PROVE  stream' = stream
      OBVIOUS
    <2>2. stream[held[w]].state = "pending"
      BY <2>1 DEF LeaseInv, LeaseHeld
    <2>3. held[w] \in MsgIds
      BY <2>1, Holding DEF HoldsLease, Executing
    <2>4. QED
      BY <2>1, <2>2, <2>3 DEF Touch, SetState, IInv, TypeOK, Entry
  <1>n. ~TimelyRenewal => LeaseInv'
    BY DEF LeaseInv, LeaseHeld, OneLiveDelivery
  <1>1. CASE ReceiveReclaimed(w)
    <2>1. PICK m \in MsgIds : ReclaimStale(m) /\ Take(w, m, TRUE)
      BY <1>1 DEF ReceiveReclaimed
    <2>2. stream[m].state = "stale" /\ stream' = SetState(m, "pending")
      BY <2>1 DEF ReclaimStale, Oldest, Reclaimable
    <2>3. QED
      BY <2>1, <2>2, TakeLease
  <1>2. CASE ReceiveNew(w)
    <2>1. PICK m \in MsgIds : ReadNew(m) /\ Take(w, m, FALSE)
      BY <1>2 DEF ReceiveNew
    <2>2. stream[m].state = "new" /\ stream' = SetState(m, "pending")
      BY <2>1 DEF ReadNew, Oldest, Unread
    <2>3. QED
      BY <2>1, <2>2, TakeLease
  <1>3. CASE LoadJob(w)
    <2>1. Quiet
      BY <1>3 DEF LoadJob, queueVars, Goto, IInv, TypeOK, HoldsLease, Executing
    <2>2. QED
      BY <2>1, <1>q
  <1>4. CASE TouchAndLeave(w)
    <2>1. TimelyRenewal => Quiet
      BY <1>4, <1>t DEF TouchAndLeave, Goto, IInv, TypeOK, HoldsLease, Executing
    <2>2. QED
      BY <2>1, <1>q, <1>n
  <1>5. CASE FailExpired(w) \/ StartRun(w) \/ ProgressWrite(w) \/ EndRun(w)
    <2>1. Quiet
      BY <1>5 DEF FailExpired, StartRun, ProgressWrite, EndRun, FinishRun, FailRun,
        queueVars, Goto, IInv, TypeOK, HoldsLease, Executing
    <2>2. QED
      BY <2>1, <1>q
  <1>6. CASE AckDelivery(w)
    BY <1>6, AckLease
  <1>7. CASE PublishRetry(w)
    BY <1>7, RetryLease
  <1>8. CASE MarkRead(w) \/ MarkWrite(w)
    <2>1. Quiet
      BY <1>8 DEF MarkRead, MarkWrite, queueVars, Goto, IInv, TypeOK, HoldsLease, Executing
    <2>2. QED
      BY <2>1, <1>q
  <1>9. CASE AfterRun(w)
    <2>1. Quiet
      BY <1>9 DEF AfterRun, queueVars, Goto, IInv, TypeOK, HoldsLease, Executing
    <2>2. QED
      BY <2>1, <1>q
  <1>10. CASE Pulse(w)
    <2>1. TimelyRenewal => Quiet
      BY <1>10, <1>t DEF Pulse, HoldsLease
    <2>2. QED
      BY <2>1, <1>q, <1>n
  <1>11. CASE ProgressPulse(w)
    <2>1. TimelyRenewal => Quiet
      BY <1>11, <1>t DEF ProgressPulse, Goto, IInv, TypeOK, HoldsLease, Executing
    <2>2. QED
      BY <2>1, <1>q, <1>n
  <1>12. CASE Crash(w) \/ Restart(w)
    <2>1. Quiet
      BY <1>12 DEF Crash, Restart, queueVars, Goto, IInv, TypeOK, HoldsLease, Executing
    <2>2. QED
      BY <2>1, <1>q
  <1>13. QED
    BY <1>1, <1>2, <1>3, <1>4, <1>5, <1>6, <1>7, <1>8, <1>9, <1>10, <1>11, <1>12
    DEF WorkerNext, Process

LEMMA StepLease == IInv /\ LeaseInv /\ [Next]_vars => LeaseInv'
  <1> SUFFICES ASSUME IInv, LeaseInv, [Next]_vars PROVE LeaseInv'
    OBVIOUS
  <1>1. ASSUME NEW j \in Jobs, ApiNext(j) PROVE LeaseInv'
    <2>1. CASE EnqueueJob(j) \/ EnqueueReplyLost(j)
      BY <2>1, EnqueueLease DEF EnqueueJob, EnqueueReplyLost
    <2>2. CASE Submit(j) \/ EnqueueRefused(j) \/ Reject(j) \/ ApiCrash(j)
      BY <2>2 DEF Submit, EnqueueRefused, Reject, ApiCrash, queueVars, workerVars,
        LeaseInv, LeaseHeld, OneLiveDelivery, Live
    <2>3. QED
      BY <1>1, <2>1, <2>2 DEF ApiNext
  <1>2. CASE \E w \in Workers : WorkerNext(w)
    BY <1>2, WorkerLease
  <1>3. CASE \E j \in Jobs : JobHeartbeatExpires(j)
    BY <1>3 DEF JobHeartbeatExpires, queueVars, workerVars, LeaseInv, LeaseHeld,
      OneLiveDelivery, Live
  <1>4. CASE \E m \in MsgIds : LeaseExpires(m)
    BY <1>4, ExpiryLease
  <1>5. CASE UNCHANGED vars
    BY <1>5 DEF vars, LeaseInv, LeaseHeld, OneLiveDelivery, Live
  <1>6. QED
    BY <1>1, <1>2, <1>3, <1>4, <1>5 DEF Next

LEMMA LeaseInductive == Spec => []LeaseInv
  BY InitLease, StepLease, Inductive, PTL DEF Spec

(* For every number of workers and crashes: with timely renewal a worker   *)
(* that acts on a delivery holds its lease alone.                          *)
THEOREM LeaseMutualExclusion == Spec => []LeaseHeld
  <1>1. LeaseInv => LeaseHeld
    BY DEF LeaseInv
  <1>2. QED
    BY <1>1, LeaseInductive, PTL

(* With timely renewal a job has at most one live delivery: retry and      *)
(* reclaim never duplicate it.                                             *)
THEOREM SingleDelivery == Spec => []OneLiveDelivery
  <1>1. LeaseInv => OneLiveDelivery
    BY DEF LeaseInv
  <1>2. QED
    BY <1>1, LeaseInductive, PTL

(* With timely renewal two workers never execute the same job.             *)
THEOREM NoConcurrentExecution == Spec => []ExclusiveExecution
  <1>1. IInv /\ LeaseInv => ExclusiveExecution
    <2>1. SUFFICES ASSUME IInv, LeaseInv, TimelyRenewal, NEW v \in Workers,
                          NEW w \in Workers, pc[v] \in Executing, pc[w] \in Executing,
                          JobOf(v) = JobOf(w)
                   PROVE  v = w
      BY DEF ExclusiveExecution
    <2>2. /\ held[v] \in MsgIds /\ held[w] \in MsgIds
          /\ pc[v] \in HoldsLease /\ pc[w] \in HoldsLease
      BY <2>1, Holding DEF HoldsLease, Executing
    <2>3. held[v] = held[w]
      BY <2>1, <2>2 DEF LeaseInv, LeaseHeld, OneLiveDelivery, Live, JobOf
    <2>4. QED
      BY <2>1, <2>2, <2>3 DEF LeaseInv, LeaseHeld
  <1>2. QED
    BY <1>1, LeaseInductive, Inductive, PTL
=============================================================================
