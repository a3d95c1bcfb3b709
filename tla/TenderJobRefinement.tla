------------------------- MODULE TenderJobRefinement -------------------------
(***************************************************************************)
(* Queue, workers and crashes implement TenderJobDelivery, for every set   *)
(* of jobs and workers, every attempt budget and every number of faults,   *)
(* while live workers renew their leases in time.                          *)
(***************************************************************************)
EXTENDS TenderJobWorkerProofs

(* The three variables of TenderJobDelivery in a state of the workers.     *)
Att  == [j \in Jobs |-> LastAttempt(j)]
Gone == {j \in Jobs : Deliveries(j) # {} /\ \A m \in Deliveries(j) : ~Live(m)}
Busy == {JobOf(w) : w \in {v \in Workers : pc[v] \in Executing}}

(* The stream has a last delivery of every job that was published, and a   *)
(* live delivery is the last one of its job: that is what makes the last   *)
(* attempt the token.                                                      *)
LastExists ==
  \A j \in Jobs : Deliveries(j) # {} =>
    \E m \in Deliveries(j) : \A n \in Deliveries(j) : n <= m

LiveIsLast ==
  \A m, n \in MsgIds : Live(m) /\ stream[n].job = stream[m].job => n <= m

TokenInv == LastExists /\ (TimelyRenewal => LiveIsLast)

-----------------------------------------------------------------------------
(* The token invariant *)

LEMMA InitToken == Init => TokenInv
  BY QueueAssumption
  DEF Init, QueueInit, TokenInv, LastExists, LiveIsLast, Deliveries, Live, MsgIds

(* Steps that publish nothing and revive nothing. *)
LEMMA KeptToken ==
  ASSUME LastExists, EntriesKept, \A m \in MsgIds : Live(m)' => Live(m)
  PROVE  LastExists' /\ (LiveIsLast => LiveIsLast')
  <1>1. \A j \in Jobs : Deliveries(j)' = Deliveries(j)
    BY DEF Deliveries, EntriesKept
  <1>2. LastExists'
    BY <1>1 DEF LastExists
  <1>3. LiveIsLast => LiveIsLast'
    BY DEF LiveIsLast, EntriesKept
  <1> QED BY <1>2, <1>3

(* A published delivery gets the largest id; it is the only live one when  *)
(* no older delivery of its job is live any more.                          *)
LEMMA PublishedToken ==
  ASSUME IInv, LastExists, NEW j \in Jobs, lastId + 1 \in MsgIds,
         stream'[lastId + 1].job = j,
         \A m \in MsgIds \ {lastId + 1} : stream'[m].job = stream[m].job,
         \A m \in MsgIds \ {lastId + 1} : Live(m)' => Live(m)
  PROVE  /\ LastExists'
         /\ (/\ LiveIsLast
             /\ \A m \in MsgIds \ {lastId + 1} : stream[m].job = j => ~ Live(m)')
              => LiveIsLast'
  <1> DEFINE n == lastId + 1
  <1>0. lastId \in Nat
    BY DEF IInv, TypeOK
  <1>1. \A m \in MsgIds : stream'[m].job \in Jobs => m <= n
    <2>1. \A m \in MsgIds \ {n} : stream'[m].job \in Jobs => m <= lastId
      BY QueueAssumption DEF IInv, StreamInv
    <2> QED BY <1>0, <2>1 DEF MsgIds
  <1>2. Deliveries(j)' = Deliveries(j) \cup {n}
    BY DEF Deliveries
  <1>3. \A i \in Jobs \ {j} : Deliveries(i)' = Deliveries(i)
    <2>1. \A i \in Jobs : stream[n].job # i
      BY <1>0, QueueAssumption DEF IInv, StreamInv
    <2> QED BY <2>1 DEF Deliveries
  <1>4. LastExists'
    <2>1. n \in Deliveries(j)' /\ \A m \in Deliveries(j)' : m <= n
      BY <1>1 DEF Deliveries
    <2>2. ASSUME NEW i \in Jobs \ {j}, Deliveries(i)' # {}
          PROVE  \E m \in Deliveries(i)' : \A k \in Deliveries(i)' : k <= m
      BY <1>3, <2>2 DEF LastExists
    <2> QED BY <2>1, <2>2 DEF LastExists
  <1>5. ASSUME LiveIsLast, \A m \in MsgIds \ {n} : stream[m].job = j => ~ Live(m)'
        PROVE  LiveIsLast'
    <2> SUFFICES ASSUME NEW m \in MsgIds, NEW k \in MsgIds,
                        Live(m)', stream'[k].job = stream'[m].job
                 PROVE  k <= m
      BY DEF LiveIsLast
    <2>1. CASE m = n
      BY <1>1, <2>1
    <2>2. CASE m # n /\ k # n
      BY <1>5, <2>2 DEF LiveIsLast
    <2>3. CASE m # n /\ k = n
      BY <1>5, <2>3
    <2> QED BY <2>1, <2>2, <2>3
  <1> QED BY <1>4, <1>5

(* The three ways a step treats the stream. *)
Quiet == EntriesKept /\ \A m \in MsgIds : Live(m)' <=> Live(m)

Publishes(j) ==
  /\ api[j] = "created"
  /\ Enqueue(j)

LEMMA TouchQuiet ==
  ASSUME IInv, NEW m \in MsgIds, m <= lastId, Touch(m)
  PROVE  Quiet
  <1>1. EntriesKept
    BY TouchKept
  <1> QED BY <1>1 DEF Quiet, Touch, SetState, Pending, Live, IInv, TypeOK, Entry

LEMMA PublishRow ==
  ASSUME IInv, NEW j \in Jobs, Publishes(j)
  PROVE  /\ lastId + 1 \in MsgIds /\ lastId \in Nat
         /\ stream'[lastId + 1].job = j /\ stream'[lastId + 1].attempt = 1
         /\ stream'[lastId + 1].state = "new"
         /\ \A m \in MsgIds \ {lastId + 1} : stream'[m] = stream[m]
         /\ \A m \in MsgIds : stream[m].job # j
  BY QueueAssumption DEF Publishes, Enqueue, Published, IInv, TypeOK, FirstDeliveryInv, MsgIds

LEMMA RetryRow ==
  ASSUME IInv, NEW w \in Workers, PublishRetry(w)
  PROVE  /\ lastId + 1 \in MsgIds /\ lastId \in Nat
         /\ held[w] \in MsgIds \ {lastId + 1}
         /\ JobOf(w) \in Jobs /\ AttemptOf(w) < MaxAttempts
         /\ stream'[lastId + 1].job = JobOf(w)
         /\ stream'[lastId + 1].attempt = AttemptOf(w) + 1
         /\ stream'[lastId + 1].state = "new"
         /\ stream'[held[w]].job = JobOf(w) /\ stream'[held[w]].attempt = AttemptOf(w)
         /\ stream'[held[w]].state = "gone"
         /\ \A m \in MsgIds \ {lastId + 1, held[w]} : stream'[m] = stream[m]
  <1>1. held[w] \in MsgIds /\ held[w] <= lastId /\ JobOf(w) \in Jobs
    BY Holding DEF PublishRetry, Goto
  <1>2. lastId + 1 \in MsgIds /\ lastId + 1 # held[w] /\ lastId \in Nat
    BY <1>1, QueueAssumption DEF PublishRetry, Retry, IInv, TypeOK, MsgIds
  <1>3. AttemptOf(w) < MaxAttempts
    BY DEF PublishRetry, Goto, IInv, HeldInv, AttemptOf
  <1> QED BY <1>1, <1>2, <1>3
          DEF PublishRetry, Retry, Published, IInv, TypeOK, JobOf, AttemptOf, Entry

LEMMA AckRow ==
  ASSUME IInv, NEW w \in Workers, AckDelivery(w)
  PROVE  /\ held[w] \in MsgIds /\ JobOf(w) \in Jobs
         /\ EntriesKept
         /\ stream'[held[w]].state = "gone"
         /\ \A m \in MsgIds \ {held[w]} : stream'[m] = stream[m]
  <1>1. held[w] \in MsgIds /\ held[w] <= lastId /\ JobOf(w) \in Jobs
    BY Holding DEF AckDelivery, Goto
  <1>2. EntriesKept
    BY <1>1, SetStateKept DEF AckDelivery, Ack
  <1> QED BY <1>1, <1>2 DEF AckDelivery, Ack, SetState, IInv, TypeOK, Entry

LEMMA StreamStep ==
  ASSUME IInv, [Next]_vars
  PROVE  \/ Quiet
         \/ \E j \in Jobs : Publishes(j) /\ UNCHANGED workerVars
         \/ \E w \in Workers : PublishRetry(w) \/ AckDelivery(w)
  <1>1. ASSUME NEW j \in Jobs, ApiNext(j)
        PROVE  Quiet \/ (Publishes(j) /\ UNCHANGED workerVars)
    BY <1>1 DEF ApiNext, Submit, EnqueueJob, EnqueueReplyLost, EnqueueRefused, Reject,
       ApiCrash, Publishes, queueVars, Quiet, EntriesKept, Live, IInv, TypeOK
  <1>2. ASSUME NEW w \in Workers, WorkerNext(w)
        PROVE  Quiet \/ PublishRetry(w) \/ AckDelivery(w)
    <2>1. ASSUME NEW m \in MsgIds, ReclaimStale(m) \/ ReadNew(m)
          PROVE  Quiet
      <3>1. m <= lastId /\ Live(m)
        BY <2>1 DEF ReclaimStale, ReadNew, Oldest, Reclaimable, Unread, Live, IInv, StreamInv
      <3>2. EntriesKept
        BY <2>1, <3>1, SetStateKept DEF ReclaimStale, ReadNew
      <3> QED BY <2>1, <3>1, <3>2
              DEF ReclaimStale, ReadNew, Quiet, SetState, Live, IInv, TypeOK, Entry
    <2>2. CASE ReceiveReclaimed(w) \/ ReceiveNew(w)
      BY <2>1, <2>2 DEF ReceiveReclaimed, ReceiveNew
    <2>3. CASE TouchAndLeave(w) \/ Pulse(w) \/ ProgressPulse(w)
      <3>1. held[w] \in MsgIds /\ held[w] <= lastId
        BY <2>3, Holding DEF TouchAndLeave, Pulse, ProgressPulse, Goto, Executing
      <3> QED BY <2>3, <3>1, TouchQuiet DEF TouchAndLeave, Pulse, ProgressPulse
    <2>4. CASE UNCHANGED queueVars
      BY <2>4 DEF queueVars, Quiet, EntriesKept, Live, IInv, TypeOK
    <2> QED BY <1>2, <2>2, <2>3, <2>4
            DEF WorkerNext, Process, EndRun, LoadJob, FailExpired, MarkRead, MarkWrite,
                StartRun, ProgressWrite, AfterRun, FinishRun, FailRun, Crash, Restart
  <1>3. CASE \E j \in Jobs : JobHeartbeatExpires(j)
    BY <1>3 DEF JobHeartbeatExpires, queueVars, Quiet, EntriesKept, Live, IInv, TypeOK
  <1>4. ASSUME NEW m \in MsgIds, LeaseExpires(m)
        PROVE  Quiet
    <2>1. m <= lastId /\ Live(m)
      BY <1>4 DEF LeaseExpires, Live, IInv, StreamInv
    <2>2. EntriesKept
      BY <1>4, <2>1, SetStateKept DEF LeaseExpires
    <2> QED BY <1>4, <2>1, <2>2 DEF LeaseExpires, Quiet, SetState, Live, IInv, TypeOK, Entry
  <1>5. CASE UNCHANGED vars
    BY <1>5 DEF vars, Quiet, EntriesKept, Live, IInv, TypeOK
  <1> QED BY <1>1, <1>2, <1>3, <1>4, <1>5 DEF Next

(* The last delivery of each job, whatever the clocks do; and that it is   *)
(* the live one, given that a retried delivery was the live one of its job. *)
LEMMA LastStep ==
  ASSUME IInv, LastExists, [Next]_vars
  PROVE  /\ LastExists'
         /\ (/\ LiveIsLast
             /\ \A w \in Workers : pc[w] = "retry" => Live(held[w]))
              => LiveIsLast'
  <1> DEFINE RetriesLive == \A w \in Workers : pc[w] = "retry" => Live(held[w])
  <1>1. CASE Quiet
    BY <1>1, KeptToken DEF Quiet
  <1>2. ASSUME NEW j \in Jobs, Publishes(j)
        PROVE  LastExists' /\ (LiveIsLast => LiveIsLast')
    <2>1. /\ lastId + 1 \in MsgIds /\ stream'[lastId + 1].job = j
          /\ \A m \in MsgIds \ {lastId + 1} : stream'[m] = stream[m]
          /\ \A m \in MsgIds : stream[m].job # j
      BY <1>2, PublishRow
    <2>2. \A m \in MsgIds \ {lastId + 1} : stream'[m].job = stream[m].job /\ (Live(m)' => Live(m))
      BY <2>1 DEF Live
    <2> QED BY <2>1, <2>2, PublishedToken
  <1>3. ASSUME NEW w \in Workers, PublishRetry(w)
        PROVE  LastExists' /\ (LiveIsLast /\ RetriesLive => LiveIsLast')
    <2>0. /\ lastId + 1 \in MsgIds /\ held[w] \in MsgIds \ {lastId + 1}
          /\ JobOf(w) \in Jobs /\ stream'[lastId + 1].job = JobOf(w)
          /\ stream'[held[w]].job = stream[held[w]].job /\ stream'[held[w]].state = "gone"
          /\ \A m \in MsgIds \ {lastId + 1, held[w]} : stream'[m] = stream[m]
      BY <1>3, RetryRow DEF JobOf
    <2>1. LiveIsLast /\ RetriesLive =>
            \A m \in MsgIds : Live(m) /\ stream[m].job = JobOf(w) => m = held[w]
      <3>1. pc[w] = "retry"
        BY <1>3 DEF PublishRetry, Goto
      <3> QED BY <2>0, <3>1 DEF LiveIsLast, JobOf, MsgIds
    <2>2. \A m \in MsgIds \ {lastId + 1} : stream'[m].job = stream[m].job /\ (Live(m)' => Live(m))
      BY <2>0 DEF Live
    <2>3. LiveIsLast /\ RetriesLive =>
            \A m \in MsgIds \ {lastId + 1} : stream[m].job = JobOf(w) => ~ Live(m)'
      BY <2>0, <2>1, <2>2 DEF Live
    <2> QED BY <2>0, <2>2, <2>3, PublishedToken
  <1>4. ASSUME NEW w \in Workers, AckDelivery(w)
        PROVE  LastExists' /\ (LiveIsLast => LiveIsLast')
    BY <1>4, AckRow, KeptToken DEF Live
  <1> QED BY <1>1, <1>2, <1>3, <1>4, StreamStep

LEMMA StepToken ==
  ASSUME IInv, LeaseInv, TokenInv, [Next]_vars
  PROVE  TokenInv'
  <1>1. TimelyRenewal => \A w \in Workers : pc[w] = "retry" => Live(held[w])
    BY DEF LeaseInv, LeaseHeld, HoldsLease, Live
  <1> QED BY <1>1, LastStep DEF TokenInv

LEMMA TokenInductive == Spec => []TokenInv
  BY InitToken, StepToken, Inductive, LeaseInductive, PTL DEF Spec

-----------------------------------------------------------------------------
(* The three variables under each kind of step *)

LEMMA LastChosen ==
  ASSUME NEW S \in SUBSET Nat, NEW m \in S, \A n \in S : n <= m
  PROVE  (CHOOSE k \in S : \A n \in S : n <= k) = m
  <1> DEFINE last == CHOOSE k \in S : \A n \in S : n <= k
  <1>1. last \in S /\ \A n \in S : n <= last
    OBVIOUS
  <1> HIDE DEF last
  <1>2. last <= m /\ m <= last /\ last \in Nat /\ m \in Nat
    BY <1>1
  <1>3. last = m
    BY <1>2
  <1> QED BY <1>3 DEF last

(* What one delivery of job j says of its token. *)
LEMMA TokenOfAfter ==
  ASSUME NEW j, NEW m \in Deliveries(j)', \A n \in Deliveries(j)' : n <= m
  PROVE  LastAttempt(j)' = stream'[m].attempt
  <1> DEFINE S == Deliveries(j)'
  <1>1. S \in SUBSET Nat /\ m \in S
    BY QueueAssumption DEF Deliveries, MsgIds
  <1> HIDE DEF S
  <1>2. (CHOOSE k \in S : \A n \in S : n <= k) = m
    BY <1>1, LastChosen DEF S
  <1> QED BY <1>1, <1>2 DEF LastAttempt, S

LEMMA TokenOfBefore ==
  ASSUME NEW j, NEW m \in Deliveries(j), \A n \in Deliveries(j) : n <= m
  PROVE  LastAttempt(j) = stream[m].attempt
  <1> DEFINE S == Deliveries(j)
  <1>1. S \in SUBSET Nat /\ m \in S
    BY QueueAssumption DEF Deliveries, MsgIds
  <1> HIDE DEF S
  <1>2. (CHOOSE k \in S : \A n \in S : n <= k) = m
    BY <1>1, LastChosen DEF S
  <1> QED BY <1>1, <1>2 DEF LastAttempt, S

(* A job whose deliveries keep their attempts keeps its token. *)
LEMMA TokenKept ==
  ASSUME TokenInv, NEW j \in Jobs, Deliveries(j)' = Deliveries(j),
         \A m \in Deliveries(j) : stream'[m].attempt = stream[m].attempt
  PROVE  LastAttempt(j)' = LastAttempt(j)
  <1>1. CASE Deliveries(j) = {}
    BY <1>1 DEF LastAttempt
  <1>2. CASE Deliveries(j) # {}
    <2>1. PICK m \in Deliveries(j) : \A n \in Deliveries(j) : n <= m
      BY <1>2 DEF TokenInv, LastExists
    <2> QED BY <2>1, TokenOfBefore, TokenOfAfter
  <1> QED BY <1>1, <1>2

(* A worker that holds a lease holds the token of its job. *)
LEMMA HolderToken ==
  ASSUME IInv, LeaseInv, TokenInv, TimelyRenewal, NEW w \in Workers, pc[w] \in HoldsLease
  PROVE  /\ held[w] \in MsgIds /\ Live(held[w]) /\ JobOf(w) \in Jobs
         /\ held[w] \in Deliveries(JobOf(w))
         /\ Att[JobOf(w)] = AttemptOf(w) /\ Att[JobOf(w)] > 0
         /\ JobOf(w) \notin Gone
         /\ pc[w] \notin Executing => JobOf(w) \notin Busy
         /\ \A v \in Workers \ {w} : pc[v] \in Executing => JobOf(v) # JobOf(w)
  <1>1. held[w] \in MsgIds /\ held[w] <= lastId /\ JobOf(w) \in Jobs
    BY Holding DEF HoldsLease, Executing
  <1>2. Live(held[w])
    BY DEF LeaseInv, LeaseHeld, Live
  <1>3. held[w] \in Deliveries(JobOf(w))
    BY <1>1 DEF Deliveries, JobOf
  <1>4. \A n \in Deliveries(JobOf(w)) : n <= held[w]
    BY <1>1, <1>2 DEF TokenInv, LiveIsLast, Deliveries, JobOf
  <1>5. LastAttempt(JobOf(w)) = AttemptOf(w)
    BY <1>3, <1>4, TokenOfBefore DEF AttemptOf
  <1>6. AttemptOf(w) > 0
    BY <1>1 DEF IInv, StreamInv, AttemptOf
  <1>7. \A v \in Workers \ {w} : pc[v] \in Executing => JobOf(v) # JobOf(w)
    <2> SUFFICES ASSUME NEW v \in Workers \ {w}, pc[v] \in Executing, JobOf(v) = JobOf(w)
                 PROVE  FALSE
      OBVIOUS
    <2>1. pc[v] \in HoldsLease /\ held[v] \in MsgIds
      BY Holding DEF HoldsLease, Executing
    <2>2. Live(held[v])
      BY <2>1 DEF LeaseInv, LeaseHeld, Live
    <2>3. held[v] = held[w]
      BY <1>1, <1>2, <2>1, <2>2 DEF LeaseInv, OneLiveDelivery, JobOf
    <2> QED BY <2>1, <2>3 DEF LeaseInv, LeaseHeld
  <1> QED BY <1>1, <1>2, <1>3, <1>5, <1>6, <1>7 DEF Att, Gone, Busy

LEMMA QuietMap ==
  ASSUME IInv, TokenInv, Quiet
  PROVE  Att' = Att /\ Gone' = Gone
  <1>1. \A j \in Jobs : /\ Deliveries(j)' = Deliveries(j)
                        /\ \A m \in Deliveries(j) : /\ stream'[m].attempt = stream[m].attempt
                                                    /\ Live(m)' <=> Live(m)
    BY DEF Quiet, EntriesKept, Deliveries
  <1>2. \A j \in Jobs : LastAttempt(j)' = LastAttempt(j)
    BY <1>1, TokenKept
  <1> QED BY <1>1, <1>2 DEF Att, Gone

(* Who executes, when nobody's execution starts or ends. *)
LEMMA BusyKept ==
  ASSUME IInv, \A m \in MsgIds : m <= lastId => stream'[m].job = stream[m].job,
         \A v \in Workers : /\ pc'[v] \in Executing <=> pc[v] \in Executing
                            /\ pc[v] \in Executing => held'[v] = held[v]
  PROVE  Busy' = Busy
  <1>1. \A v \in Workers : pc[v] \in Executing => JobOf(v)' = JobOf(v)
    BY Holding DEF Executing, JobOf
  <1> QED BY <1>1 DEF Busy

LEMMA RunBegins ==
  ASSUME IInv, NEW w \in Workers, pc[w] \in HoldsLease, stream' = stream,
         pc'[w] \in Executing, held'[w] = held[w],
         \A v \in Workers \ {w} : pc'[v] = pc[v] /\ held'[v] = held[v]
  PROVE  Busy' = Busy \cup {JobOf(w)}
  BY DEF Busy, JobOf

LEMMA RunEnds ==
  ASSUME IInv, LeaseInv, TokenInv, TimelyRenewal, NEW w \in Workers,
         pc[w] \in Executing, stream' = stream, pc'[w] \notin Executing,
         \A v \in Workers \ {w} : pc'[v] = pc[v] /\ held'[v] = held[v]
  PROVE  /\ JobOf(w) \in Jobs /\ JobOf(w) \in Busy
         /\ Busy' = Busy \ {JobOf(w)}
  <1>1. /\ JobOf(w) \in Jobs
        /\ \A v \in Workers \ {w} : pc[v] \in Executing => JobOf(v) # JobOf(w)
    BY HolderToken DEF HoldsLease
  <1> QED BY <1>1 DEF Busy, JobOf

-----------------------------------------------------------------------------
(* Every step maps to a step of TenderJobDelivery or to none. *)

DeliveryVars == <<Att, Gone, Busy>>

DeliveryStep == Delivery!Next \/ UNCHANGED DeliveryVars

LEMMA PublishStep ==
  ASSUME IInv, TokenInv, NEW j \in Jobs, Publishes(j), UNCHANGED workerVars
  PROVE  DeliveryStep
  <1>0. PICK n \in MsgIds : n = lastId + 1
    BY PublishRow
  <1>1. /\ n = lastId + 1
        /\ stream'[n].job = j /\ stream'[n].attempt = 1 /\ stream'[n].state = "new"
        /\ \A m \in MsgIds \ {n} : stream'[m] = stream[m]
        /\ \A m \in MsgIds : stream[m].job # j
    BY <1>0, PublishRow
  <1>2. \A i \in Jobs : stream[n].job # i
    BY <1>1, QueueAssumption DEF IInv, TypeOK, StreamInv
  <1>f. \A m \in MsgIds : m <= lastId => stream'[m].job = stream[m].job
    BY <1>1 DEF IInv, TypeOK
  <1>3. Deliveries(j) = {} /\ Deliveries(j)' = {n}
    BY <1>1 DEF Deliveries
  <1>4. \A i \in Jobs \ {j} :
          /\ Deliveries(i)' = Deliveries(i)
          /\ \A m \in Deliveries(i) : stream'[m] = stream[m]
    BY <1>1, <1>2 DEF Deliveries
  <1>5. LastAttempt(j) = 0 /\ LastAttempt(j)' = 1
    <2>1. n <= n
      BY <1>1 DEF MsgIds
    <2> QED BY <1>1, <1>3, <2>1, TokenOfAfter DEF LastAttempt
  <1>6. \A i \in Jobs \ {j} : LastAttempt(i)' = LastAttempt(i)
    BY <1>4, TokenKept
  <1>7. Att' = [Att EXCEPT ![j] = 1] /\ Att[j] = 0
    BY <1>5, <1>6 DEF Att
  <1>8. Gone' = Gone
    <2>1. \A i \in Jobs \ {j} : \A m \in Deliveries(i) : Live(m)' <=> Live(m)
      BY <1>4 DEF Live
    <2>2. Live(n)'
      BY <1>1 DEF Live
    <2> QED BY <1>3, <1>4, <2>1, <2>2 DEF Gone
  <1>9. Busy' = Busy
    BY <1>f, BusyKept DEF workerVars
  <1>10. Delivery!Publish(j)
    BY <1>7, <1>8, <1>9 DEF Delivery!Publish, Att, Gone, Busy
  <1> QED BY <1>10 DEF DeliveryStep, Delivery!Next

LEMMA AdvanceStep ==
  ASSUME IInv, LeaseInv, TokenInv, TimelyRenewal, NEW w \in Workers, PublishRetry(w)
  PROVE  DeliveryStep
  <1>0. PICK n \in MsgIds, j \in Jobs : n = lastId + 1 /\ j = JobOf(w)
    BY RetryRow
  <1>1. /\ n = lastId + 1 /\ j = JobOf(w) /\ held[w] \in MsgIds \ {n}
        /\ AttemptOf(w) < MaxAttempts
        /\ stream'[n].job = j /\ stream'[n].attempt = AttemptOf(w) + 1
        /\ stream'[n].state = "new"
        /\ stream'[held[w]].job = j
        /\ \A m \in MsgIds \ {n, held[w]} : stream'[m] = stream[m]
    BY <1>0, RetryRow
  <1>2. pc[w] = "retry" /\ pc[w] \in HoldsLease /\ pc[w] \notin Executing
    BY DEF PublishRetry, Goto, HoldsLease, Executing
  <1>3. /\ held[w] \in Deliveries(j) /\ Att[j] = AttemptOf(w) /\ Att[j] > 0
        /\ j \notin Gone /\ j \notin Busy
    BY <1>1, <1>2, HolderToken
  <1>4. /\ \A i \in Jobs : stream[n].job # i
        /\ \A m \in MsgIds : stream'[m].job \in Jobs => m <= n
        /\ n <= n
    <2>1. \A m \in MsgIds \ {n} : stream'[m].job \in Jobs => m <= lastId
      BY <1>1, QueueAssumption DEF IInv, TypeOK, StreamInv, JobOf
    <2> QED BY <1>1, <2>1, QueueAssumption DEF IInv, TypeOK, StreamInv, MsgIds
  <1>f. \A m \in MsgIds : m <= lastId => stream'[m].job = stream[m].job
    BY <1>1 DEF IInv, TypeOK, JobOf
  <1>5. n \in Deliveries(j)' /\ \A m \in Deliveries(j)' : m <= n
    BY <1>1, <1>4 DEF Deliveries
  <1>6. \A i \in Jobs \ {j} :
          /\ Deliveries(i)' = Deliveries(i)
          /\ \A m \in Deliveries(i) : stream'[m] = stream[m]
    BY <1>1, <1>3, <1>4 DEF Deliveries
  <1>7. LastAttempt(j)' = AttemptOf(w) + 1
    BY <1>1, <1>5, TokenOfAfter
  <1>8. \A i \in Jobs \ {j} : LastAttempt(i)' = LastAttempt(i)
    BY <1>6, TokenKept
  <1>9. Att' = [Att EXCEPT ![j] = Att[j] + 1]
    BY <1>1, <1>3, <1>7, <1>8 DEF Att
  <1>10. Gone' = Gone
    <2>1. \A i \in Jobs \ {j} : \A m \in Deliveries(i) : Live(m)' <=> Live(m)
      BY <1>6 DEF Live
    <2>2. Live(n)'
      BY <1>1 DEF Live
    <2> QED BY <1>3, <1>5, <1>6, <2>1, <2>2 DEF Gone
  <1>11. Busy' = Busy
    <2>1. /\ pc'[w] \notin Executing
          /\ \A v \in Workers \ {w} : pc'[v] = pc[v] /\ held'[v] = held[v]
      BY DEF PublishRetry, Goto, IInv, TypeOK, Executing
    <2> QED BY <1>2, <1>f, <2>1, BusyKept
  <1>12. Delivery!Advance(j)
    BY <1>1, <1>3, <1>9, <1>10, <1>11 DEF Delivery!Advance, Delivery!Held, Att, Gone, Busy
  <1> QED BY <1>1, <1>12 DEF DeliveryStep, Delivery!Next

LEMMA SpendStep ==
  ASSUME IInv, LeaseInv, TokenInv, TimelyRenewal, NEW w \in Workers, AckDelivery(w)
  PROVE  DeliveryStep
  <1>0. PICK h \in MsgIds, j \in Jobs : h = held[w] /\ j = JobOf(w)
    BY AckRow
  <1>1. /\ h = held[w] /\ j = JobOf(w) /\ EntriesKept
        /\ stream'[h].state = "gone"
        /\ \A m \in MsgIds \ {h} : stream'[m] = stream[m]
    BY <1>0, AckRow
  <1>2. pc[w] = "ack" /\ pc[w] \in HoldsLease /\ pc[w] \notin Executing
    BY DEF AckDelivery, Goto, HoldsLease, Executing
  <1>3. /\ h \in Deliveries(j) /\ Live(h) /\ Att[j] > 0
        /\ j \notin Gone /\ j \notin Busy
    BY <1>1, <1>2, HolderToken
  <1>4. \A i \in Jobs : /\ Deliveries(i)' = Deliveries(i)
                        /\ \A m \in Deliveries(i) : stream'[m].attempt = stream[m].attempt
    BY <1>1 DEF EntriesKept, Deliveries
  <1>5. Att' = Att
    <2>1. \A i \in Jobs : LastAttempt(i)' = LastAttempt(i)
      BY <1>4, TokenKept
    <2> QED BY <2>1 DEF Att
  <1>6. Gone' = Gone \cup {j}
    <2>1. \A m \in MsgIds \ {h} : Live(m)' <=> Live(m)
      BY <1>1 DEF Live
    <2>2. ~ Live(h)'
      BY <1>1 DEF Live
    <2>3. \A m \in Deliveries(j) : Live(m) => m = h
      BY <1>1, <1>3 DEF LeaseInv, OneLiveDelivery, Deliveries, JobOf
    <2>4. \A i \in Jobs \ {j} : h \notin Deliveries(i)
      BY <1>1 DEF Deliveries, JobOf
    <2>5. \A i \in Jobs : Deliveries(i) \subseteq MsgIds
      BY DEF Deliveries
    <2>6. \A m \in Deliveries(j) : ~ Live(m)'
      BY <2>1, <2>2, <2>3, <2>5, <1>1
    <2>7. \A i \in Jobs \ {j} : \A m \in Deliveries(i) : Live(m)' <=> Live(m)
      BY <2>1, <2>4, <2>5
    <2> QED BY <1>1, <1>3, <1>4, <2>6, <2>7 DEF Gone
  <1>7. Busy' = Busy
    <2>1. /\ pc'[w] \notin Executing
          /\ \A v \in Workers \ {w} : pc'[v] = pc[v] /\ held'[v] = held[v]
      BY DEF AckDelivery, Goto, IInv, TypeOK, Executing
    <2> QED BY <1>1, <1>2, <2>1, BusyKept DEF EntriesKept
  <1>8. Delivery!Spend(j)
    BY <1>1, <1>3, <1>5, <1>6, <1>7 DEF Delivery!Spend, Delivery!Held, Att, Gone, Busy
  <1> QED BY <1>1, <1>8 DEF DeliveryStep, Delivery!Next

LEMMA EndStep ==
  ASSUME IInv, LeaseInv, TokenInv, TimelyRenewal, NEW w \in Workers, Quiet,
         pc[w] \in Executing, stream' = stream, pc'[w] \notin Executing,
         \A v \in Workers \ {w} : pc'[v] = pc[v] /\ held'[v] = held[v]
  PROVE  DeliveryStep
  <1>1. PICK j \in Jobs : j \in Busy /\ Busy' = Busy \ {j}
    BY RunEnds
  <1>2. Att' = Att /\ Gone' = Gone
    BY QuietMap
  <1>3. Delivery!End(j)
    BY <1>1, <1>2 DEF Delivery!End, Att, Gone, Busy
  <1> QED BY <1>3 DEF DeliveryStep, Delivery!Next

LEMMA BeginStep ==
  ASSUME IInv, LeaseInv, TokenInv, TimelyRenewal, NEW w \in Workers, Quiet, StartRun(w)
  PROVE  DeliveryStep
  <1>1. /\ pc[w] = "start" /\ pc[w] \in HoldsLease /\ pc[w] \notin Executing
        /\ pc'[w] \in Executing /\ held'[w] = held[w] /\ stream' = stream
        /\ \A v \in Workers \ {w} : pc'[v] = pc[v] /\ held'[v] = held[v]
    BY DEF StartRun, Goto, queueVars, HoldsLease, Executing, IInv, TypeOK
  <1>2. Busy' = Busy \cup {JobOf(w)}
    BY <1>1, RunBegins
  <1>3. PICK j \in Jobs : /\ Att[j] > 0 /\ j \notin Gone /\ j \notin Busy
                          /\ Busy' = Busy \cup {j}
    BY <1>1, <1>2, HolderToken
  <1>4. Att' = Att /\ Gone' = Gone
    BY QuietMap
  <1>5. Delivery!Begin(j)
    BY <1>3, <1>4 DEF Delivery!Begin, Delivery!Held, Att, Gone, Busy
  <1> QED BY <1>5 DEF DeliveryStep, Delivery!Next

LEMMA QuietWorkerStep ==
  ASSUME IInv, LeaseInv, TokenInv, TimelyRenewal, Quiet, NEW w \in Workers, WorkerNext(w)
  PROVE  DeliveryStep
  <1> DEFINE Others == \A v \in Workers \ {w} : pc'[v] = pc[v] /\ held'[v] = held[v]
  <1> USE DEF IInv, TypeOK, Goto, Executing
  <1>1. ASSUME Others, pc'[w] \in Executing <=> pc[w] \in Executing,
               pc[w] \in Executing => held'[w] = held[w]
        PROVE  DeliveryStep
    <2>1. Busy' = Busy
      BY <1>1, BusyKept DEF Quiet, EntriesKept
    <2> QED BY <2>1, QuietMap DEF DeliveryStep, DeliveryVars
  <1>2. CASE ReceiveReclaimed(w) \/ ReceiveNew(w)
    BY <1>1, <1>2 DEF ReceiveReclaimed, ReceiveNew, Take
  <1>3. CASE LoadJob(w)
    BY <1>1, <1>3 DEF LoadJob, Route
  <1>4. CASE \/ TouchAndLeave(w) \/ FailExpired(w) \/ AckDelivery(w) \/ PublishRetry(w)
             \/ MarkRead(w) \/ MarkWrite(w) \/ AfterRun(w) \/ Restart(w)
    BY <1>1, <1>4 DEF TouchAndLeave, FailExpired, AckDelivery, PublishRetry, MarkRead,
       MarkWrite, AfterRun, Restart
  <1>5. CASE StartRun(w)
    BY <1>5, BeginStep
  <1>6. CASE ProgressWrite(w) \/ Pulse(w) \/ ProgressPulse(w)
    BY <1>1, <1>6 DEF ProgressWrite, Pulse, ProgressPulse
  <1>7. CASE EndRun(w) \/ Crash(w)
    <2>1. Others /\ pc'[w] \notin Executing /\ stream' = stream
      BY <1>7 DEF EndRun, FinishRun, FailRun, Crash, queueVars
    <2>2. CASE pc[w] \in Executing
      BY <2>1, <2>2, EndStep
    <2>3. CASE pc[w] \notin Executing
      BY <1>1, <2>1, <2>3
    <2> QED BY <2>2, <2>3
  <1> QED BY <1>2, <1>3, <1>4, <1>5, <1>6, <1>7 DEF WorkerNext, Process

LEMMA MapStep ==
  ASSUME IInv, LeaseInv, TokenInv, TimelyRenewal, [Next]_vars
  PROVE  DeliveryStep
  <1>1. ASSUME Quiet, UNCHANGED <<pc, held>>
        PROVE  DeliveryStep
    <2>1. Busy' = Busy
      BY <1>1, BusyKept DEF Quiet, EntriesKept
    <2> QED BY <1>1, <2>1, QuietMap DEF DeliveryStep, DeliveryVars
  <1>2. CASE Quiet
    <2>1. CASE \E w \in Workers : WorkerNext(w)
      BY <1>2, <2>1, QuietWorkerStep
    <2>2. CASE \/ \E j \in Jobs : ApiNext(j) \/ JobHeartbeatExpires(j)
               \/ \E m \in MsgIds : LeaseExpires(m)
               \/ UNCHANGED vars
      BY <1>1, <1>2, <2>2 DEF ApiNext, Submit, EnqueueJob, EnqueueReplyLost, EnqueueRefused,
         Reject, ApiCrash, JobHeartbeatExpires, LeaseExpires, workerVars, vars
    <2> QED BY <2>1, <2>2 DEF Next
  <1> QED BY <1>2, StreamStep, PublishStep, AdvanceStep, SpendStep

LEMMA MapInit == Init => Delivery!Init
  <1> SUFFICES ASSUME Init PROVE Delivery!Init
    OBVIOUS
  <1>1. \A j \in Jobs : Deliveries(j) = {}
    BY QueueAssumption DEF Init, QueueInit, Deliveries
  <1>2. \A j \in Jobs : LastAttempt(j) = 0
    BY <1>1 DEF LastAttempt
  <1>3. \A w \in Workers : pc[w] \notin Executing
    BY DEF Init, Executing
  <1> QED BY <1>1, <1>2, <1>3 DEF Delivery!Init

(* Redis Streams, workers that crash and rows written without a check      *)
(* implement the delivery of TenderJobDelivery, when every live worker     *)
(* renews its lease in time: one token a job, advanced or spent only while *)
(* nobody executes the job, at most one execution at a time.               *)
THEOREM DeliveryImplemented ==
  ASSUME TimelyRenewal
  PROVE  Spec => ImplementsDelivery
  <1>1. IInv /\ LeaseInv /\ TokenInv /\ [Next]_vars =>
          [Delivery!Next]_<<[j \in Jobs |-> LastAttempt(j)],
                            {j \in Jobs : Deliveries(j) # {}
                                            /\ \A m \in Deliveries(j) : ~Live(m)},
                            {JobOf(w) : w \in {v \in Workers : pc[v] \in Executing}}>>
    BY MapStep DEF DeliveryStep, DeliveryVars, Att, Gone, Busy
  <1> QED BY MapInit, <1>1, Inductive, LeaseInductive, TokenInductive, PTL
          DEF Spec, ImplementsDelivery, Delivery!Spec

=============================================================================
