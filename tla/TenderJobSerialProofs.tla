------------------------ MODULE TenderJobSerialProofs ------------------------
(***************************************************************************)
(* TenderJobWorker while no two workers are inside process_delivery with   *)
(* the same job at once: workers with different jobs interleave, any       *)
(* number of them crashes, and nothing is assumed about how timely they    *)
(* renew their leases.  Two instances have no other behaviour: one worker  *)
(* process (OneWorker), and any number of workers that renew their leases  *)
(* in time and requeue a row before its retry is received (PromptRequeue). *)
(***************************************************************************)
EXTENDS TenderJobRefinement

OnePerJob ==
  \A v, w \in Workers : Inside(v) /\ Inside(w) /\ JobOf(v) = JobOf(w) => v = w

Settled == {"completed", "failed"}

(* What a worker relies on while it is inside process_delivery: the        *)
(* delivery it acts on is live, a row it is about to acknowledge is        *)
(* settled, the retry behind a row it still has to mark is unread, and a   *)
(* delivery that was handed to a runner came back through a reclaim.       *)
HeldOK(w) ==
  /\ pc[w] \in HoldsLease => stream[held[w]].state \in {"pending", "stale"}
  /\ pc[w] = "ack" => status[JobOf(w)] \in Settled
  /\ pc[w] \in {"mark", "markWrite"} =>
       \E m \in MsgIds : stream[m].state = "new" /\ stream[m].job = JobOf(w)
  /\ pc[w] = "load" /\ held[w] \in ran => reclaimed[w]
  /\ pc[w] \in {"premark", "premarkWrite", "start"} => held[w] \notin ran

(* A job whose deliveries are all gone was completed or failed before the  *)
(* last of them was acknowledged.                                          *)
GoneSettled ==
  /\ \A j \in Gone : status[j] \in Settled
  /\ \A j \in Jobs : api[j] = "done" => Deliveries(j) # {}

(* The row of a delivery that was handed to a runner shows it as long as   *)
(* the delivery is live.                                                   *)
RanShown ==
  /\ \A m \in ran : stream[m].state \in {"pending", "stale", "gone"}
  /\ \A m \in ran : Live(m) => status[stream[m].job] \in {"running"} \cup Settled

AttemptsGrow ==
  \A m, n \in MsgIds :
    m < n /\ stream[m].job = stream[n].job /\ stream[m].job \in Jobs =>
      stream[m].attempt < stream[n].attempt

SerialInv ==
  /\ LastExists /\ LiveIsLast /\ AttemptsGrow
  /\ GoneSettled /\ RanShown
  /\ \A w \in Workers : HeldOK(w)

LEMMA InitSerial == Init => SerialInv
  <1> SUFFICES ASSUME Init PROVE SerialInv
    OBVIOUS
  <1> USE DEF Init, QueueInit, JobInit, MsgIds
  <1>1. \A j \in Jobs : Deliveries(j) = {}
    BY QueueAssumption DEF Deliveries
  <1>2. RanShown /\ \A w \in Workers : HeldOK(w)
    BY DEF HeldOK, RanShown, HoldsLease, Executing
  <1>3. LastExists /\ LiveIsLast
    BY <1>1 DEF LastExists, LiveIsLast, Live
  <1>4. GoneSettled
    BY <1>1 DEF GoneSettled, Gone
  <1>5. AttemptsGrow
    BY QueueAssumption DEF AttemptsGrow
  <1> QED BY <1>2, <1>3, <1>4, <1>5 DEF SerialInv

(* A worker that acts, or has a retry to mark, keeps its job out of Gone.  *)
LEMMA ActiveJob ==
  ASSUME IInv, SerialInv, NEW w \in Workers, pc[w] \in HoldsLease \cup {"mark", "markWrite"}
  PROVE  /\ held[w] \in MsgIds /\ held[w] <= lastId
         /\ JobOf(w) \in Jobs /\ JobOf(w) \notin Gone
  <1>1. held[w] \in MsgIds /\ held[w] <= lastId /\ JobOf(w) \in Jobs
    BY Holding DEF HoldsLease, Executing
  <1>2. \E m \in Deliveries(JobOf(w)) : Live(m)
    BY <1>1 DEF SerialInv, HeldOK, Deliveries, JobOf, Live
  <1> QED BY <1>1, <1>2 DEF Gone

(* A worker with another job: a step that keeps the deliveries of its job, *)
(* up to what the clock makes of a pending one, keeps what it relies on.   *)
SameState(m) ==
  \/ stream'[m].state = stream[m].state
  \/ {stream'[m].state, stream[m].state} \subseteq {"pending", "stale"}

LEMMA OtherHeld ==
  ASSUME IInv, SerialInv, NEW v \in Workers,
         pc'[v] = pc[v], held'[v] = held[v], reclaimed'[v] = reclaimed[v],
         Inside(v) =>
           /\ \A m \in MsgIds : stream[m].job = JobOf(v) =>
                stream'[m].job = stream[m].job /\ SameState(m)
           /\ status'[JobOf(v)] \in {status[JobOf(v)]} \cup Settled
           /\ held[v] \in ran' => held[v] \in ran
  PROVE  HeldOK(v)'
  <1>1. HeldOK(v)
    BY DEF SerialInv
  <1>2. CASE ~ Inside(v)
    BY <1>2 DEF Inside, HeldOK, HoldsLease, Executing
  <1>3. CASE Inside(v)
    <2>1. PICK h \in MsgIds, j \in Jobs : h = held[v] /\ j = JobOf(v)
      BY <1>3, Holding DEF Inside
    <2>2. stream'[h].job = j /\ SameState(h)
      BY <1>3, <2>1 DEF JobOf
    <2> QED BY <1>1, <1>3, <2>1, <2>2 DEF HeldOK, SameState, JobOf
  <1> QED BY <1>2, <1>3

Others(w) ==
  \A v \in Workers \ {w} :
    pc'[v] = pc[v] /\ held'[v] = held[v] /\ reclaimed'[v] = reclaimed[v]

LEMMA WorkerFrame ==
  ASSUME IInv, NEW w \in Workers, WorkerNext(w)
  PROVE  Others(w)
  BY DEF Others, WorkerNext, Process, EndRun, ReceiveReclaimed, ReceiveNew, Take, LoadJob,
         TouchAndLeave, FailExpired, AckDelivery, PublishRetry, MarkRead, MarkWrite, StartRun,
         ProgressWrite, AfterRun, FinishRun, FailRun, Pulse, ProgressPulse, Crash, Restart,
         Goto, IInv, TypeOK

(* Steps that leave every delivery in the stream where it is, up to what   *)
(* the clock makes of a pending one.                                       *)
Same == EntriesKept /\ \A m \in MsgIds : SameState(m)

LEMMA SameStream ==
  ASSUME IInv, SerialInv, Same
  PROVE  /\ LastExists' /\ LiveIsLast' /\ AttemptsGrow'
         /\ \A m \in MsgIds : Live(m)' <=> Live(m)
         /\ \A j \in Jobs : Deliveries(j)' = Deliveries(j)
         /\ Gone' = Gone
  <1>1. \A m \in MsgIds : Live(m)' <=> Live(m)
    BY DEF Same, SameState, Live
  <1>2. \A j \in Jobs : Deliveries(j)' = Deliveries(j) /\ Deliveries(j) \subseteq MsgIds
    BY DEF Same, EntriesKept, Deliveries
  <1>3. Gone' = Gone
    BY <1>1, <1>2 DEF Gone
  <1>4. LastExists' /\ LiveIsLast'
    BY <1>1, KeptToken DEF SerialInv, Same
  <1>5. AttemptsGrow'
    BY DEF SerialInv, AttemptsGrow, Same, EntriesKept
  <1> QED BY <1>1, <1>2, <1>3, <1>4, <1>5

LEMMA LocalSerial ==
  ASSUME IInv, SerialInv, OnePerJob, NEW w \in Workers, Others(w), Same, api' = api,
         pc'[w] \notin {"idle", "down"} => Inside(w) /\ held'[w] = held[w],
         pc'[w] \in HoldsLease => pc[w] \in HoldsLease,
         pc'[w] \in {"mark", "markWrite"} => pc[w] \in {"mark", "markWrite"},
         NEW s \in Status,
         \/ status' = status
         \/ /\ pc[w] \in HoldsLease \cup {"markWrite"}
            /\ status' = [status EXCEPT ![JobOf(w)] = s],
         pc'[w] = "ack" => status'[JobOf(w)] \in Settled,
         \/ ran' = ran
         \/ pc[w] \in HoldsLease /\ ran' = ran \cup {held[w]},
         \A m \in ran' : Live(m) => status'[stream[m].job] \in {"running"} \cup Settled,
         pc'[w] # "load",
         pc'[w] \in {"premark", "premarkWrite", "start"} => held[w] \notin ran'
  PROVE  SerialInv'
  <1>1. /\ LastExists' /\ LiveIsLast' /\ AttemptsGrow'
        /\ \A m \in MsgIds : Live(m)' <=> Live(m)
        /\ \A j \in Jobs : Deliveries(j)' = Deliveries(j)
        /\ Gone' = Gone
    BY SameStream
  <1>2. pc'[w] \notin {"idle", "down"} =>
          held[w] \in MsgIds /\ held'[w] = held[w] /\ JobOf(w)' = JobOf(w)
    BY Holding DEF JobOf, Same, EntriesKept, Inside
  <1>3. pc[w] \in HoldsLease \cup {"markWrite"} => Inside(w) /\ JobOf(w) \in Jobs
    BY ActiveJob DEF Inside, HoldsLease, Executing
  <1>4. HeldOK(w)'
    <2>1. pc'[w] \in HoldsLease => stream'[held[w]].state \in {"pending", "stale"}
      BY <1>2 DEF SerialInv, HeldOK, Same, SameState, HoldsLease, Executing
    <2>2. ASSUME pc'[w] \in {"mark", "markWrite"}
          PROVE  \E m \in MsgIds : stream'[m].state = "new" /\ stream'[m].job = JobOf(w)'
      <3>1. PICK m \in MsgIds : stream[m].state = "new" /\ stream[m].job = JobOf(w)
        BY <2>2 DEF SerialInv, HeldOK
      <3> QED BY <1>2, <2>2, <3>1 DEF Same, SameState, EntriesKept
    <2> QED BY <1>2, <2>1, <2>2 DEF HeldOK, HoldsLease, Executing
  <1>5. ASSUME NEW v \in Workers \ {w}
        PROVE  HeldOK(v)'
    <2>1. ASSUME Inside(v)
          PROVE  /\ status'[JobOf(v)] \in {status[JobOf(v)]} \cup Settled
                 /\ held[v] \in ran' => held[v] \in ran
      <3>1. JobOf(v) \in Jobs
        BY <2>1, Holding DEF Inside
      <3>2. Inside(w) => JobOf(v) # JobOf(w) /\ held[v] # held[w]
        BY <2>1 DEF OnePerJob, JobOf
      <3> QED BY <1>3, <3>1, <3>2 DEF IInv, TypeOK
    <2> QED BY <2>1, OtherHeld DEF Others, Same, EntriesKept
  <1>6. GoneSettled'
    <2>1. pc[w] \in HoldsLease \cup {"markWrite"} => JobOf(w) \notin Gone
      BY ActiveJob
    <2>2. \A j \in Gone : status'[j] \in Settled
      BY <2>1 DEF SerialInv, GoneSettled, Gone, IInv, TypeOK
    <2> QED BY <1>1, <2>2 DEF SerialInv, GoneSettled
  <1>7. RanShown'
    <2>1. ran' \subseteq MsgIds
      BY ActiveJob DEF IInv, TypeOK
    <2>2. \A m \in ran' : stream[m].state \in {"pending", "stale", "gone"}
      BY DEF SerialInv, RanShown, HeldOK
    <2>3. \A m \in ran' : stream'[m].state \in {"pending", "stale", "gone"}
      BY <2>1, <2>2 DEF Same, SameState
    <2>4. \A m \in ran' : Live(m)' => status'[stream'[m].job] \in {"running"} \cup Settled
      BY <1>1, <2>1 DEF Same, EntriesKept
    <2> QED BY <2>3, <2>4 DEF RanShown
  <1>8. \A v \in Workers : HeldOK(v)'
    BY <1>4, <1>5
  <1> QED BY <1>1, <1>6, <1>7, <1>8 DEF SerialInv

-----------------------------------------------------------------------------
(* The steps of a worker *)

LEMMA SameQueue ==
  ASSUME IInv, UNCHANGED queueVars
  PROVE  Same
  BY DEF queueVars, Same, SameState, EntriesKept, IInv, TypeOK

LEMMA SameTouch ==
  ASSUME IInv, NEW m \in MsgIds, m <= lastId, Touch(m)
  PROVE  Same
  <1>1. EntriesKept
    BY TouchKept
  <1> QED BY <1>1 DEF Same, SameState, Touch, SetState, Pending, IInv, TypeOK, Entry

(* Rows of delivered jobs that the step does not write. *)
LEMMA ShownKept ==
  ASSUME SerialInv, status' = status
  PROVE  \A m \in ran : Live(m) => status'[stream[m].job] \in {"running"} \cup Settled
  BY DEF SerialInv, RanShown

LEMMA ShownWritten ==
  ASSUME IInv, SerialInv, NEW w \in Workers, pc[w] \in HoldsLease,
         NEW s \in {"running"} \cup Settled, status' = [status EXCEPT ![JobOf(w)] = s]
  PROVE  \A m \in ran \cup {held[w]} :
            Live(m) => status'[stream[m].job] \in {"running"} \cup Settled
  <1>1. JobOf(w) \in Jobs /\ held[w] \in MsgIds
    BY ActiveJob
  <1>2. \A j \in Jobs : status'[j] = IF j = JobOf(w) THEN s ELSE status[j]
    BY <1>1 DEF IInv, TypeOK
  <1>3. \A m \in ran \cup {held[w]} : stream[m].state # "absent" => stream[m].job \in Jobs
    BY <1>1 DEF IInv, TypeOK, StreamInv
  <1> QED BY <1>1, <1>2, <1>3 DEF SerialInv, RanShown, Live, JobOf

(* Requeueing a row is safe: the delivery behind it has not been run.      *)
LEMMA ShownRequeued ==
  ASSUME IInv, SerialInv, NEW w \in Workers, pc[w] \in {"premarkWrite", "markWrite"},
         status' = [status EXCEPT ![JobOf(w)] = "queued"]
  PROVE  \A m \in ran : Live(m) => status'[stream[m].job] \in {"running"} \cup Settled
  <1>1. JobOf(w) \in Jobs /\ held[w] \in MsgIds
    BY ActiveJob DEF HoldsLease
  <1>2. \A j \in Jobs : j # JobOf(w) => status'[j] = status[j]
    BY <1>1 DEF IInv, TypeOK
  <1>3. ASSUME NEW m \in ran, Live(m), stream[m].job = JobOf(w)
        PROVE  FALSE
    <2>0. m \in MsgIds
      BY <1>3 DEF IInv, TypeOK
    <2>1. PICK n \in MsgIds : Live(n) /\ stream[n].job = JobOf(w) /\ n \notin ran
      <3>1. CASE pc[w] = "premarkWrite"
        <4>1. Live(held[w]) /\ held[w] \notin ran
          BY <3>1 DEF SerialInv, HeldOK, HoldsLease, Live
        <4> QED BY <1>1, <4>1 DEF JobOf
      <3>2. CASE pc[w] = "markWrite"
        <4>1. PICK n \in MsgIds : stream[n].state = "new" /\ stream[n].job = JobOf(w)
          BY <3>2 DEF SerialInv, HeldOK
        <4> QED BY <4>1 DEF SerialInv, RanShown, Live
      <3> QED BY <3>1, <3>2
    <2>2. m <= n /\ n <= m
      BY <1>3, <2>0, <2>1 DEF SerialInv, LiveIsLast
    <2>3. m = n
      BY <2>0, <2>2 DEF MsgIds
    <2> QED BY <2>1, <2>3
  <1> QED BY <1>2, <1>3 DEF SerialInv, RanShown, Live, IInv, TypeOK, StreamInv

LEMMA TakeSerial ==
  ASSUME IInv, SerialInv, OnePerJob', NEW w \in Workers, NEW m \in MsgIds, NEW again \in BOOLEAN,
         stream[m].state = IF again THEN "stale" ELSE "new",
         stream' = SetState(m, "pending"), lastId' = lastId, Take(w, m, again), Others(w)
  PROVE  SerialInv'
  <1>1. /\ pc'[w] = "load" /\ held'[w] = m /\ reclaimed'[w] = again
        /\ UNCHANGED <<status, api, ran>> /\ ran \subseteq MsgIds
    BY DEF Take, jobVars, IInv, TypeOK
  <1>2. /\ stream'[m].state = "pending"
        /\ \A n \in MsgIds : n # m => stream'[n] = stream[n]
    BY DEF SetState, IInv, TypeOK, Entry
  <1>3. EntriesKept /\ \A n \in MsgIds : Live(n)' <=> Live(n)
    <2>1. EntriesKept
      BY SetStateKept DEF IInv, StreamInv
    <2> QED BY <1>2, <2>1 DEF Live
  <1>4. LastExists' /\ LiveIsLast'
    BY <1>3, KeptToken DEF SerialInv
  <1>5. AttemptsGrow'
    BY <1>3 DEF SerialInv, AttemptsGrow, EntriesKept
  <1>6. HeldOK(w)'
    <2>1. m \in ran => again
      BY DEF SerialInv, RanShown
    <2> QED BY <1>1, <1>2, <2>1 DEF HeldOK
  <1>7. ASSUME NEW v \in Workers \ {w}
        PROVE  HeldOK(v)'
    <2>1. ASSUME Inside(v)
          PROVE  stream[m].job # JobOf(v)
      <3>1. JobOf(v)' = JobOf(v) /\ JobOf(w)' = stream[m].job
        BY <1>1, <1>3, <2>1, Holding DEF Others, Inside, JobOf, EntriesKept
      <3>2. pc'[v] = pc[v]
        BY DEF Others
      <3> QED BY <1>1, <2>1, <3>1, <3>2 DEF OnePerJob, Inside
    <2> QED BY <1>1, <1>2, <2>1, OtherHeld DEF Others, SameState
  <1>8. GoneSettled'
    <2>1. \A j \in Jobs : Deliveries(j)' = Deliveries(j) /\ Deliveries(j) \subseteq MsgIds
      BY <1>3 DEF EntriesKept, Deliveries
    <2>2. Gone' = Gone
      BY <1>3, <2>1 DEF Gone
    <2> QED BY <1>1, <2>1, <2>2 DEF SerialInv, GoneSettled
  <1>9. RanShown'
    <2>1. \A n \in ran : stream'[n].state \in {"pending", "stale", "gone"}
      BY <1>1, <1>2 DEF SerialInv, RanShown
    <2>2. \A n \in ran : Live(n)' => status'[stream'[n].job] \in {"running"} \cup Settled
      BY <1>1, <1>3 DEF SerialInv, RanShown, EntriesKept
    <2> QED BY <1>1, <2>1, <2>2 DEF RanShown
  <1>10. \A v \in Workers : HeldOK(v)'
    BY <1>6, <1>7
  <1> QED BY <1>4, <1>5, <1>8, <1>9, <1>10 DEF SerialInv

LEMMA AckSerial ==
  ASSUME IInv, SerialInv, OnePerJob, NEW w \in Workers, AckDelivery(w), Others(w)
  PROVE  SerialInv'
  <1>1. PICK h \in MsgIds, j \in Jobs : h = held[w] /\ j = JobOf(w)
    BY AckRow
  <1>2. /\ EntriesKept /\ stream'[h].state = "gone" /\ stream[h].job = j
        /\ \A m \in MsgIds \ {h} : stream'[m] = stream[m]
    BY <1>1, AckRow DEF JobOf
  <1>3. /\ pc[w] = "ack" /\ pc'[w] = "idle" /\ status[j] \in Settled
        /\ UNCHANGED <<status, api, ran>> /\ ran \subseteq MsgIds
    BY <1>1 DEF AckDelivery, Goto, jobVars, SerialInv, HeldOK, IInv, TypeOK
  <1>4. \A m \in MsgIds : Live(m)' => Live(m)
    BY <1>2 DEF Live
  <1>5. LastExists' /\ LiveIsLast'
    BY <1>2, <1>4, KeptToken DEF SerialInv
  <1>6. AttemptsGrow'
    BY <1>2 DEF SerialInv, AttemptsGrow, EntriesKept
  <1>7. ASSUME NEW v \in Workers \ {w}
        PROVE  HeldOK(v)'
    <2>1. Inside(v) => JobOf(v) # j
      BY <1>1, <1>3 DEF OnePerJob, Inside
    <2> QED BY <1>2, <1>3, <2>1, OtherHeld DEF Others, SameState
  <1>8. \A v \in Workers : HeldOK(v)'
    BY <1>3, <1>7 DEF HeldOK, HoldsLease, Executing
  <1>9. GoneSettled'
    <2>1. \A i \in Jobs : Deliveries(i)' = Deliveries(i) /\ Deliveries(i) \subseteq MsgIds
      BY <1>2 DEF EntriesKept, Deliveries
    <2>2. \A i \in Jobs \ {j} : h \notin Deliveries(i)
      BY <1>2 DEF Deliveries
    <2>3. \A i \in Jobs \ {j} : i \in Gone' => i \in Gone
      BY <1>2, <2>1, <2>2 DEF Gone, Live
    <2> QED BY <1>3, <2>1, <2>3 DEF SerialInv, GoneSettled, Gone
  <1>10. RanShown'
    <2>1. \A m \in ran : stream'[m].state \in {"pending", "stale", "gone"}
      BY <1>2, <1>3 DEF SerialInv, RanShown
    <2>2. \A m \in ran : Live(m)' => status'[stream'[m].job] \in {"running"} \cup Settled
      BY <1>2, <1>3, <1>4 DEF SerialInv, RanShown, EntriesKept
    <2> QED BY <1>3, <2>1, <2>2 DEF RanShown
  <1> QED BY <1>5, <1>6, <1>8, <1>9, <1>10 DEF SerialInv

LEMMA RetrySerial ==
  ASSUME IInv, SerialInv, OnePerJob, NEW w \in Workers, PublishRetry(w), Others(w)
  PROVE  SerialInv'
  <1>1. PICK h \in MsgIds, n \in MsgIds, j \in Jobs :
          h = held[w] /\ n = lastId + 1 /\ j = JobOf(w)
    BY RetryRow
  <1>2. /\ h # n /\ stream'[n].job = j /\ stream'[n].attempt = stream[h].attempt + 1
        /\ stream'[n].state = "new"
        /\ stream'[h].job = j /\ stream'[h].attempt = stream[h].attempt
        /\ stream'[h].state = "gone" /\ stream[h].job = j
        /\ \A m \in MsgIds \ {n, h} : stream'[m] = stream[m]
    BY <1>1, RetryRow DEF JobOf, AttemptOf
  <1>3. /\ pc[w] = "retry" /\ pc'[w] \in {"mark", "down"}
        /\ pc'[w] = "mark" => held'[w] = h
        /\ UNCHANGED <<status, api, ran>> /\ ran \subseteq MsgIds
    BY <1>1 DEF PublishRetry, Goto, jobVars, IInv, TypeOK
  <1>4. Live(h)
    BY <1>1, <1>3 DEF SerialInv, HeldOK, HoldsLease, Live
  <1>5. stream[n].state = "absent" /\ stream[n].job \notin Jobs
    BY <1>1, QueueAssumption DEF IInv, TypeOK, StreamInv
  <1>6. LastExists' /\ LiveIsLast'
    <2>1. \A v \in Workers : pc[v] = "retry" => Live(held[v])
      BY DEF SerialInv, HeldOK, HoldsLease, Live
    <2>2. [Next]_vars
      BY DEF Next, WorkerNext, Process
    <2> QED BY <2>1, <2>2, LastStep DEF SerialInv
  <1>7. \A m \in MsgIds : stream[m].job = j => m <= h
    BY <1>2, <1>4 DEF SerialInv, LiveIsLast
  <1>8. AttemptsGrow'
    <2> SUFFICES ASSUME NEW a \in MsgIds, NEW b \in MsgIds, a < b,
                        stream'[a].job = stream'[b].job, stream'[a].job \in Jobs
                 PROVE  stream'[a].attempt < stream'[b].attempt
      BY DEF AttemptsGrow
    <2>1. stream[h].attempt \in Nat
      BY DEF IInv, TypeOK, Entry
    <2>2. CASE a # n /\ b # n
      BY <1>2, <2>2 DEF SerialInv, AttemptsGrow
    <2>3. CASE b = n
      <3>1. stream[a].job = j /\ stream'[a].attempt = stream[a].attempt /\ a <= h
        BY <1>2, <1>7, <2>3 DEF MsgIds
      <3>2. stream[a].attempt \in Nat
        BY DEF IInv, TypeOK, Entry
      <3>3. a = h \/ stream[a].attempt < stream[h].attempt
        BY <1>2, <3>1 DEF SerialInv, AttemptsGrow, MsgIds
      <3> QED BY <1>2, <2>1, <2>3, <3>1, <3>2, <3>3
    <2>4. CASE a = n
      <3>a. lastId \in Nat /\ a \in Nat /\ b \in Nat
        BY DEF MsgIds, IInv, TypeOK
      <3>b. pc[w] \notin {"idle", "down"}
        BY <1>3
      <3>c. h <= lastId
        BY <1>1, <3>b, Holding
      <3>1. b > lastId + 1 /\ b # h /\ b # n
        BY <1>1, <2>4, <3>a, <3>c
      <3>2. stream'[b] = stream[b]
        BY <1>2, <3>1
      <3>3. lastId \in Nat /\ b \in Nat /\ lastId < b
        BY <3>1 DEF MsgIds, IInv, TypeOK
      <3>4. stream[b].job \notin Jobs
        BY <3>3, QueueAssumption DEF IInv, StreamInv
      <3> QED BY <2>4, <3>2, <3>4
    <2> QED BY <2>2, <2>3, <2>4
  <1>9. HeldOK(w)'
    BY <1>1, <1>2, <1>3 DEF HeldOK, HoldsLease, Executing, JobOf
  <1>10. ASSUME NEW v \in Workers \ {w}
         PROVE  HeldOK(v)'
    <2>1. Inside(v) => JobOf(v) # j /\ JobOf(v) \in Jobs
      BY <1>1, <1>3, Holding DEF OnePerJob, Inside
    <2> QED BY <1>2, <1>3, <1>5, <2>1, OtherHeld DEF Others, SameState
  <1>11. GoneSettled'
    <2>1. \A i \in Jobs \ {j} : /\ Deliveries(i)' = Deliveries(i)
                                /\ h \notin Deliveries(i) /\ n \notin Deliveries(i)
                                /\ Deliveries(i) \subseteq MsgIds
      BY <1>2, <1>5 DEF Deliveries
    <2>2. \A i \in Jobs \ {j} : i \in Gone' => i \in Gone
      BY <1>2, <2>1 DEF Gone, Live
    <2>3. n \in Deliveries(j)' /\ stream'[n].state = "new"
      BY <1>2 DEF Deliveries
    <2>4. j \notin Gone'
      BY <2>3 DEF Gone, Live
    <2> QED BY <1>3, <2>1, <2>2, <2>3, <2>4 DEF SerialInv, GoneSettled, Gone
  <1>12. RanShown'
    <2>1. \A m \in ran : m # n
      BY <1>5 DEF SerialInv, RanShown
    <2>2. \A m \in ran : stream'[m].state \in {"pending", "stale", "gone"}
      BY <1>2, <1>3, <2>1 DEF SerialInv, RanShown
    <2>3. \A m \in ran : Live(m)' => status'[stream'[m].job] \in {"running"} \cup Settled
      BY <1>2, <1>3, <2>1 DEF SerialInv, RanShown, Live
    <2> QED BY <1>3, <2>2, <2>3 DEF RanShown
  <1>13. \A v \in Workers : HeldOK(v)'
    BY <1>9, <1>10
  <1> QED BY <1>6, <1>8, <1>11, <1>12, <1>13 DEF SerialInv

LEMMA WorkerSerial ==
  ASSUME IInv, SerialInv, OnePerJob, OnePerJob', NEW w \in Workers, WorkerNext(w)
  PROVE  SerialInv'
  <1> USE DEF Goto, Write
  <1>t. pc \in [Workers -> WorkerState] /\ held \in [Workers -> 0..MaxMsgs]
    BY DEF IInv, TypeOK
  <1>o. Others(w)
    BY WorkerFrame
  <1>q. UNCHANGED queueVars => Same
    BY SameQueue
  <1>h. pc[w] \in HoldsLease \cup {"mark", "markWrite"} =>
          held[w] \in MsgIds /\ held[w] <= lastId
    BY ActiveJob
  <1>s. status' = status =>
          \A m \in ran : Live(m) => status'[stream[m].job] \in {"running"} \cup Settled
    BY ShownKept
  <1>j. pc[w] \in HoldsLease \cup {"mark", "markWrite"} => JobOf(w) \in Jobs
    BY ActiveJob
  <1>1. CASE ReceiveReclaimed(w)
    <2>1. PICK m \in MsgIds : ReclaimStale(m) /\ Take(w, m, TRUE)
      BY <1>1 DEF ReceiveReclaimed
    <2> QED BY <1>o, <2>1, TakeSerial DEF ReclaimStale, Oldest, Reclaimable
  <1>2. CASE ReceiveNew(w)
    <2>1. PICK m \in MsgIds : ReadNew(m) /\ Take(w, m, FALSE)
      BY <1>2 DEF ReceiveNew
    <2> QED BY <1>o, <2>1, TakeSerial DEF ReadNew, Oldest, Unread
  <1>3. CASE LoadJob(w)
    <2> DEFINE to == Route(status[JobOf(w)], fresh[JobOf(w)], reclaimed[w], AttemptOf(w))
    <2>1. /\ pc[w] = "load" /\ pc[w] \in HoldsLease /\ pc'[w] = to /\ held'[w] = held[w]
          /\ Same /\ status' = status /\ ran' = ran /\ api' = api
      BY <1>3, <1>t, <1>q DEF LoadJob, jobVars, HoldsLease, Route
    <2>2. held[w] \in ran => reclaimed[w] /\ status[JobOf(w)] \in {"running"} \cup Settled
      BY <2>1 DEF SerialInv, RanShown, HeldOK, Live, JobOf
    <2>3. /\ to \in HoldsLease /\ to # "load"
          /\ to = "ack" => status[JobOf(w)] \in Settled
      BY DEF Route, HoldsLease, Executing, Terminal, Settled
    <2>4. to \in {"premark", "premarkWrite", "start"} => held[w] \notin ran
      BY <2>2 DEF Route, Terminal, Settled
    <2>5. "none" \in Status /\ to \notin {"idle", "down", "mark", "markWrite"}
      BY <2>3 DEF Status, HoldsLease, Executing
    <2>6. pc[w] \notin {"idle", "down"}
      BY <2>1
    <2> HIDE DEF to
    <2> QED BY <1>o, <1>s, <2>1, <2>3, <2>4, <2>5, <2>6, LocalSerial DEF Inside
  <1>4. CASE TouchAndLeave(w)
    <2>1. Same
      BY <1>4, <1>h, SameTouch DEF TouchAndLeave, HoldsLease
    <2> QED BY <1>4, <1>o, <1>t, <1>s, <2>1, LocalSerial
            DEF Inside, TouchAndLeave, jobVars, HoldsLease, Executing, Status
  <1>5. CASE FailExpired(w)
    <2>1. /\ pc[w] = "expire" /\ pc[w] \in HoldsLease /\ pc'[w] = "ack" /\ held'[w] = held[w]
          /\ Same /\ status' = [status EXCEPT ![JobOf(w)] = "failed"]
          /\ ran' = ran /\ api' = api
      BY <1>5, <1>t, <1>q DEF FailExpired, FailJob, HoldsLease
    <2>2. \A m \in ran : Live(m) => status'[stream[m].job] \in {"running"} \cup Settled
      BY <2>1, ShownWritten DEF Settled
    <2>3. status'[JobOf(w)] \in Settled
      BY <1>j, <2>1 DEF Settled, IInv, TypeOK
    <2> QED BY <1>o, <2>1, <2>2, <2>3, LocalSerial DEF Inside, HoldsLease, Status
  <1>6. CASE AckDelivery(w)
    BY <1>6, <1>o, AckSerial
  <1>7. CASE PublishRetry(w)
    BY <1>7, <1>o, RetrySerial
  <1>8. CASE MarkRead(w)
    <2>1. /\ pc[w] \in {"mark", "premark"}
          /\ pc[w] = "mark" => pc'[w] \in {"markWrite", "idle"}
          /\ pc[w] = "premark" => pc'[w] \in {"premarkWrite", "start"}
          /\ pc'[w] # "idle" => held'[w] = held[w]
          /\ Same /\ status' = status /\ ran' = ran /\ api' = api
      BY <1>8, <1>t, <1>q DEF MarkRead, jobVars
    <2>2. pc[w] = "premark" => held[w] \notin ran
      BY DEF SerialInv, HeldOK
    <2> QED BY <1>o, <1>s, <2>1, <2>2, LocalSerial DEF Inside, HoldsLease, Executing, Status
  <1>9. CASE MarkWrite(w)
    <2>1. /\ pc[w] \in {"markWrite", "premarkWrite"}
          /\ pc[w] = "markWrite" => pc'[w] = "idle"
          /\ pc[w] = "premarkWrite" => pc'[w] = "start"
          /\ pc'[w] # "idle" => held'[w] = held[w]
          /\ Same /\ status' = [status EXCEPT ![JobOf(w)] = "queued"]
          /\ ran' = ran /\ api' = api
      BY <1>9, <1>t, <1>q DEF MarkWrite, RequeueWrites
    <2>2. \A m \in ran : Live(m) => status'[stream[m].job] \in {"running"} \cup Settled
      BY <2>1, ShownRequeued
    <2>3. pc[w] = "premarkWrite" => held[w] \notin ran
      BY DEF SerialInv, HeldOK
    <2> QED BY <1>o, <2>1, <2>2, <2>3, LocalSerial DEF Inside, HoldsLease, Executing, Status
  <1>10. CASE StartRun(w)
    <2>1. /\ pc[w] = "start" /\ pc[w] \in HoldsLease /\ pc'[w] = "run" /\ held'[w] = held[w]
          /\ Same /\ status' = [status EXCEPT ![JobOf(w)] = "running"]
          /\ ran' = ran \cup {held[w]} /\ api' = api
      BY <1>10, <1>t, <1>q DEF StartRun, MarkJobRunning, HoldsLease
    <2>2. \A m \in ran' : Live(m) => status'[stream[m].job] \in {"running"} \cup Settled
      BY <2>1, ShownWritten
    <2> QED BY <1>o, <2>1, <2>2, LocalSerial DEF Inside, HoldsLease, Executing, Status
  <1>11. CASE ProgressWrite(w) \/ FinishRun(w)
    <2>1. PICK s \in {"running"} \cup Settled :
            status' = [status EXCEPT ![JobOf(w)] = s]
      BY <1>11 DEF ProgressWrite, FinishRun, UpdateJobProgress, CompleteJob, Settled
    <2>2. /\ pc[w] \in Executing /\ pc[w] \in HoldsLease /\ pc'[w] \in {"run", "after"}
          /\ held'[w] = held[w] /\ Same /\ ran' = ran /\ api' = api
      BY <1>11, <1>t, <1>q DEF ProgressWrite, FinishRun, Executing, HoldsLease
    <2>3. \A m \in ran : Live(m) => status'[stream[m].job] \in {"running"} \cup Settled
      BY <2>1, <2>2, ShownWritten
    <2>4. s \in Status
      BY DEF Status, Settled
    <2> QED BY <1>o, <2>1, <2>2, <2>3, <2>4, LocalSerial DEF Inside, HoldsLease, Executing
  <1>12. CASE FailRun(w)
    <2>1. /\ pc[w] \in {"run", "start"} /\ pc[w] \in HoldsLease /\ pc'[w] = "after"
          /\ held'[w] = held[w] /\ Same /\ status' = [status EXCEPT ![JobOf(w)] = "failed"]
          /\ ran' = ran \cup {held[w]} /\ api' = api
      BY <1>12, <1>t, <1>q DEF FailRun, FailJob, HoldsLease, Executing
    <2>2. \A m \in ran' : Live(m) => status'[stream[m].job] \in {"running"} \cup Settled
      BY <2>1, ShownWritten DEF Settled
    <2> QED BY <1>o, <2>1, <2>2, LocalSerial DEF Inside, HoldsLease, Status
  <1>13. CASE AfterRun(w)
    <2>1. /\ pc[w] = "after" /\ pc[w] \in HoldsLease
          /\ pc'[w] \in {"retry", "ack", "idle"}
          /\ pc'[w] = "ack" => status[JobOf(w)] \in Settled
          /\ pc'[w] # "idle" => held'[w] = held[w]
          /\ Same /\ status' = status /\ ran' = ran /\ api' = api
      BY <1>13, <1>t, <1>q DEF AfterRun, jobVars, HoldsLease, Settled, Terminal
    <2> QED BY <1>o, <1>s, <2>1, LocalSerial DEF Inside, HoldsLease, Executing, Status
  <1>14. CASE Pulse(w) \/ ProgressPulse(w)
    <2>1. pc[w] \in Executing /\ pc[w] \in HoldsLease /\ Touch(held[w])
      BY <1>14 DEF Pulse, ProgressPulse, Executing, HoldsLease
    <2>2. Same
      BY <1>h, <2>1, SameTouch
    <2>3. /\ pc'[w] \in Executing /\ held'[w] = held[w]
          /\ status' = status /\ ran' = ran /\ api' = api
      BY <1>14, <1>t DEF Pulse, ProgressPulse, Executing
    <2> QED BY <1>o, <1>s, <2>1, <2>2, <2>3, LocalSerial DEF Inside, HoldsLease, Executing, Status
  <1>15. CASE Crash(w) \/ Restart(w)
    <2>1. /\ pc'[w] \in {"down", "idle"}
          /\ Same /\ status' = status /\ ran' = ran /\ api' = api
      BY <1>15, <1>t, <1>q DEF Crash, Restart, jobVars
    <2> QED BY <1>o, <1>s, <2>1, LocalSerial DEF Inside, HoldsLease, Executing, Status
  <1> QED BY <1>1, <1>2, <1>3, <1>4, <1>5, <1>6, <1>7, <1>8, <1>9, <1>10, <1>11, <1>12,
             <1>13, <1>14, <1>15 DEF WorkerNext, Process, EndRun

-----------------------------------------------------------------------------
(* The steps of the API and of the clocks *)

LEMMA RowSerial ==
  ASSUME IInv, SerialInv, Same, UNCHANGED workerVars, ran' = ran, NEW j \in Jobs,
         \A i \in Jobs : api'[i] = "done" => api[i] = "done",
         \A i \in Jobs \ {j} : status'[i] = status[i],
         \/ status'[j] = status[j]
         \/ status'[j] \in Settled
         \/ \A m \in MsgIds : stream[m].job # j
  PROVE  SerialInv'
  <1>1. /\ LastExists' /\ LiveIsLast' /\ AttemptsGrow'
        /\ \A m \in MsgIds : Live(m)' <=> Live(m)
        /\ \A i \in Jobs : Deliveries(i)' = Deliveries(i)
        /\ Gone' = Gone
    BY SameStream
  <1>2. \A w \in Workers : pc[w] \notin {"idle", "down"} =>
          /\ held[w] \in MsgIds /\ JobOf(w) \in Jobs /\ JobOf(w)' = JobOf(w)
    BY Holding DEF JobOf, Same, EntriesKept, workerVars
  <1>3. \A w \in Workers : HeldOK(w)'
    <2>1. \A w \in Workers : Inside(w) => status'[JobOf(w)] \in {status[JobOf(w)]} \cup Settled
      BY <1>2 DEF Inside, JobOf
    <2> QED BY <2>1, OtherHeld DEF workerVars, Same, EntriesKept
  <1>4. GoneSettled'
    <2>1. \A i \in Gone : status'[i] \in Settled
      BY DEF SerialInv, GoneSettled, Gone, Deliveries
    <2> QED BY <1>1, <2>1 DEF SerialInv, GoneSettled
  <1>5. RanShown'
    <2>1. ran \subseteq MsgIds /\ \A m \in ran : stream[m].job \in Jobs
      BY DEF SerialInv, RanShown, IInv, TypeOK, StreamInv
    <2>2. \A m \in ran : stream'[m].state \in {"pending", "stale", "gone"}
      BY <2>1 DEF SerialInv, RanShown, Same, SameState
    <2>3. \A m \in ran : Live(m) => status'[stream[m].job] \in {"running"} \cup Settled
      BY <2>1 DEF SerialInv, RanShown
    <2>4. \A m \in ran : Live(m)' => status'[stream'[m].job] \in {"running"} \cup Settled
      BY <1>1, <2>1, <2>3 DEF Same, EntriesKept
    <2> QED BY <2>2, <2>4 DEF RanShown
  <1> QED BY <1>1, <1>3, <1>4, <1>5 DEF SerialInv

LEMMA EnqueueSerial ==
  ASSUME IInv, SerialInv, NEW j \in Jobs, Publishes(j), UNCHANGED workerVars,
         status' = status, ran' = ran, \A i \in Jobs \ {j} : api'[i] = api[i]
  PROVE  SerialInv'
  <1>0. PICK n \in MsgIds : n = lastId + 1
    BY PublishRow
  <1>1. /\ stream'[n].job = j /\ stream'[n].state = "new"
        /\ \A m \in MsgIds \ {n} : stream'[m] = stream[m]
        /\ \A m \in MsgIds : stream[m].job # j
    BY <1>0, PublishRow
  <1>2. stream[n].state = "absent" /\ stream[n].job \notin Jobs
    BY <1>0, QueueAssumption DEF IInv, TypeOK, StreamInv
  <1>3. LastExists' /\ LiveIsLast'
    <2>1. \A m \in MsgIds \ {n} : stream'[m].job = stream[m].job /\ (Live(m)' => Live(m))
      BY <1>1 DEF Live
    <2> QED BY <1>0, <1>1, <2>1, PublishedToken DEF SerialInv
  <1>4. AttemptsGrow'
    <2>1. \A m \in MsgIds \ {n} : stream'[m].job # stream'[n].job
      BY <1>1
    <2> QED BY <1>1, <2>1 DEF SerialInv, AttemptsGrow, MsgIds
  <1>5. \A w \in Workers : HeldOK(w)'
    <2>1. \A w \in Workers : Inside(w) => JobOf(w) \in Jobs
      BY Holding DEF Inside
    <2> QED BY <1>1, <1>2, <2>1, OtherHeld DEF workerVars, SameState
  <1>6. GoneSettled'
    <2>1. \A i \in Jobs \ {j} : /\ Deliveries(i)' = Deliveries(i) /\ n \notin Deliveries(i)
                                /\ Deliveries(i) \subseteq MsgIds
      BY <1>1, <1>2 DEF Deliveries
    <2>2. \A i \in Jobs \ {j} : i \in Gone' => i \in Gone
      BY <1>1, <2>1 DEF Gone, Live
    <2>3. n \in Deliveries(j)' /\ j \notin Gone'
      BY <1>1 DEF Deliveries, Gone, Live
    <2> QED BY <2>1, <2>2, <2>3 DEF SerialInv, GoneSettled, Gone
  <1>7. RanShown'
    <2>1. \A m \in ran : m # n /\ m \in MsgIds
      BY <1>2 DEF SerialInv, RanShown, IInv, TypeOK
    <2> QED BY <1>1, <2>1 DEF SerialInv, RanShown, Live
  <1> QED BY <1>3, <1>4, <1>5, <1>6, <1>7 DEF SerialInv

LEMMA StepSerial ==
  ASSUME IInv, SerialInv, OnePerJob, OnePerJob', [Next]_vars
  PROVE  SerialInv'
  <1> USE DEF Write
  <1>1. ASSUME NEW j \in Jobs, ApiNext(j)
        PROVE  SerialInv'
    <2>1. CASE EnqueueJob(j) \/ EnqueueReplyLost(j)
      BY <2>1, EnqueueSerial DEF EnqueueJob, EnqueueReplyLost, Publishes, jobVars, IInv, TypeOK
    <2>2. CASE Submit(j)
      <3>1. \A m \in MsgIds : stream[m].job # j
        BY <2>2 DEF Submit, IInv, FirstDeliveryInv
      <3>2. Same /\ UNCHANGED workerVars /\ ran' = ran
        BY <2>2, SameQueue DEF Submit
      <3>3. \A i \in Jobs \ {j} : status'[i] = status[i]
        BY <2>2 DEF Submit, CreateJob, IInv, TypeOK
      <3>4. \A i \in Jobs : api'[i] = "done" => api[i] = "done"
        BY <2>2 DEF Submit, IInv, TypeOK
      <3> QED BY <3>1, <3>2, <3>3, <3>4, RowSerial
    <2>3. CASE Reject(j)
      <3>1. Same /\ UNCHANGED workerVars /\ ran' = ran
        BY <2>3, SameQueue DEF Reject
      <3>2. status'[j] \in Settled /\ \A i \in Jobs \ {j} : status'[i] = status[i]
        BY <2>3 DEF Reject, FailJob, Settled, IInv, TypeOK
      <3>3. \A i \in Jobs : api'[i] = "done" => api[i] = "done"
        BY <2>3 DEF Reject, IInv, TypeOK
      <3> QED BY <3>1, <3>2, <3>3, RowSerial
    <2>4. CASE EnqueueRefused(j) \/ ApiCrash(j)
      <3>1. Same /\ UNCHANGED workerVars /\ ran' = ran /\ status' = status
        BY <2>4, SameQueue DEF EnqueueRefused, ApiCrash, jobVars
      <3>2. \A i \in Jobs : api'[i] = "done" => api[i] = "done"
        BY <2>4 DEF EnqueueRefused, ApiCrash, IInv, TypeOK
      <3> QED BY <3>1, <3>2, RowSerial
    <2> QED BY <1>1, <2>1, <2>2, <2>3, <2>4 DEF ApiNext
  <1>2. CASE \E w \in Workers : WorkerNext(w)
    BY <1>2, WorkerSerial
  <1>3. ASSUME NEW j \in Jobs, Same, UNCHANGED <<workerVars, ran, status, api>>
        PROVE  SerialInv'
    BY <1>3, RowSerial
  <1>4. ASSUME NEW j \in Jobs, JobHeartbeatExpires(j)
        PROVE  SerialInv'
    BY <1>3, <1>4, SameQueue DEF JobHeartbeatExpires, HeartbeatExpires
  <1>5. ASSUME NEW m \in MsgIds, LeaseExpires(m)
        PROVE  SerialInv'
    <2>1. stream[m].state = "pending" /\ m <= lastId /\ stream[m].job \in Jobs
      BY <1>5 DEF LeaseExpires, IInv, StreamInv
    <2>2. EntriesKept
      BY <1>5, <2>1, SetStateKept DEF LeaseExpires
    <2>3. Same
      BY <1>5, <2>1, <2>2 DEF LeaseExpires, Same, SameState, SetState, IInv, TypeOK, Entry
    <2> QED BY <1>3, <1>5, <2>1, <2>3 DEF LeaseExpires, jobVars
  <1>6. CASE UNCHANGED vars
    <2>1. Same
      BY <1>6, SameQueue DEF vars, queueVars
    <2>2. CASE Jobs = {}
      <3>1. \A m \in MsgIds : stream[m].state = "absent"
        BY <2>2 DEF IInv, StreamInv
      <3>2. ran = {} /\ \A w \in Workers : ~ Inside(w)
        BY <2>2, <3>1, Holding DEF SerialInv, RanShown, IInv, TypeOK, Inside
      <3>3. \A w \in Workers : HeldOK(w)'
        BY <1>6, <3>2, OtherHeld DEF vars
      <3> QED BY <1>6, <2>1, <2>2, <3>2, <3>3, SameStream
              DEF vars, SerialInv, GoneSettled, RanShown, Gone
    <2>3. CASE Jobs # {}
      BY <1>3, <1>6, <2>1, <2>3 DEF vars, workerVars
    <2> QED BY <2>2, <2>3
  <1> QED BY <1>1, <1>2, <1>4, <1>5, <1>6 DEF Next

LEMMA SerialInductive ==
  Spec /\ []OnePerJob => []SerialInv
  <1>1. IInv /\ SerialInv /\ OnePerJob /\ OnePerJob' /\ [Next]_vars => SerialInv'
    BY StepSerial
  <1> QED BY InitSerial, <1>1, Inductive, PTL DEF Spec

(* A submitted job that PostgreSQL shows as queued or running has a        *)
(* delivery to be received or reclaimed: process_delivery settles the row  *)
(* before it acknowledges the last delivery of the job, and publishes a    *)
(* retry before it acknowledges an earlier one, whatever crashes, while    *)
(* one worker at a time is inside it with the job.                         *)
THEOREM SerialStrandsNoJob ==
  Spec /\ []OnePerJob => []NoStrandedJob
  <1>1. SerialInv => NoStrandedJob
    <2> SUFFICES ASSUME SerialInv, NEW j \in Jobs, api[j] = "done",
                        status[j] \in {"queued", "running"}
                 PROVE  \E m \in MsgIds : Live(m) /\ stream[m].job = j
      BY DEF NoStrandedJob
    <2>1. Deliveries(j) # {} /\ j \notin Gone
      BY DEF SerialInv, GoneSettled, Settled
    <2>2. PICK m \in Deliveries(j) : Live(m)
      BY <2>1 DEF Gone
    <2> QED BY <2>2 DEF Deliveries
  <1> QED BY SerialInductive, <1>1, PTL

(* A delivery is handed to a runner at most once while one worker at a     *)
(* time is inside process_delivery with its job: a delivery that was       *)
(* started comes back only through reclaim_stale, and process_delivery     *)
(* never starts a reclaimed delivery whose row shows the run.              *)
THEOREM SerialRunsDeliveryOnce ==
  Spec /\ []OnePerJob => DeliveryRunsOnce
  <1>1. SerialInv => \A w \in Workers : StartRun(w) => held[w] \notin ran
    BY DEF SerialInv, HeldOK, StartRun, Goto
  <1> QED BY SerialInductive, <1>1, PTL DEF DeliveryRunsOnce

(* The acknowledged delivery with the last attempt is the last delivery of *)
(* its job, and no other is live.                                          *)
LEMMA ExhaustedGone ==
  ASSUME IInv, SerialInv, NEW j \in Jobs, BudgetExhausted(j)
  PROVE  j \in Gone /\ api[j] # "none"
  <1>1. PICK m \in MsgIds : /\ stream[m].job = j /\ stream[m].attempt = MaxAttempts
                            /\ stream[m].state = "gone"
    BY DEF BudgetExhausted
  <1>2. \A n \in MsgIds : stream[n].job = j => n <= m
    <2> SUFFICES ASSUME NEW n \in MsgIds, stream[n].job = j, m < n
                 PROVE  FALSE
      BY DEF MsgIds
    <2>1. stream[n].attempt \in 0..MaxAttempts
      BY DEF IInv, TypeOK, Entry
    <2> QED BY <1>1, <2>1, QueueAssumption DEF SerialInv, AttemptsGrow
  <1>3. \A n \in Deliveries(j) : ~Live(n)
    <2> SUFFICES ASSUME NEW n \in Deliveries(j), Live(n)
                 PROVE  FALSE
      OBVIOUS
    <2>1. n \in MsgIds /\ stream[n].job = j /\ n <= m /\ m <= n
      BY <1>1, <1>2 DEF Deliveries, SerialInv, LiveIsLast
    <2>2. n = m
      BY <2>1 DEF MsgIds
    <2> QED BY <1>1, <2>2 DEF Live
  <1> QED BY <1>1, <1>3 DEF Gone, Deliveries, IInv, FirstDeliveryInv

(* A job that PostgreSQL shows as failed, and whose delivery of the last   *)
(* attempt is acknowledged, stays failed while one worker at a time is     *)
(* inside process_delivery with it: nothing requeues, restarts or          *)
(* completes it.                                                           *)
THEOREM SerialLeavesExhaustedJob ==
  Spec /\ []OnePerJob => ExhaustedJobStaysFailed
  <1>1. ASSUME IInv, SerialInv, [Next]_vars, NEW j \in Jobs, BudgetExhausted(j)
        PROVE  status'[j] = "failed"
    <2>1. j \in Gone /\ api[j] # "none" /\ status[j] = "failed"
      BY <1>1, ExhaustedGone DEF BudgetExhausted
    <2>2. status \in [Jobs -> Status] /\ api \in [Jobs -> ApiState]
      BY <1>1 DEF IInv, TypeOK
    <2>3. ASSUME NEW i \in Jobs, ApiNext(i)
          PROVE  status'[j] = "failed"
      BY <2>1, <2>2, <2>3
         DEF ApiNext, Submit, EnqueueJob, EnqueueReplyLost, EnqueueRefused, Reject, ApiCrash,
             CreateJob, FailJob, Write, jobVars
    <2>4. ASSUME NEW w \in Workers, WorkerNext(w)
          PROVE  status'[j] = "failed"
      <3>1. pc[w] \in HoldsLease \cup {"mark", "markWrite"} => JobOf(w) # j
        BY <1>1, <2>1, ActiveJob
      <3>2. CASE status' = status
        BY <2>1, <3>2
      <3>3. CASE FailExpired(w) \/ MarkWrite(w) \/ StartRun(w) \/ FinishRun(w) \/ FailRun(w)
                 \/ ProgressWrite(w)
        BY <2>1, <2>2, <3>1, <3>3
           DEF FailExpired, MarkWrite, StartRun, FinishRun, FailRun, ProgressWrite, Goto,
               HoldsLease, Executing, FailJob, RequeueWrites, MarkJobRunning, CompleteJob,
               UpdateJobProgress, Write
      <3>4. CASE ReceiveReclaimed(w) \/ ReceiveNew(w) \/ LoadJob(w) \/ TouchAndLeave(w)
                 \/ AckDelivery(w) \/ PublishRetry(w) \/ MarkRead(w) \/ AfterRun(w)
                 \/ Pulse(w) \/ ProgressPulse(w) \/ Crash(w) \/ Restart(w)
        <4>1. status' = status
          BY <3>4 DEF ReceiveReclaimed, ReceiveNew, Take, LoadJob, TouchAndLeave, AckDelivery,
                      PublishRetry, MarkRead, AfterRun, Pulse, ProgressPulse, Crash, Restart,
                      jobVars
        <4> QED BY <3>2, <4>1
      <3> QED BY <2>4, <3>3, <3>4 DEF WorkerNext, Process, EndRun
    <2>5. CASE \/ \E i \in Jobs : JobHeartbeatExpires(i)
               \/ \E m \in MsgIds : LeaseExpires(m)
               \/ UNCHANGED vars
      BY <2>1, <2>5 DEF JobHeartbeatExpires, HeartbeatExpires, LeaseExpires, jobVars, vars
    <2> QED BY <1>1, <2>3, <2>4, <2>5 DEF Next
  <1>2. IInv /\ SerialInv /\ [Next]_vars =>
          \A j \in Jobs : BudgetExhausted(j) => status'[j] = "failed"
    BY <1>1
  <1> QED BY Inductive, SerialInductive, <1>2, PTL DEF Spec, ExhaustedJobStaysFailed

(* One worker process, whatever it dies of and however late it renews:     *)
(* every pending job has a delivery, no delivery is run twice, and a job   *)
(* out of attempts stays failed (run_forever is one loop per process).     *)
THEOREM OneWorker ==
  ASSUME \A v, w \in Workers : v = w
  PROVE  Spec => []NoStrandedJob /\ DeliveryRunsOnce /\ ExhaustedJobStaysFailed
  <1>1. OnePerJob
    BY DEF OnePerJob
  <1> QED BY <1>1, SerialStrandsNoJob, SerialRunsDeliveryOnce, SerialLeavesExhaustedJob, PTL

-----------------------------------------------------------------------------
(* Workers that renew their leases in time share a job only while one of   *)
(* them still has to requeue the row of a retry it has published.          *)
LEMMA RequeueFirstAlone ==
  ASSUME TimelyRenewal, IInv, LeaseInv, RequeueFirst
  PROVE  OnePerJob
  <1> SUFFICES ASSUME NEW v \in Workers, NEW w \in Workers, Inside(v), Inside(w),
                      JobOf(v) = JobOf(w), v # w
               PROVE  FALSE
    BY DEF OnePerJob
  <1>1. pc[v] \in HoldsLease /\ pc[w] \in HoldsLease
    BY DEF RequeueFirst, Inside, IInv, TypeOK, WorkerState
  <1>2. held[v] \in MsgIds /\ held[w] \in MsgIds
    BY <1>1, Holding DEF HoldsLease, Executing
  <1>3. Live(held[v]) /\ Live(held[w])
    BY <1>1 DEF LeaseInv, LeaseHeld, Live
  <1>4. held[v] = held[w]
    BY <1>2, <1>3 DEF LeaseInv, OneLiveDelivery, JobOf
  <1> QED BY <1>1, <1>4 DEF LeaseInv, LeaseHeld

(* Any number of workers, whatever they die of: while live workers renew   *)
(* their leases in time and a published retry is received only after its   *)
(* row was requeued (retry and _mark_retry, worker.py), every pending job  *)
(* has a delivery, no delivery is run twice, and a job out of attempts     *)
(* stays failed.                                                           *)
THEOREM PromptRequeue ==
  ASSUME TimelyRenewal
  PROVE  Spec /\ []RequeueFirst =>
           []NoStrandedJob /\ DeliveryRunsOnce /\ ExhaustedJobStaysFailed
  <1>1. IInv /\ LeaseInv /\ RequeueFirst => OnePerJob
    BY RequeueFirstAlone
  <1>2. Spec /\ []RequeueFirst => []OnePerJob
    BY <1>1, Inductive, LeaseInductive, PTL
  <1> QED BY <1>2, SerialStrandsNoJob, SerialRunsDeliveryOnce, SerialLeavesExhaustedJob, PTL

(* The hypothesis as a specification (PromptSpec): workers that are given  *)
(* a job whose retry is published only once its row has been requeued.     *)
THEOREM PromptWorkers ==
  ASSUME TimelyRenewal
  PROVE  PromptSpec => []NoStrandedJob /\ DeliveryRunsOnce /\ ExhaustedJobStaysFailed
  <1>1. Init => RequeueFirst
    BY DEF Init, RequeueFirst, Inside
  <1>2. RequeueFirst /\ [Next /\ RequeueFirst']_vars => RequeueFirst' /\ [Next]_vars
    BY DEF vars, workerVars, queueVars, RequeueFirst, Inside, JobOf
  <1>3. PromptSpec => Spec /\ []RequeueFirst
    BY <1>1, <1>2, PTL DEF PromptSpec, Spec
  <1> QED BY <1>3, PromptRequeue, PTL

=============================================================================
