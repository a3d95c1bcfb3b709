-------------------------- MODULE RedisStreamQueue --------------------------
(***************************************************************************)
(* The Redis Streams transport of the analysis workers                     *)
(* (src/src/shared/redis/queue.py): one stream, one consumer group, its    *)
(* pending entries list and the bounded retry.                             *)
(*                                                                         *)
(* An entry is "new" until XREADGROUP hands it to a consumer, "pending"    *)
(* while it is in the pending entries list, "stale" when moreover the      *)
(* visibility timeout has elapsed since it was last claimed, and "gone"    *)
(* once acknowledged: the code always follows XACK by XDEL in the same     *)
(* MULTI.                                                                  *)
(* The consumer that owns an entry is not kept: XACK, XCLAIM and           *)
(* XAUTOCLAIM of this code never compare it.                               *)
(***************************************************************************)
EXTENDS Naturals

CONSTANTS
  Jobs,         \* ids of TenderAnalysisJob rows
  NoJob,        \* job of a stream id that has not been used yet
  MaxAttempts,  \* QueueEnvelope.max_attempts
  MaxMsgs       \* bound: number of XADDs in a behaviour

ASSUME QueueAssumption ==
  /\ NoJob \notin Jobs
  /\ MaxAttempts \in Nat \ {0}
  /\ MaxMsgs \in Nat

VARIABLES
  stream,  \* the entries, by stream id
  lastId   \* the last id XADD assigned

queueVars == <<stream, lastId>>

MsgIds == 1..MaxMsgs

Entry == [job: Jobs \cup {NoJob}, attempt: 0..MaxAttempts,
          state: {"absent", "new", "pending", "stale", "gone"}]

Published(j, a) == [job |-> j, attempt |-> a, state |-> "new"]

SetState(m, s) == [stream EXCEPT ![m] = [@ EXCEPT !.state = s]]

Pending(m) == stream[m].state \in {"pending", "stale"}

Live(m) == stream[m].state \in {"new", "pending", "stale"}

QueueInit ==
  /\ stream = [m \in MsgIds |-> [job |-> NoJob, attempt |-> 0, state |-> "absent"]]
  /\ lastId = 0

-----------------------------------------------------------------------------

Oldest(m, S) == m \in S /\ \A n \in S : m <= n

(* Variant: XAUTOCLAIM without min_idle_time. *)
ReclaimableAtOnce == {m \in MsgIds : Pending(m)}

Reclaimable == {m \in MsgIds : stream[m].state = "stale"}

Unread == {m \in MsgIds : stream[m].state = "new"}

(* enqueue: XADD of the first attempt *)
Enqueue(j) ==
  /\ lastId < MaxMsgs
  /\ lastId' = lastId + 1
  /\ stream' = [stream EXCEPT ![lastId + 1] = Published(j, 1)]

(* reclaim_stale: XAUTOCLAIM from 0-0, count 1 *)
ReclaimStale(m) ==
  /\ Oldest(m, Reclaimable)
  /\ stream' = SetState(m, "pending")
  /\ UNCHANGED lastId

(* The second half of receive: XREADGROUP ">", reached when nothing could
   be reclaimed. *)
ReadNew(m) ==
  /\ Reclaimable = {}
  /\ Oldest(m, Unread)
  /\ stream' = SetState(m, "pending")
  /\ UNCHANGED lastId

(* touch: XCLAIM with min_idle_time 0 resets the idle time of a pending
   entry and does nothing to one that is not pending. *)
Touch(m) ==
  /\ IF Pending(m) THEN stream' = SetState(m, "pending") ELSE UNCHANGED stream
  /\ UNCHANGED lastId

(* ack: MULTI XACK XDEL, whoever owns the entry *)
Ack(m) ==
  /\ stream' = SetState(m, "gone")
  /\ UNCHANGED lastId

(* Variants of retry: the current delivery is not acknowledged; the next
   attempt is not published. *)
RetryWithoutAck(m) ==
  /\ lastId < MaxMsgs
  /\ lastId' = lastId + 1
  /\ stream' = [stream EXCEPT
                  ![lastId + 1] = Published(stream[m].job, stream[m].attempt + 1)]

RetryWithoutPublish(m) == Ack(m)

(* retry: MULTI XADD XACK XDEL.  The XADD takes effect whether or not the
   XACK finds the entry; the caller looks at XACK's reply, Pending(m). *)
Retry(m) ==
  /\ lastId < MaxMsgs
  /\ lastId' = lastId + 1
  /\ stream' = [stream EXCEPT
                  ![m] = [@ EXCEPT !.state = "gone"],
                  ![lastId + 1] = Published(stream[m].job, stream[m].attempt + 1)]
=============================================================================
