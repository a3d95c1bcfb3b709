------------------------------ MODULE SaasQuota ------------------------------
(***************************************************************************)
(* Quota of one tenant and one metric (src/src/modules/saas_foundation/    *)
(* service.py, charge and refund; router.py, the handlers that spend).     *)
(*                                                                         *)
(* A handler reserves a unit in a transaction of its own, works, and gives *)
(* the unit back in another transaction when the work raises.  Both        *)
(* transactions hold the row of the tenant FOR UPDATE.  An INSERT that     *)
(* references the tenant waits for that lock, as PostgreSQL checks the     *)
(* foreign key under FOR KEY SHARE.                                        *)
(***************************************************************************)
EXTENDS FiniteSets, Integers

CONSTANTS
  Requests,   \* the HTTP requests that may be in progress at a time
  NoRequest,  \* holder of a free lock
  Limit,      \* PACKAGES[plan_code]["quota"][metric]
  MaxMonth    \* bound: calendar months (period_utc)

ASSUME QuotaAssumption ==
  /\ IsFiniteSet(Requests) /\ NoRequest \notin Requests
  /\ Limit \in Nat /\ MaxMonth \in Nat \ {0}

Months == 1..MaxMonth

VARIABLES
  lifecycle,  \* SaasTenant.lifecycle
  month,      \* the current period
  used,       \* SaasUsageCounter.used of a period, 0 without a row
  holder,     \* who holds the tenant row FOR UPDATE
  at,         \* where a request is
  mon,        \* period of the unit that a request reserves
  seen,       \* what a request read under its lock
  done,       \* history: units of a period whose work was done
  leaked,     \* history: units of a period never given back to it
  wrong       \* history: refunds to a period of a unit of another one

quotaVars == <<lifecycle, month, used, done, leaked, wrong>>

QuotaTypeOK == /\ lifecycle \in {"active", "suspended"}
               /\ month \in Months
               /\ used \in [Months -> 0..Limit]
               /\ holder \in Requests \cup {NoRequest}
               /\ mon \in [Requests -> Months]
               /\ seen \in [Requests -> Nat]
               /\ done \in [Months -> Nat]
               /\ leaked \in [Months -> Nat]
               /\ wrong \in [Months -> Nat]

QuotaInit == /\ lifecycle = "active" /\ month = 1
             /\ used = [m \in Months |-> 0]
             /\ holder = NoRequest
             /\ mon = [q \in Requests |-> 1]
             /\ seen = [q \in Requests |-> 0]
             /\ done = [m \in Months |-> 0]
             /\ leaked = [m \in Months |-> 0]
             /\ wrong = [m \in Months |-> 0]

Goto(q, place) == at' = [at EXCEPT ![q] = place]

\* The request is answered; what it held in memory is gone.
Answer(q) == /\ Goto(q, "idle")
             /\ mon' = [mon EXCEPT ![q] = 1] /\ seen' = [seen EXCEPT ![q] = 0]

Free == holder = NoRequest

-----------------------------------------------------------------------------
(* charge *)

(* Variant: the lifecycle seen by require_tenant is trusted. *)
ChargeLockTrusting(q) ==
  /\ at[q] = "charge" /\ Free
  /\ Goto(q, "charging") /\ holder' = q
  /\ mon' = [mon EXCEPT ![q] = month]
  /\ seen' = [seen EXCEPT ![q] = used[month]]
  /\ UNCHANGED <<lifecycle, month, used, done, leaked, wrong>>

(* Variant: the rows are read without a lock. *)
ChargeUnlocked(q) ==
  /\ at[q] = "charge" /\ lifecycle = "active"
  /\ Goto(q, "charging") /\ UNCHANGED holder
  /\ mon' = [mon EXCEPT ![q] = month]
  /\ seen' = [seen EXCEPT ![q] = used[month]]
  /\ UNCHANGED <<lifecycle, month, used, done, leaked, wrong>>

\* The tenant and the counter are locked and read.
ChargeLock(q) ==
  /\ at[q] = "charge" /\ Free /\ lifecycle = "active"
  /\ Goto(q, "charging") /\ holder' = q
  /\ mon' = [mon EXCEPT ![q] = month]
  /\ seen' = [seen EXCEPT ![q] = used[month]]
  /\ UNCHANGED <<lifecycle, month, used, done, leaked, wrong>>

\* 403: the tenant was suspended since the request was authenticated.
ChargeRefused(q) ==
  /\ at[q] = "charge" /\ Free /\ lifecycle # "active"
  /\ Answer(q)
  /\ UNCHANGED <<quotaVars, holder>>

(* Variant: the limit itself is still within the quota. *)
ChargeCommitOffByOne(q) ==
  /\ at[q] = "charging" /\ seen[q] <= Limit
  /\ Goto(q, "work") /\ holder' = NoRequest
  /\ used' = [used EXCEPT ![mon[q]] = seen[q] + 1]
  /\ seen' = [seen EXCEPT ![q] = 0]
  /\ UNCHANGED <<lifecycle, month, mon, done, leaked, wrong>>

ChargeCommit(q) ==
  /\ at[q] = "charging" /\ seen[q] < Limit
  /\ Goto(q, "work") /\ holder' = NoRequest
  /\ used' = [used EXCEPT ![mon[q]] = seen[q] + 1]
  /\ seen' = [seen EXCEPT ![q] = 0]
  /\ UNCHANGED <<lifecycle, month, mon, done, leaked, wrong>>

(* Variant: the 429 is raised where the handler refunds. *)
ChargeExhaustedRefunded(q) ==
  /\ at[q] = "charging" /\ seen[q] >= Limit
  /\ Goto(q, "refund") /\ holder' = NoRequest
  /\ UNCHANGED <<quotaVars, mon, seen>>

\* 429: the quota of the month is exhausted.
ChargeExhausted(q) ==
  /\ at[q] = "charging" /\ seen[q] >= Limit
  /\ Answer(q) /\ holder' = NoRequest
  /\ UNCHANGED quotaVars

-----------------------------------------------------------------------------
(* The work, and refund *)

Count(f, m) == [f EXCEPT ![m] = @ + 1]

\* The rows of the work reference the tenant.
WorkDone(q) ==
  /\ at[q] = "work" /\ Free
  /\ Answer(q)
  /\ done' = Count(done, mon[q])
  /\ UNCHANGED <<lifecycle, month, used, holder, leaked, wrong>>

WorkFails(q) ==
  /\ at[q] = "work"
  /\ Goto(q, "refund")
  /\ UNCHANGED <<quotaVars, holder, mon, seen>>

\* The counter of the current period is decreased, whatever period was charged.
Refund(q) ==
  LET counted == used[month] > 0
      own == mon[q] = month
  IN /\ at[q] = "refund" /\ Free
     /\ Answer(q)
     /\ used' = IF counted THEN [used EXCEPT ![month] = @ - 1] ELSE used
     /\ leaked' = IF counted /\ own THEN leaked ELSE Count(leaked, mon[q])
     /\ wrong' = IF counted /\ ~own THEN Count(wrong, month) ELSE wrong
     /\ UNCHANGED <<lifecycle, month, holder, done>>

\* A request that has reserved dies: nobody gives its unit back.
LeakUnit(q) == leaked' = IF at[q] \in {"work", "refund"} THEN Count(leaked, mon[q]) ELSE leaked

Suspend == /\ lifecycle = "active" /\ Free
           /\ lifecycle' = "suspended"
           /\ UNCHANGED <<month, used, holder, at, mon, seen, done, leaked, wrong>>

MonthEnds == /\ month < MaxMonth
             /\ month' = month + 1
             /\ UNCHANGED <<lifecycle, used, holder, at, mon, seen, done, leaked, wrong>>
=============================================================================
