-------------------------- MODULE TenderJobDelivery --------------------------
(***************************************************************************)
(* What the queue and its workers promise of one job, whatever happens     *)
(* inside them: the job has one delivery token, its attempt number only    *)
(* moves by one and never past the budget, at most one worker executes the *)
(* job, never after the token is spent, and an attempt is only advanced or *)
(* spent when nobody executes it.                                          *)
(***************************************************************************)
EXTENDS Naturals

CONSTANTS Jobs, MaxAttempts

VARIABLES
  attempt,    \* attempt number of each job's token, 0 before it is published
  spent,      \* the jobs whose token was acknowledged
  executing   \* the jobs being executed

Init == attempt = [j \in Jobs |-> 0] /\ spent = {} /\ executing = {}

Held(j) == attempt[j] > 0 /\ j \notin spent

Publish(j) ==
  /\ attempt[j] = 0
  /\ attempt' = [attempt EXCEPT ![j] = 1]
  /\ UNCHANGED <<spent, executing>>

Begin(j) ==
  /\ Held(j)
  /\ j \notin executing
  /\ executing' = executing \cup {j}
  /\ UNCHANGED <<attempt, spent>>

(* The run ends or its worker dies. *)
End(j) ==
  /\ j \in executing
  /\ executing' = executing \ {j}
  /\ UNCHANGED <<attempt, spent>>

Advance(j) ==
  /\ Held(j)
  /\ attempt[j] < MaxAttempts
  /\ j \notin executing
  /\ attempt' = [attempt EXCEPT ![j] = @ + 1]
  /\ UNCHANGED <<spent, executing>>

Spend(j) ==
  /\ Held(j)
  /\ j \notin executing
  /\ spent' = spent \cup {j}
  /\ UNCHANGED <<attempt, executing>>

Next == \E j \in Jobs : Publish(j) \/ Begin(j) \/ End(j) \/ Advance(j) \/ Spend(j)

Spec == Init /\ [][Next]_<<attempt, spent, executing>>
=============================================================================
