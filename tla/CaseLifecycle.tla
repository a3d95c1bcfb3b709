---------------------------- MODULE CaseLifecycle ----------------------------
(***************************************************************************)
(* What the customer pilot promises about a case, without requests, locks  *)
(* or rows: a case is handed over only with an approved review of its      *)
(* current run and with no severe escalation open, and a severe escalation *)
(* is the only thing that can hold it, or block it, from operator review.  *)
(***************************************************************************)
CONSTANT Cases

VARIABLES status,    \* lifecycle status of each case
          approved,  \* its current run has an approved review
          held       \* a severe escalation of the case is open

vars == <<status, approved, held>>

Init == /\ status = [c \in Cases |-> "created"]
        /\ approved = [c \in Cases |-> FALSE]
        /\ held = [c \in Cases |-> FALSE]

Move(c, from, to) == /\ status[c] \in from
                     /\ status' = [status EXCEPT ![c] = to]

Start(c) == /\ Move(c, {"created", "operator_review"}, "analyzing")
            /\ approved' = [approved EXCEPT ![c] = FALSE]
            /\ UNCHANGED held

Complete(c) == /\ Move(c, {"analyzing"}, "operator_review")
               /\ UNCHANGED <<approved, held>>

Approve(c) == /\ status[c] = "operator_review" /\ ~ held[c]
              /\ approved' = [approved EXCEPT ![c] = TRUE]
              /\ UNCHANGED <<status, held>>

Escalate(c) == /\ ~ approved[c]
               /\ Move(c, {"operator_review"}, "expert_review")
               /\ held' = [held EXCEPT ![c] = TRUE]
               /\ UNCHANGED approved

Settle(c, to) == /\ Move(c, {"expert_review"}, to)
                 /\ held' = [held EXCEPT ![c] = FALSE]
                 /\ UNCHANGED approved

HandOver(c, from, to) == /\ approved[c] /\ ~ held[c]
                         /\ Move(c, {from}, to)
                         /\ UNCHANGED <<approved, held>>

Archive(c) == /\ Move(c, {"created", "operator_review", "client_ready", "delivered"},
                      "archived")
              /\ UNCHANGED <<approved, held>>

Next == \E c \in Cases :
    \/ Start(c) \/ Complete(c) \/ Approve(c)
    \/ Escalate(c) \/ Settle(c, "operator_review") \/ Settle(c, "archived")
    \/ HandOver(c, "operator_review", "client_ready")
    \/ HandOver(c, "client_ready", "delivered")
    \/ Archive(c)

Spec == Init /\ [][Next]_vars
=============================================================================
