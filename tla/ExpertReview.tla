---------------------------- MODULE ExpertReview ----------------------------
(***************************************************************************)
(* Expert escalations (customer_pilot/expert_review_service.py).  Creation *)
(* locks the case row and re-reads it; every later operation locks the     *)
(* escalation row, and the final decision locks the case afterwards.       *)
(*                                                                         *)
(* An operation that reads nothing but the row it has locked is one action. *)
(* An escalation is named by its idempotency key, unique per customer.     *)
(* Its kind is what severity and trigger decide: "severe" (sev1 or sev2),  *)
(* "safety" (severe, with a trigger that is never charged), "minor" (sev3).*)
(* CONFIRMED stands for REJECTED too (the feedback row is the difference), *)
(* approved for waived (the amount is).                                    *)
(***************************************************************************)
EXTENDS PilotCase, FiniteSets

CONSTANT IncludedLimit   \* PILOT_INCLUDED_REVIEW_LIMIT

ASSUME LimitAssumption == IncludedLimit \in Nat

VARIABLES esc,      \* pilot_expert_escalations
          escLock   \* holder of FOR UPDATE on each escalation row

escVars == <<esc, escLock>>

Kind == {"severe", "safety", "minor"}
Blocking == {"severe", "safety"}
FinalDecision == {"CONFIRMED", "NEEDS_NEW_RUN", "BLOCK_CASE"}
Active == {"awaiting_commercial_approval", "open", "assigned", "in_review",
           "awaiting_customer"}
Final == {"resolved", "blocked"}

Escalation ==
    [status   : Active \cup Final \cup {"absent"},
     case     : Cases \cup {NoCase},
     run      : Keys \cup {NoKey},
     kind     : Kind \cup {"none"},
     billing  : {"none", "included", "not_chargeable", "pending_approval",
                 "approved"},
     decision : FinalDecision \cup {"none"}]

NoEsc == [status |-> "absent", case |-> NoCase, run |-> NoKey, kind |-> "none",
          billing |-> "none", decision |-> "none"]

EscFree(e) == escLock[e] = NoRequest
SetEsc(e, r) == esc' = [esc EXCEPT ![e] = r]
LockCase(c, q) == caseLock' = [caseLock EXCEPT ![c] = q]

\* A severe escalation of case c that has no final decision.
ActiveBlocking(c) ==
    {e \in Escalations : esc[e].case = c /\ esc[e].kind \in Blocking
                                         /\ esc[e].status \in Active}

IncludedReviews == {e \in Escalations : esc[e].kind \in Blocking
                                        /\ esc[e].billing = "included"}

EscInit == /\ esc = [e \in Escalations |-> NoEsc]
           /\ escLock = [e \in Escalations |-> NoRequest]

-----------------------------------------------------------------------------
(* create_escalation *)

CreateRead(q, c, k, e, kind) ==
    /\ esc[e].status = "absent"
    /\ Begin(q, Asked("lockCase", c, k, e, "none", kind))
    /\ UNCHANGED <<cases, runs, disk, caseLock, runLock, escVars>>

Permitted(c, k) == /\ cases[c].run = k
                   /\ cases[c].status = "operator_review"
                   /\ runs[c][k].status = "completed"
                   /\ runs[c][k].review = "none"

CreateLock(q) ==
    LET c == req[q].case
    IN  /\ req[q].at = "lockCase"
        /\ CaseFree(c)
        /\ Permitted(c, req[q].run)
        /\ LockCase(c, q)
        /\ Goto(q, "bill")
        /\ UNCHANGED <<cases, runs, disk, runLock, escVars>>

\* Answered 409: the key is not looked up again under the lock.
CreateRefused(q) ==
    /\ req[q].at = "lockCase"
    /\ CaseFree(req[q].case)
    /\ ~ Permitted(req[q].case, req[q].run)
    /\ Answer(q)
    /\ UNCHANGED <<cases, runs, disk, caseLock, runLock, escVars>>

\* The included reviews of the project are counted under the lock of one case.
Billing(kind) ==
    CASE kind = "safety" -> "not_chargeable"
      [] kind = "minor"  -> "included"
      [] OTHER -> IF Cardinality(IncludedReviews) < IncludedLimit
                  THEN "included" ELSE "pending_approval"

CreateBill(q) ==
    /\ req[q].at = "bill"
    /\ req' = [req EXCEPT ![q] = [@ EXCEPT !.at = "insert",
                                           !.seen = Billing(req[q].arg)]]
    /\ UNCHANGED <<cases, runs, disk, caseLock, runLock, escVars>>

\* The new row references the run: its insert waits for a lock on that row.
CreateInsertUnblocked(q) ==
    LET c == req[q].case
        r == req[q]
    IN  /\ r.at = "insert"
        /\ RunFree(c, r.run)
        /\ esc[r.esc].status = "absent"
        /\ SetEsc(r.esc,
             [status |-> IF r.seen = "pending_approval"
                         THEN "awaiting_commercial_approval" ELSE "open",
              case |-> c, run |-> r.run, kind |-> r.arg,
              billing |-> r.seen, decision |-> "none"])
        /\ LockCase(c, NoRequest)
        /\ Answer(q)
        /\ UNCHANGED <<cases, runs, disk, runLock, escLock>>

CreateInsert(q) ==
    LET c == req[q].case
        r == req[q]
    IN  /\ r.at = "insert"
        /\ RunFree(c, r.run)
        /\ esc[r.esc].status = "absent"
        /\ SetEsc(r.esc,
             [status |-> IF r.seen = "pending_approval"
                         THEN "awaiting_commercial_approval" ELSE "open",
              case |-> c, run |-> r.run, kind |-> r.arg,
              billing |-> r.seen, decision |-> "none"])
        /\ IF r.arg \in Blocking THEN SetStatus(c, "expert_review")
                                 ELSE UNCHANGED cases
        /\ LockCase(c, NoRequest)
        /\ Answer(q)
        /\ UNCHANGED <<runs, disk, runLock, escLock>>

\* The unique key fails in flush, outside the try block around commit.
CreateConflictKeepsLock(q) ==
    /\ req[q].at = "insert"
    /\ RunFree(req[q].case, req[q].run)
    /\ esc[req[q].esc].status # "absent"
    /\ Answer(q)
    /\ UNCHANGED <<cases, runs, disk, caseLock, runLock, escVars>>

CreateConflict(q) ==
    LET r == req[q]
    IN  /\ r.at = "insert"
        /\ RunFree(r.case, r.run)
        /\ esc[r.esc].status # "absent"
        /\ LockCase(r.case, NoRequest)
        /\ Answer(q)
        /\ UNCHANGED <<cases, runs, disk, runLock, escVars>>

-----------------------------------------------------------------------------
(* Operations on the locked escalation row alone. *)

Move(e, from, r) ==
    /\ EscFree(e)
    /\ esc[e].status \in from
    /\ SetEsc(e, r)
    /\ UNCHANGED <<pilotVars, escLock>>

CommercialDecision(e) ==
    Move(e, {"awaiting_commercial_approval"},
         [esc[e] EXCEPT !.status = "open", !.billing = "approved"])

AssignExpert(e) ==
    /\ esc[e].billing # "pending_approval"
    /\ Move(e, {"open", "assigned"}, [esc[e] EXCEPT !.status = "assigned"])

StartExpertReview(e) ==
    Move(e, {"assigned"}, [esc[e] EXCEPT !.status = "in_review"])

AskCustomer(e) ==
    Move(e, {"in_review"}, [esc[e] EXCEPT !.status = "awaiting_customer"])

Resume(e) ==
    Move(e, {"awaiting_customer"}, [esc[e] EXCEPT !.status = "assigned"])

-----------------------------------------------------------------------------
(* record_expert_decision with a final decision.  Other escalations are     *)
(* counted before the case row is locked.                                   *)

DecideLockUnchecked(q, e, decision) ==
    /\ esc[e].status = "in_review"
    /\ esc[e].kind = "minor" => decision \notin {"NEEDS_NEW_RUN", "BLOCK_CASE"}
    /\ Begin(q, Asked(IF decision = "BLOCK_CASE" THEN "block" ELSE "count",
                      esc[e].case, esc[e].run, e, "none", decision))
    /\ escLock' = [escLock EXCEPT ![e] = q]
    /\ UNCHANGED <<cases, runs, disk, caseLock, runLock, esc>>

DecideLock(q, e, decision) ==
    /\ EscFree(e)
    /\ esc[e].status = "in_review"
    /\ esc[e].kind = "minor" => decision \notin {"NEEDS_NEW_RUN", "BLOCK_CASE"}
    /\ Begin(q, Asked(IF decision = "BLOCK_CASE" THEN "block" ELSE "count",
                      esc[e].case, esc[e].run, e, "none", decision))
    /\ escLock' = [escLock EXCEPT ![e] = q]
    /\ UNCHANGED <<cases, runs, disk, caseLock, runLock, esc>>

CloseEsc(q, status) ==
    LET e == req[q].esc
    IN  /\ SetEsc(e, [esc[e] EXCEPT !.status = status, !.decision = req[q].arg])
        /\ escLock' = [escLock EXCEPT ![e] = NoRequest]
        /\ Answer(q)
        /\ UNCHANGED <<runs, disk, caseLock, runLock>>

BlockCase(q) ==
    /\ req[q].at = "block"
    /\ CaseFree(req[q].case)
    /\ SetStatus(req[q].case, "archived")
    /\ CloseEsc(q, "blocked")

DecideCountsItself(q) ==
    /\ req[q].at = "count"
    /\ Goto(q, IF ActiveBlocking(req[q].case) = {} THEN "release" ELSE "resolve")
    /\ UNCHANGED <<cases, runs, disk, caseLock, runLock, escVars>>

DecideCount(q) ==
    /\ req[q].at = "count"
    /\ Goto(q, IF ActiveBlocking(req[q].case) \ {req[q].esc} = {}
               THEN "release" ELSE "resolve")
    /\ UNCHANGED <<cases, runs, disk, caseLock, runLock, escVars>>

Resolve(q) ==
    /\ req[q].at = "resolve"
    /\ CloseEsc(q, "resolved")
    /\ UNCHANGED cases

ReleaseCase(q) ==
    LET c == req[q].case
    IN  /\ req[q].at = "release"
        /\ CaseFree(c)
        /\ IF cases[c].status = "expert_review" THEN SetStatus(c, "operator_review")
                                                ELSE UNCHANGED cases
        /\ CloseEsc(q, "resolved")

-----------------------------------------------------------------------------
ExpertBegin(q, c) ==
    \E k \in Keys, e \in Escalations, kind \in Kind : CreateRead(q, c, k, e, kind)

ExpertDecides(q) ==
    \E e \in Escalations, decision \in FinalDecision : DecideLock(q, e, decision)

ExpertStep(q) ==
    \/ CreateLock(q) \/ CreateRefused(q) \/ CreateBill(q)
    \/ CreateInsert(q) \/ CreateConflict(q)
    \/ BlockCase(q) \/ DecideCount(q) \/ Resolve(q) \/ ReleaseCase(q)

ExpertWork(e) ==
    \/ CommercialDecision(e) \/ AssignExpert(e)
    \/ StartExpertReview(e) \/ AskCustomer(e) \/ Resume(e)

ReleaseEsc(q) ==
    /\ escLock' = [e \in Escalations |-> IF escLock[e] = q THEN NoRequest ELSE escLock[e]]
    /\ UNCHANGED esc
=============================================================================
