---------------------------- MODULE PilotWorkflow ----------------------------
(***************************************************************************)
(* The customer pilot: router handlers and expert review over the same     *)
(* case rows, with requests that interleave, die or are rolled back.       *)
(***************************************************************************)
EXTENDS ExpertReview

CONSTANT MaxFaults   \* how many requests die during a behaviour

ASSUME FaultAssumption == MaxFaults \in Nat

VARIABLE faults   \* requests that have died

vars == <<cases, runs, disk, caseLock, runLock, req, esc, escLock, faults>>

-----------------------------------------------------------------------------
(* The system *)

Init == PilotInit /\ EscInit /\ faults = 0

Ask(q) ==
    \/ \E c \in Cases : RouterBegin(q, c) /\ UNCHANGED <<escVars, faults>>
    \/ \E c \in Cases : ExpertBegin(q, c) /\ UNCHANGED faults
    \/ ExpertDecides(q) /\ UNCHANGED faults

Handle(q) ==
    \/ RouterStep(q) /\ UNCHANGED <<escVars, faults>>
    \/ ExpertStep(q) /\ UNCHANGED faults

Crash(q) == /\ req[q] # Idle
            /\ faults < MaxFaults
            /\ faults' = faults + 1
            /\ Rollback(q)
            /\ ReleaseEsc(q)

\* p has the run row and inserts a row that references the case, q has the
\* case row and inserts a row that references the run.
Deadlocked(p, q) ==
    /\ req[p].at = "artifact" /\ req[q].at = "insert"
    /\ req[p].case = req[q].case /\ req[p].run = req[q].run

\* PostgreSQL aborts one of the two transactions.
DeadlockVictim(q) ==
    /\ \E p \in Requests : Deadlocked(p, q) \/ Deadlocked(q, p)
    /\ Rollback(q)
    /\ ReleaseEsc(q)
    /\ UNCHANGED faults

Next == \/ \E q \in Requests : Ask(q) \/ Handle(q) \/ Crash(q) \/ DeadlockVictim(q)
        \/ \E e \in Escalations : ExpertWork(e) /\ UNCHANGED faults

Spec == Init /\ [][Next]_vars

\* A handler that has begun keeps running, a lock wait is served in turn and
\* the deadlock detector runs.
Fairness == \A q \in Requests : SF_vars(Handle(q)) /\ WF_vars(DeadlockVictim(q))

FairSpec == Spec /\ Fairness

-----------------------------------------------------------------------------
(* Properties *)

Steps == {"idle", "start", "bind", "produce", "complete", "render", "artifact",
          "review", "check", "write", "lockCase", "bill", "insert",
          "block", "count", "resolve", "release"}

Request ==
    [at : Steps, case : Cases \cup {NoCase}, run : Keys \cup {NoKey},
     esc : Escalations \cup {NoEscalation},
     seen : CaseStatus \cup {"none", "included", "not_chargeable", "pending_approval"},
     arg : {"none", "client_ready", "delivered", "archived"} \cup Verdict \cup Kind
             \cup FinalDecision]

\* Every column and every request keeps its type; a case without a current run
\* (router.py 429) was never started.
TypeOK ==
    /\ cases \in [Cases -> Case]
    /\ \A c \in Cases : cases[c].run = NoKey => cases[c].status \in {"created", "archived"}
    /\ runs \in [Cases -> [Keys -> Run]]
    /\ disk \subseteq Generation
    /\ caseLock \in [Cases -> Requests \cup {NoRequest}]
    /\ runLock \in [Cases -> [Keys -> Requests \cup {NoRequest}]]
    /\ req \in [Requests -> Request]
    /\ esc \in [Escalations -> Escalation]
    /\ escLock \in [Escalations -> Requests \cup {NoRequest}]
    /\ faults \in 0..MaxFaults

\* A generation that is renamed into place but not committed yet belongs to one
\* request: its lock or its rename keeps every other publisher out
\* (artifact_publisher.py 143, 253, 313).
Publishing(q, kind) ==
    \/ kind = "snapshot" /\ req[q].at = "complete"
                         /\ runs[req[q].case][req[q].run].status # "completed"
    \/ kind = "pdf" /\ req[q].at = "artifact"

OnePublisher ==
    \A p, q \in Requests, kind \in {"snapshot", "pdf"} :
        (p # q /\ Publishing(p, kind) /\ Publishing(q, kind))
            => <<req[p].case, req[p].run>> # <<req[q].case, req[q].run>>

\* Whatever the database binds is on disk, and an approval binds the PDF of a
\* completed run: the chain review -> PDF -> snapshot that delivery relies on
\* (router.py 694-714) has no gap after any crash.
TrustChain ==
    \A c \in Cases, k \in Keys :
        /\ runs[c][k].status = "completed" => <<c, k, "snapshot">> \in disk
        /\ runs[c][k].pdf = "bound" => /\ runs[c][k].status = "completed"
                                       /\ <<c, k, "pdf">> \in disk
        /\ runs[c][k].review = "approved" => runs[c][k].pdf = "bound"

\* A generation without a row that no request is publishing stays without one:
\* retries never adopt an orphan (artifact_publisher.py 143, 313).
Orphan(c, k, kind) ==
    /\ <<c, k, kind>> \in disk
    /\ \A q \in Requests : ~ (Publishing(q, kind) /\ req[q].case = c /\ req[q].run = k)
    /\ IF kind = "pdf" THEN runs[c][k].pdf = "none"
                       ELSE runs[c][k].status # "completed"

OrphansNeverAdopted ==
    [][\A c \in Cases, k \in Keys, kind \in {"snapshot", "pdf"} :
         Orphan(c, k, kind) => Orphan(c, k, kind)']_vars

\* A completed run, its verdict and its PDF are history: no later request, retry
\* or reuse of the key changes them (router.py 690 "Review is immutable").
RunHistoryKept ==
    [][\A c \in Cases, k \in Keys :
         /\ runs[c][k].status = "completed" => runs[c][k].status' = "completed"
         /\ runs[c][k].review # "none" => runs[c][k].review' = runs[c][k].review
         /\ runs[c][k].pdf = "bound" => runs[c][k].pdf' = "bound"]_vars

\* A final decision is immutable (expert_review_service.py 700-706): two experts
\* deciding at once cannot replace each other's decision.
FinalDecisionKept ==
    [][\A e \in Escalations : esc[e].status \in Final => esc'[e] = esc[e]]_vars

\* Every request is answered: no wait for a row lock lasts for ever.
RequestsAnswered == \A q \in Requests : (req[q] # Idle) ~> (req[q] = Idle)

\* complete_run (router.py 487) up to its commit; mark_client_ready, delivered
\* and archive_case (router.py 752, 794, 838) between the load of the case and
\* the write of its status.
Completing == {"bind", "produce", "complete"}
Advancing == {"check", "write"}

\* q is about to commit a severe escalation of its case.
Holding(q) == req[q].at = "insert" /\ req[q].arg \in Blocking

\* q is about to commit what p, about the same case, has read without a lock: a
\* second completion; a new run, another transition or a severe escalation
\* before the status is written; a severe escalation or the archiving of the
\* case before the verdict is stored; and a severe escalation before the
\* decision that found no other one releases the case.
Conflict(p, q) ==
  \/ req[p].at \in Completing /\ req[q].at = "complete"
  \/ req[p].at \in Advancing /\ (req[q].at \in {"start", "write"} \/ Holding(q))
  \/ req[p].at = "review" /\ (Holding(q) \/ (req[q].at = "write" /\ req[q].arg = "archived"))
  \/ req[p].at = "release" /\ Holding(q)

NoConflicts ==
  \A p, q \in Requests : p # q /\ Conflict(p, q) => req[p].case # req[q].case

\* The requests overlap in every other way.
SerialSpec == Init /\ [][Next /\ NoConflicts']_vars

\* Without conflicts the handlers implement the case lifecycle.
CurrentApproved(c) ==
    cases[c].run # NoKey /\ runs[c][cases[c].run].review = "approved"

Lifecycle == INSTANCE CaseLifecycle WITH
    status <- [c \in Cases |-> cases[c].status],
    approved <- [c \in Cases |-> CurrentApproved(c)],
    held <- [c \in Cases |-> ActiveBlocking(c) # {}]

ImplementsLifecycle == Lifecycle!Spec

HandedOver == {"client_ready", "delivered"}

\* A severe escalation blocks client_ready and delivery of its case.
SevereBlocksHandover ==
    \A c \in Cases : cases[c].status \in HandedOver => ActiveBlocking(c) = {}

\* A case is handed over on the approved review of its current run only.
HandoverReviewed ==
    \A c \in Cases : cases[c].status \in HandedOver => CurrentApproved(c)

\* A case in expert review has an escalation whose decision releases it.
ExpertReviewReleasable ==
    \A c \in Cases : cases[c].status = "expert_review" => ActiveBlocking(c) # {}

\* A decision releases its case only when no other severe escalation is open.
ReleasedOnlyIfUnblocked ==
    [][\A q \in Requests :
         (ReleaseCase(q) /\ cases[req[q].case].status = "expert_review")
           => ActiveBlocking(req[q].case) \subseteq {req[q].esc}]_vars

\* No transition leads out of archived.
ArchivedIsFinal ==
    [][\A c \in Cases : cases[c].status = "archived" => cases'[c].status = "archived"]_vars

\* The pilot includes IncludedLimit severe reviews of a project.
IncludedWithinLimit == Cardinality(IncludedReviews) =< IncludedLimit
=============================================================================
