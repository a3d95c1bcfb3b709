----------------------------- MODULE PilotCase -----------------------------
(***************************************************************************)
(* The customer pilot case (src/src/modules/customer_pilot/router.py): one *)
(* action per database statement group of a request handler, so that the   *)
(* handlers interleave as they do over PostgreSQL at READ COMMITTED.       *)
(*                                                                         *)
(* A handler loads the case row without a lock, decides on what it loaded, *)
(* and flushes UPDATE ... WHERE id = ... at commit.  `seen' keeps the      *)
(* status the handler loaded.  A run is named by its idempotency key: the  *)
(* pair (case, key) is unique in the table.                                *)
(*                                                                         *)
(* Locks kept: FOR UPDATE on a case (caseLock, taken by the expert review  *)
(* service) and on a run (runLock, taken while a final PDF is published).  *)
(* Every write to the row, and every insert of a row that references it,   *)
(* waits for them.                                                         *)
(***************************************************************************)
EXTENDS Naturals

CONSTANTS Cases,        \* procurement cases of one project
          Keys,         \* idempotency keys of analysis runs
          Escalations,  \* idempotency keys of expert escalations
          Requests,     \* HTTP requests that can be in progress at once
          NoCase, NoKey, NoEscalation, NoRequest

ASSUME PilotAssumption ==
    /\ NoCase \notin Cases
    /\ NoKey \notin Keys
    /\ NoEscalation \notin Escalations
    /\ NoRequest \notin Requests

VARIABLES cases,     \* procurement_cases: status and current_run_id
          runs,      \* tender_analysis_runs with their result, review and PDF
          disk,      \* immutable generations present in the data directory
          caseLock,  \* holder of FOR UPDATE on each case row
          runLock,   \* holder of FOR UPDATE on each run row
          req        \* what each request is doing

pilotVars == <<cases, runs, disk, caseLock, runLock, req>>

-----------------------------------------------------------------------------
(* Rows *)

CaseStatus == {"created", "collecting_documents", "analyzing", "operator_review",
               "expert_review", "client_ready", "delivered", "archived", "failed"}

\* expert_review has no entry: _transition refuses every target from it.
Transitions ==
    [created              |-> {"collecting_documents", "analyzing", "archived"},
     collecting_documents |-> {"analyzing", "archived", "failed"},
     analyzing            |-> {"operator_review", "failed"},
     operator_review      |-> {"client_ready", "analyzing", "archived"},
     client_ready         |-> {"delivered", "archived"},
     delivered            |-> {"archived"},
     failed               |-> {"analyzing", "archived"},
     archived             |-> {}]

CanMove(from, to) == from \in DOMAIN Transitions /\ to \in Transitions[from]

StartableAlways == {"created", "collecting_documents", "failed", "operator_review",
                    "archived"}

Startable == {"created", "collecting_documents", "failed", "operator_review"}

Verdict == {"approved", "rejected"}

Case == [status : CaseStatus, run : Keys \cup {NoKey}]

\* status "completed" stands for the run status and its PilotRunResult row,
\* which one commit writes.
Run == [status : {"absent", "analyzing", "completed"},
        review : Verdict \cup {"none"},
        pdf    : {"none", "bound"}]

NoRun == [status |-> "absent", review |-> "none", pdf |-> "none"]

Generation == Cases \X Keys \X {"snapshot", "pdf"}

-----------------------------------------------------------------------------
(* Requests *)

\* Request at step `at' about case c, run k and escalation e.
Asked(at, c, k, e, seen, arg) ==
    [at |-> at, case |-> c, run |-> k, esc |-> e, seen |-> seen, arg |-> arg]

Idle == Asked("idle", NoCase, NoKey, NoEscalation, "none", "none")

Begin(q, r) == req[q] = Idle /\ req' = [req EXCEPT ![q] = r]
Goto(q, at) == req' = [req EXCEPT ![q] = [@ EXCEPT !.at = at]]
Answer(q)   == req' = [req EXCEPT ![q] = Idle]

CaseFree(c) == caseLock[c] = NoRequest
RunFree(c, k) == runLock[c][k] = NoRequest

SetStatus(c, s) == cases' = [cases EXCEPT ![c] = [@ EXCEPT !.status = s]]
SetRun(c, k, r) == runs' = [runs EXCEPT ![c] = [@ EXCEPT ![k] = r]]
LockRun(c, k, q) == runLock' = [runLock EXCEPT ![c] = [@ EXCEPT ![k] = q]]

PilotInit ==
    /\ cases = [c \in Cases |-> [status |-> "created", run |-> NoKey]]
    /\ runs = [c \in Cases |-> [k \in Keys |-> NoRun]]
    /\ disk = {}
    /\ caseLock = [c \in Cases |-> NoRequest]
    /\ runLock = [c \in Cases |-> [k \in Keys |-> NoRequest]]
    /\ req = [q \in Requests |-> Idle]

-----------------------------------------------------------------------------
(* start_run.  A known key is answered with its run, and so is a key whose *)
(* run appears while the request waits: the conditional UPDATE claims the  *)
(* case, the unique constraint rejects a second row for the key.           *)

StartRead(q, c, k) ==
    /\ runs[c][k].status = "absent"
    /\ Begin(q, Asked("start", c, k, NoEscalation, "none", "none"))
    /\ UNCHANGED <<cases, runs, disk, caseLock, runLock>>

StartClaimForgetsRun(q) ==
    LET c == req[q].case
        k == req[q].run
    IN  /\ req[q].at = "start"
        /\ CaseFree(c)
        /\ IF cases[c].status \in Startable /\ runs[c][k].status = "absent"
             THEN /\ SetStatus(c, "analyzing")
                  /\ SetRun(c, k, [NoRun EXCEPT !.status = "analyzing"])
             ELSE UNCHANGED <<cases, runs>>
        /\ Answer(q)
        /\ UNCHANGED <<disk, caseLock, runLock>>

StartClaimAnyKey(q) ==
    LET c == req[q].case
        k == req[q].run
    IN  /\ req[q].at = "start"
        /\ CaseFree(c)
        /\ IF cases[c].status \in Startable
             THEN /\ cases' = [cases EXCEPT ![c] = [status |-> "analyzing", run |-> k]]
                  /\ SetRun(c, k, [NoRun EXCEPT !.status = "analyzing"])
             ELSE UNCHANGED <<cases, runs>>
        /\ Answer(q)
        /\ UNCHANGED <<disk, caseLock, runLock>>

StartClaim(q) ==
    LET c == req[q].case
        k == req[q].run
    IN  /\ req[q].at = "start"
        /\ CaseFree(c)
        /\ IF cases[c].status \in Startable /\ runs[c][k].status = "absent"
             THEN /\ cases' = [cases EXCEPT ![c] = [status |-> "analyzing", run |-> k]]
                  /\ SetRun(c, k, [NoRun EXCEPT !.status = "analyzing"])
             ELSE UNCHANGED <<cases, runs>>
        /\ Answer(q)
        /\ UNCHANGED <<disk, caseLock, runLock>>

-----------------------------------------------------------------------------
(* complete_run.  The binding is looked up twice; between the two reads     *)
(* another request may have completed the run, and then this one reuses the *)
(* binding and writes the statuses again.  Otherwise the canonical snapshot *)
(* is renamed into place before anything is committed, and a snapshot that  *)
(* is already there is refused.                                             *)

CompleteRead(q, c, k) ==
    /\ cases[c].run = k
    /\ runs[c][k].status = "analyzing"
    /\ Begin(q, Asked("bind", c, k, NoEscalation, cases[c].status, "none"))
    /\ UNCHANGED <<cases, runs, disk, caseLock, runLock>>

CompleteBind(q) ==
    /\ req[q].at = "bind"
    /\ Goto(q, IF runs[req[q].case][req[q].run].status = "completed"
               THEN "complete" ELSE "produce")
    /\ UNCHANGED <<cases, runs, disk, caseLock, runLock>>

CompletePublishIdempotent(q) ==
    /\ req[q].at = "produce"
    /\ Goto(q, "complete")
    /\ disk' = disk \cup {<<req[q].case, req[q].run, "snapshot">>}
    /\ UNCHANGED <<cases, runs, caseLock, runLock>>

CompletePublish(q) ==
    LET g == <<req[q].case, req[q].run, "snapshot">>
    IN  /\ req[q].at = "produce"
        /\ IF g \in disk THEN Answer(q) ELSE Goto(q, "complete")
        /\ disk' = disk \cup {g}
        /\ UNCHANGED <<cases, runs, caseLock, runLock>>

\* Assigning the status that was loaded emits no UPDATE of the column.
CompleteCommit(q) ==
    LET c == req[q].case
        k == req[q].run
    IN  /\ req[q].at = "complete"
        /\ CaseFree(c) /\ RunFree(c, k)
        /\ SetRun(c, k, [runs[c][k] EXCEPT !.status = "completed"])
        /\ IF req[q].seen = "operator_review" THEN UNCHANGED cases
                                              ELSE SetStatus(c, "operator_review")
        /\ Answer(q)
        /\ UNCHANGED <<disk, caseLock, runLock>>

-----------------------------------------------------------------------------
(* publish_pdf.  The run row is locked after rendering; the generation is   *)
(* on disk before its PilotArtifact row is inserted.                        *)

PdfRead(q, c, k) ==
    /\ cases[c].run = k
    /\ cases[c].status \in {"operator_review", "client_ready", "delivered"}
    /\ runs[c][k].status = "completed" /\ runs[c][k].pdf = "none"
    /\ Begin(q, Asked("render", c, k, NoEscalation, "none", "none"))
    /\ UNCHANGED <<cases, runs, disk, caseLock, runLock>>

PdfPublishIdempotent(q) ==
    LET c == req[q].case
        k == req[q].run
    IN  /\ req[q].at = "render"
        /\ RunFree(c, k)
        /\ IF runs[c][k].pdf = "bound"
             THEN Answer(q) /\ UNCHANGED <<disk, runLock>>
             ELSE /\ disk' = disk \cup {<<c, k, "pdf">>}
                  /\ LockRun(c, k, q)
                  /\ Goto(q, "artifact")
        /\ UNCHANGED <<cases, runs, caseLock>>

PdfPublish(q) ==
    LET c == req[q].case
        k == req[q].run
        g == <<c, k, "pdf">>
    IN  /\ req[q].at = "render"
        /\ RunFree(c, k)
        /\ IF runs[c][k].pdf = "bound" \/ g \in disk
             THEN Answer(q) /\ UNCHANGED <<disk, runLock>>
             ELSE /\ disk' = disk \cup {g}
                  /\ LockRun(c, k, q)
                  /\ Goto(q, "artifact")
        /\ UNCHANGED <<cases, runs, caseLock>>

PdfCommit(q) ==
    LET c == req[q].case
        k == req[q].run
    IN  /\ req[q].at = "artifact"
        /\ CaseFree(c)
        /\ SetRun(c, k, [runs[c][k] EXCEPT !.pdf = "bound"])
        /\ LockRun(c, k, NoRequest)
        /\ Answer(q)
        /\ UNCHANGED <<cases, disk, caseLock>>

-----------------------------------------------------------------------------
(* review_run: needs_reanalysis and rejected are one verdict here, and so  *)
(* are the two approvals.                                                  *)

ReviewReadWithoutPdf(q, c, k, verdict) ==
    /\ cases[c].run = k
    /\ cases[c].status = "operator_review"
    /\ runs[c][k].review = "none"
    /\ Begin(q, Asked("review", c, k, NoEscalation, "none", verdict))
    /\ UNCHANGED <<cases, runs, disk, caseLock, runLock>>

ReviewRead(q, c, k, verdict) ==
    /\ cases[c].run = k
    /\ cases[c].status = "operator_review"
    /\ runs[c][k].review = "none"
    /\ verdict = "approved" => runs[c][k].pdf = "bound"
    /\ Begin(q, Asked("review", c, k, NoEscalation, "none", verdict))
    /\ UNCHANGED <<cases, runs, disk, caseLock, runLock>>

\* pilot_reviews.run_id is unique: a second review is rolled back.
ReviewCommit(q) ==
    LET c == req[q].case
        k == req[q].run
    IN  /\ req[q].at = "review"
        /\ CaseFree(c) /\ RunFree(c, k)
        /\ IF runs[c][k].review = "none"
             THEN SetRun(c, k, [runs[c][k] EXCEPT !.review = req[q].arg])
             ELSE UNCHANGED runs
        /\ Answer(q)
        /\ UNCHANGED <<cases, disk, caseLock, runLock>>

-----------------------------------------------------------------------------
(* mark_client_ready, delivered and archive_case: load the case, require   *)
(* the approved review of the run that was current (not for archiving),    *)
(* then write the new status over whatever the row holds by then.          *)

AdvanceReadUnchecked(q, c, target) ==
    Begin(q, Asked(IF target = "archived" THEN "write" ELSE "check",
                   c, cases[c].run, NoEscalation, cases[c].status, target))
    /\ cases[c].run # NoKey
    /\ UNCHANGED <<cases, runs, disk, caseLock, runLock>>

AdvanceRead(q, c, target) ==
    /\ CanMove(cases[c].status, target)
    /\ Begin(q, Asked(IF target = "archived" THEN "write" ELSE "check",
                      c, cases[c].run, NoEscalation, cases[c].status, target))
    /\ UNCHANGED <<cases, runs, disk, caseLock, runLock>>

AdvanceCheckAnyRun(q) ==
    /\ req[q].at = "check"
    /\ IF \E k \in Keys : runs[req[q].case][k].review = "approved"
         THEN Goto(q, "write") ELSE Answer(q)
    /\ UNCHANGED <<cases, runs, disk, caseLock, runLock>>

AdvanceCheck(q) ==
    LET c == req[q].case
        k == req[q].run
    IN  /\ req[q].at = "check"
        /\ IF runs[c][k].review = "approved" THEN Goto(q, "write") ELSE Answer(q)
        /\ UNCHANGED <<cases, runs, disk, caseLock, runLock>>

AdvanceWrite(q) ==
    /\ req[q].at = "write"
    /\ CaseFree(req[q].case)
    /\ SetStatus(req[q].case, req[q].arg)
    /\ Answer(q)
    /\ UNCHANGED <<runs, disk, caseLock, runLock>>

-----------------------------------------------------------------------------
(* A new request of the router, and the next statements of one that runs. *)

RouterBegin(q, c) ==
    \/ \E k \in Keys : StartRead(q, c, k) \/ CompleteRead(q, c, k) \/ PdfRead(q, c, k)
    \/ \E k \in Keys, verdict \in Verdict : ReviewRead(q, c, k, verdict)
    \/ \E target \in {"client_ready", "delivered", "archived"} : AdvanceRead(q, c, target)

RouterStep(q) ==
    \/ StartClaim(q)
    \/ CompleteBind(q) \/ CompletePublish(q) \/ CompleteCommit(q)
    \/ PdfPublish(q) \/ PdfCommit(q)
    \/ ReviewCommit(q)
    \/ AdvanceCheck(q) \/ AdvanceWrite(q)

\* A request that dies or is rolled back: its locks go, its files stay.
Rollback(q) ==
    /\ caseLock' = [c \in Cases |-> IF caseLock[c] = q THEN NoRequest ELSE caseLock[c]]
    /\ runLock' = [c \in Cases |-> [k \in Keys |->
                     IF runLock[c][k] = q THEN NoRequest ELSE runLock[c][k]]]
    /\ Answer(q)
    /\ UNCHANGED <<cases, runs, disk>>
=============================================================================
