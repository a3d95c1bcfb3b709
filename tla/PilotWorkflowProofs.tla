------------------------ MODULE PilotWorkflowProofs ------------------------
(***************************************************************************)
(* Theorems about PilotWorkflow, for every set of cases, keys, escalations *)
(* and concurrent requests and every number of requests that die.          *)
(***************************************************************************)
EXTENDS PilotWorkflow, TLAPS

RunSteps == {"start", "bind", "produce", "complete", "render", "artifact", "review",
             "lockCase", "bill", "insert"}
Deciding == {"block", "count", "resolve", "release"}

(* What a request relies on between two of its statements: the rows it     *)
(* names exist, what it has read about the history of a run still holds,   *)
(* its files are on disk and the locks it needs are its own.               *)
NamesRows(q) ==
  /\ req[q].at \in RunSteps => req[q].case \in Cases /\ req[q].run \in Keys
  /\ req[q].at \in {"check", "write"} =>
       req[q].case \in Cases /\ req[q].arg \in {"client_ready", "delivered", "archived"}
  /\ req[q].at = "review" => req[q].arg \in Verdict
  /\ req[q].at \in {"lockCase", "bill", "insert"} =>
       req[q].esc \in Escalations /\ req[q].arg \in Kind
  /\ req[q].at = "insert" =>
       req[q].seen \in {"included", "not_chargeable", "pending_approval"}
  /\ req[q].at \in Deciding =>
       req[q].case \in Cases /\ req[q].esc \in Escalations /\ req[q].arg \in FinalDecision

CaseStarted(q) ==
  (\/ req[q].at \in {"bind", "produce", "complete", "bill", "insert"}
   \/ req[q].at \in {"check", "write"} /\ req[q].arg # "archived")
    => cases[req[q].case].run # NoKey

RunKnown(q) ==
  /\ req[q].at \in {"bind", "produce", "complete", "review"} =>
       runs[req[q].case][req[q].run].status # "absent"
  /\ req[q].at \in {"render", "artifact"} =>
       runs[req[q].case][req[q].run].status = "completed"
  /\ req[q].at = "review" /\ req[q].arg = "approved" =>
       runs[req[q].case][req[q].run].pdf = "bound"

FilesWritten(q) ==
  /\ req[q].at = "complete" => <<req[q].case, req[q].run, "snapshot">> \in disk
  /\ req[q].at = "artifact" => <<req[q].case, req[q].run, "pdf">> \in disk

OwnsLocks(q) ==
  /\ req[q].at = "artifact" => runLock[req[q].case][req[q].run] = q
  /\ req[q].at \in Deciding =>
       escLock[req[q].esc] = q /\ esc[req[q].esc].status = "in_review"

RequestOK(q) ==
  NamesRows(q) /\ CaseStarted(q) /\ RunKnown(q) /\ FilesWritten(q) /\ OwnsLocks(q)

(* The rows: a current run exists, a run that does not exist has nothing,  *)
(* a stored escalation belongs to a case and a run.                        *)
RowsOK ==
  /\ \A c \in Cases : cases[c].run # NoKey => runs[c][cases[c].run].status # "absent"
  /\ \A c \in Cases, k \in Keys : runs[c][k].status = "absent" => runs[c][k] = NoRun
  /\ \A e \in Escalations : esc[e].status # "absent" => esc[e].case \in Cases

IInv == TypeOK /\ RowsOK /\ TrustChain /\ \A q \in Requests : RequestOK(q)

(* What a step of request q never undoes; the other requests rely on it.   *)
History(q) ==
  /\ \A c \in Cases : cases[c].run # NoKey => cases'[c].run # NoKey
  /\ \A c \in Cases, k \in Keys :
       /\ runs[c][k].status # "absent" => runs'[c][k].status # "absent"
       /\ runs[c][k].status = "completed" => runs'[c][k].status = "completed"
       /\ runs[c][k].review # "none" => runs'[c][k].review = runs[c][k].review
       /\ runs[c][k].pdf = "bound" => runs'[c][k].pdf = "bound"
       /\ runLock[c][k] \in Requests \ {q} => runLock'[c][k] = runLock[c][k]
  /\ disk \subseteq disk'
  /\ \A e \in Escalations :
       escLock[e] \in Requests \ {q} /\ esc[e].status = "in_review" =>
         escLock'[e] = escLock[e] /\ esc'[e].status = "in_review"
  /\ \A p \in Requests \ {q} : req'[p] = req[p]

-----------------------------------------------------------------------------
(* The writes of one row. *)
LEMMA StatusSet ==
  ASSUME TypeOK, NEW c \in Cases, NEW s \in CaseStatus, SetStatus(c, s)
  PROVE  /\ cases' \in [Cases -> Case]
         /\ \A d \in Cases : /\ cases'[d].run = cases[d].run
                            /\ cases'[d].status = IF d = c THEN s ELSE cases[d].status
  BY DEF TypeOK, SetStatus, Case

LEMMA StartedStatusSet ==
  ASSUME TypeOK, NEW c \in Cases, NEW s \in CaseStatus, SetStatus(c, s),
         s = "archived" \/ cases[c].run # NoKey
  PROVE  /\ cases' \in [Cases -> Case]
         /\ \A d \in Cases : cases'[d].run = NoKey => cases'[d].status \in {"created", "archived"}
  <1>1. \A d \in Cases : cases[d].run = NoKey => cases[d].status \in {"created", "archived"}
    BY DEF TypeOK
  <1>2. \A d \in Cases : /\ cases'[d].run = cases[d].run
                        /\ cases'[d].status = IF d = c THEN s ELSE cases[d].status
    BY StatusSet
  <1>3. cases' \in [Cases -> Case]
    BY StatusSet
  <1> QED BY <1>1, <1>2, <1>3

LEMMA CaseClaimed ==
  ASSUME TypeOK, NEW c \in Cases, NEW k \in Keys,
         cases' = [cases EXCEPT ![c] = [status |-> "analyzing", run |-> k]]
  PROVE  /\ cases' \in [Cases -> Case]
         /\ cases'[c].status = "analyzing" /\ cases'[c].run = k
         /\ \A d \in Cases \ {c} : cases'[d] = cases[d]
  BY DEF TypeOK, Case, CaseStatus

OnlyRun(c, k) ==
  /\ runs' \in [Cases -> [Keys -> Run]]
  /\ \A d \in Cases, l \in Keys : d # c \/ l # k => runs'[d][l] = runs[d][l]

LEMMA RunStarted ==
  ASSUME TypeOK, NEW c \in Cases, NEW k \in Keys,
         SetRun(c, k, [NoRun EXCEPT !.status = "analyzing"])
  PROVE  /\ OnlyRun(c, k)
         /\ runs'[c][k].status = "analyzing"
         /\ runs'[c][k].review = "none"
         /\ runs'[c][k].pdf = "none"
  BY DEF TypeOK, SetRun, OnlyRun, NoRun, Run

LEMMA RunCompleted ==
  ASSUME TypeOK, NEW c \in Cases, NEW k \in Keys,
         SetRun(c, k, [runs[c][k] EXCEPT !.status = "completed"])
  PROVE  /\ OnlyRun(c, k)
         /\ runs'[c][k].status = "completed"
         /\ runs'[c][k].review = runs[c][k].review
         /\ runs'[c][k].pdf = runs[c][k].pdf
  <1>1. runs[c] \in [Keys -> Run] /\ runs[c][k] \in Run
    BY DEF TypeOK
  <1> QED BY <1>1 DEF TypeOK, SetRun, OnlyRun, Run

LEMMA RunReviewed ==
  ASSUME TypeOK, NEW c \in Cases, NEW k \in Keys, NEW v \in Verdict,
         SetRun(c, k, [runs[c][k] EXCEPT !.review = v])
  PROVE  /\ OnlyRun(c, k)
         /\ runs'[c][k].review = v
         /\ runs'[c][k].status = runs[c][k].status
         /\ runs'[c][k].pdf = runs[c][k].pdf
  <1>1. runs[c] \in [Keys -> Run] /\ runs[c][k] \in Run
    BY DEF TypeOK
  <1> QED BY <1>1 DEF TypeOK, SetRun, OnlyRun, Run

LEMMA RunBound ==
  ASSUME TypeOK, NEW c \in Cases, NEW k \in Keys,
         SetRun(c, k, [runs[c][k] EXCEPT !.pdf = "bound"])
  PROVE  /\ OnlyRun(c, k)
         /\ runs'[c][k].pdf = "bound"
         /\ runs'[c][k].status = runs[c][k].status
         /\ runs'[c][k].review = runs[c][k].review
  <1>1. runs[c] \in [Keys -> Run] /\ runs[c][k] \in Run
    BY DEF TypeOK
  <1> QED BY <1>1 DEF TypeOK, SetRun, OnlyRun, Run

(* Only one run is written, and what it records stays recorded.            *)
RunsKept ==
  \A d \in Cases, l \in Keys :
    /\ runs[d][l].status # "absent" => runs'[d][l].status # "absent"
    /\ runs[d][l].status = "completed" => runs'[d][l].status = "completed"
    /\ runs[d][l].review # "none" => runs'[d][l].review = runs[d][l].review
    /\ runs[d][l].pdf = "bound" => runs'[d][l].pdf = "bound"

LEMMA OneRunKept ==
  ASSUME NEW c \in Cases, NEW k \in Keys, OnlyRun(c, k),
         \/ runs'[c][k].status = runs[c][k].status
         \/ runs[c][k].status = "absent"
         \/ runs'[c][k].status = "completed",
         runs'[c][k].review = runs[c][k].review \/ runs[c][k].review = "none",
         runs'[c][k].pdf = runs[c][k].pdf \/ runs[c][k].pdf = "none" \/ runs'[c][k].pdf = "bound"
  PROVE  RunsKept
  <1> SUFFICES ASSUME NEW d \in Cases, NEW l \in Keys
               PROVE  /\ runs[d][l].status # "absent" => runs'[d][l].status # "absent"
                      /\ runs[d][l].status = "completed" => runs'[d][l].status = "completed"
                      /\ runs[d][l].review # "none" => runs'[d][l].review = runs[d][l].review
                      /\ runs[d][l].pdf = "bound" => runs'[d][l].pdf = "bound"
    BY DEF RunsKept
  <1>1. CASE d = c /\ l = k
    BY <1>1
  <1>2. CASE d # c \/ l # k
    BY <1>2 DEF OnlyRun
  <1> QED BY <1>1, <1>2

LEMMA RunLockSet ==
  ASSUME TypeOK, NEW c \in Cases, NEW k \in Keys,
         NEW h \in Requests \cup {NoRequest}, LockRun(c, k, h)
  PROVE  /\ runLock' \in [Cases -> [Keys -> Requests \cup {NoRequest}]]
         /\ \A d \in Cases, l \in Keys :
              runLock'[d][l] = IF d = c /\ l = k THEN h ELSE runLock[d][l]
  BY DEF TypeOK, LockRun

-----------------------------------------------------------------------------
LEMMA OthersKeep ==
  ASSUME IInv, NEW q, History(q), NEW p \in Requests \ {q}
  PROVE  RequestOK(p)'
  <1> USE DEF IInv, RequestOK
  <1>1. req'[p] = req[p]
    BY DEF History
  <1>2. NamesRows(p)'
    BY <1>1 DEF NamesRows
  <1>3. CaseStarted(p)'
    BY <1>1 DEF NamesRows, CaseStarted, History, RunSteps
  <1>4. RunKnown(p)'
    <2>1. CASE req[p].at \in {"bind", "produce", "complete", "review", "render", "artifact"}
      <3>1. PICK c \in Cases, k \in Keys : c = req[p].case /\ k = req[p].run
        BY <2>1 DEF NamesRows, RunSteps
      <3>2. /\ runs[c][k].status # "absent" => runs'[c][k].status # "absent"
            /\ runs[c][k].status = "completed" => runs'[c][k].status = "completed"
            /\ runs[c][k].pdf = "bound" => runs'[c][k].pdf = "bound"
        BY DEF History
      <3>3. RunKnown(p)
        OBVIOUS
      <3> QED BY <1>1, <3>1, <3>2, <3>3 DEF RunKnown
    <2>2. CASE req[p].at \notin {"bind", "produce", "complete", "review", "render", "artifact"}
      BY <1>1, <2>2 DEF RunKnown
    <2> QED BY <2>1, <2>2
  <1>5. FilesWritten(p)'
    BY <1>1 DEF FilesWritten, History
  <1>6. OwnsLocks(p)'
    <2>1. ASSUME req[p].at = "artifact"
          PROVE  runLock'[req[p].case][req[p].run] = p
      BY <2>1 DEF NamesRows, OwnsLocks, History, RunSteps
    <2>2. ASSUME req[p].at \in Deciding
          PROVE  escLock'[req[p].esc] = p /\ esc'[req[p].esc].status = "in_review"
      BY <2>2 DEF NamesRows, OwnsLocks, History
    <2> QED BY <1>1, <2>1, <2>2 DEF OwnsLocks
  <1> QED BY <1>2, <1>3, <1>4, <1>5, <1>6

LEMMA InitIInv == Init => IInv
  <1> SUFFICES ASSUME Init PROVE IInv
    OBVIOUS
  <1> USE DEF Init, PilotInit, EscInit
  <1>1. TypeOK
    BY PilotAssumption, FaultAssumption
    DEF TypeOK, Idle, Asked, NoRun, NoEsc, Case, Run, Escalation, Request, Steps,
        CaseStatus, Verdict, Kind, Active, Final, FinalDecision, Generation
  <1>2. RowsOK
    BY DEF RowsOK, NoRun, NoEsc
  <1>3. TrustChain
    BY DEF TrustChain, NoRun
  <1>4. ASSUME NEW q \in Requests PROVE RequestOK(q)
    BY DEF RequestOK, NamesRows, CaseStarted, RunKnown, FilesWritten, OwnsLocks,
           RunSteps, Deciding, Idle, Asked
  <1> QED BY <1>1, <1>2, <1>3, <1>4 DEF IInv

-----------------------------------------------------------------------------
(* A new request and a request that only reads change nothing but its row  *)
(* in req (and an escalation lock, which it takes when it is free).        *)
LEMMA OnlyReq ==
  ASSUME IInv, NEW q \in Requests, NEW r, req' = [req EXCEPT ![q] = r],
         cases' = cases, runs' = runs, disk' = disk, runLock' = runLock,
         esc' = esc,
         \A e \in Escalations : escLock[e] \in Requests \ {q} => escLock'[e] = escLock[e]
  PROVE  History(q)
  BY DEF History, IInv, TypeOK

LEMMA AskHistory ==
  ASSUME IInv, NEW q \in Requests, Ask(q)
  PROVE  History(q)
  <1>1. ASSUME NEW c \in Cases, RouterBegin(q, c), UNCHANGED <<escVars, faults>>
        PROVE  History(q)
    BY <1>1, OnlyReq DEF RouterBegin, StartRead, CompleteRead, PdfRead, ReviewRead,
       AdvanceRead, Begin, escVars
  <1>2. ASSUME NEW c \in Cases, ExpertBegin(q, c)
        PROVE  History(q)
    BY <1>2, OnlyReq DEF ExpertBegin, CreateRead, Begin, escVars
  <1>3. ASSUME ExpertDecides(q)
        PROVE  History(q)
    <2>1. PICK e \in Escalations, decision \in FinalDecision : DecideLock(q, e, decision)
      BY <1>3 DEF ExpertDecides
    <2>2. \A f \in Escalations : escLock[f] \in Requests \ {q} => escLock'[f] = escLock[f]
      BY <2>1, PilotAssumption DEF DecideLock, EscFree, IInv, TypeOK
    <2> QED BY <2>1, <2>2, OnlyReq DEF DecideLock, Begin
  <1> QED BY <1>1, <1>2, <1>3 DEF Ask

LEMMA RouterHistory ==
  ASSUME IInv, NEW q \in Requests, RouterStep(q), UNCHANGED <<escVars, faults>>
  PROVE  History(q)
  <1> DEFINE c == req[q].case
             k == req[q].run
  <1> USE DEF Goto, Answer, escVars
  <1>0. RequestOK(q) /\ TypeOK /\ RowsOK
    BY DEF IInv
  <1>a. \A p \in Requests \ {q} : req'[p] = req[p]
    BY <1>0 DEF RouterStep, StartClaim, CompleteBind, CompletePublish, CompleteCommit,
       PdfPublish, PdfCommit, ReviewCommit, AdvanceCheck, AdvanceWrite, TypeOK
  <1>1. CASE StartClaim(q)
    <2>1. c \in Cases /\ k \in Keys
      BY <1>0, <1>1 DEF RequestOK, NamesRows, RunSteps, StartClaim
    <2>2. CASE cases[c].status \in Startable /\ runs[c][k].status = "absent"
      <3>1. runs[c][k] = NoRun /\ NoRun.review = "none" /\ NoRun.pdf = "none"
        BY <1>0, <2>1, <2>2 DEF RowsOK, NoRun
      <3>2. SetRun(c, k, [NoRun EXCEPT !.status = "analyzing"])
        BY <1>1, <2>2 DEF StartClaim
      <3>3. \A d \in Cases : cases[d].run # NoKey => cases'[d].run # NoKey
        BY <1>0, <1>1, <2>1, <2>2, CaseClaimed, PilotAssumption DEF StartClaim
      <3>4. OnlyRun(c, k)
        BY <1>0, <2>1, <3>2, RunStarted
      <3>5. RunsKept
        BY <2>1, <2>2, <3>1, <3>4, OneRunKept
      <3> QED BY <1>1, <1>a, <3>3, <3>5 DEF StartClaim, History, RunsKept
    <2>3. CASE ~ (cases[c].status \in Startable /\ runs[c][k].status = "absent")
      BY <1>1, <1>a, <2>3 DEF StartClaim, History
    <2> QED BY <2>2, <2>3
  <1>2. CASE CompleteBind(q)
    BY <1>2, OnlyReq DEF CompleteBind
  <1>3. CASE CompletePublish(q)
    BY <1>3, <1>a DEF CompletePublish, History
  <1>4. CASE CompleteCommit(q)
    <2>1. c \in Cases /\ k \in Keys
      BY <1>0, <1>4 DEF RequestOK, NamesRows, RunSteps, CompleteCommit
    <2>2. \A d \in Cases : cases'[d].run = cases[d].run
      BY <1>0, <1>4, <2>1, StatusSet DEF CompleteCommit, CaseStatus
    <2>3. SetRun(c, k, [runs[c][k] EXCEPT !.status = "completed"])
      BY <1>4 DEF CompleteCommit
    <2>4. /\ OnlyRun(c, k) /\ runs'[c][k].status = "completed"
          /\ runs'[c][k].review = runs[c][k].review /\ runs'[c][k].pdf = runs[c][k].pdf
      BY <1>0, <2>1, <2>3, RunCompleted
    <2>5. RunsKept
      BY <2>1, <2>4, OneRunKept
    <2> QED BY <1>4, <1>a, <2>2, <2>5 DEF CompleteCommit, History, RunsKept
  <1>5. CASE PdfPublish(q)
    <2>1. c \in Cases /\ k \in Keys
      BY <1>0, <1>5 DEF RequestOK, NamesRows, RunSteps, PdfPublish
    <2>2. runLock[c][k] = NoRequest /\ NoRequest \notin Requests
      BY <1>5, PilotAssumption DEF PdfPublish, RunFree
    <2>3. \A d \in Cases, l \in Keys :
            runLock[d][l] \in Requests \ {q} => runLock'[d][l] = runLock[d][l]
      <3>1. CASE LockRun(c, k, q)
        BY <1>0, <2>1, <2>2, <3>1, RunLockSet
      <3> QED BY <1>5, <3>1 DEF PdfPublish
    <2> QED BY <1>5, <1>a, <2>3 DEF PdfPublish, History
  <1>6. CASE PdfCommit(q)
    <2>1. c \in Cases /\ k \in Keys /\ runLock[c][k] = q
      BY <1>0, <1>6 DEF RequestOK, NamesRows, OwnsLocks, RunSteps, PdfCommit
    <2>2. \A d \in Cases, l \in Keys :
            runLock[d][l] \in Requests \ {q} => runLock'[d][l] = runLock[d][l]
      BY <1>0, <1>6, <2>1, RunLockSet DEF PdfCommit
    <2>3. SetRun(c, k, [runs[c][k] EXCEPT !.pdf = "bound"])
      BY <1>6 DEF PdfCommit
    <2>4. /\ OnlyRun(c, k) /\ runs'[c][k].pdf = "bound"
          /\ runs'[c][k].status = runs[c][k].status
          /\ runs'[c][k].review = runs[c][k].review
      BY <1>0, <2>1, <2>3, RunBound
    <2>5. RunsKept
      BY <2>1, <2>4, OneRunKept
    <2> QED BY <1>6, <1>a, <2>2, <2>5 DEF PdfCommit, History, RunsKept
  <1>7. CASE ReviewCommit(q)
    <2>1. c \in Cases /\ k \in Keys /\ req[q].arg \in Verdict
      BY <1>0, <1>7 DEF RequestOK, NamesRows, RunSteps, ReviewCommit
    <2>2. CASE runs[c][k].review = "none"
      <3>1. SetRun(c, k, [runs[c][k] EXCEPT !.review = req[q].arg])
        BY <1>7, <2>2 DEF ReviewCommit
      <3>2. /\ OnlyRun(c, k) /\ runs'[c][k].status = runs[c][k].status
            /\ runs'[c][k].pdf = runs[c][k].pdf
        BY <1>0, <2>1, <3>1, RunReviewed
      <3>3. RunsKept
        BY <2>1, <2>2, <3>2, OneRunKept
      <3> QED BY <1>7, <1>a, <3>3 DEF ReviewCommit, History, RunsKept
    <2>3. CASE runs[c][k].review # "none"
      BY <1>7, <1>a, <2>3 DEF ReviewCommit, History
    <2> QED BY <2>2, <2>3
  <1>8. CASE AdvanceCheck(q)
    BY <1>8, OnlyReq DEF AdvanceCheck
  <1>9. CASE AdvanceWrite(q)
    <2>1. c \in Cases /\ req[q].arg \in CaseStatus
      BY <1>0, <1>9 DEF RequestOK, NamesRows, CaseStatus, AdvanceWrite
    <2> QED BY <1>0, <1>9, <1>a, <2>1, StatusSet DEF AdvanceWrite, History
  <1> QED BY <1>1, <1>2, <1>3, <1>4, <1>5, <1>6, <1>7, <1>8, <1>9 DEF RouterStep

LEMMA Closed ==
  ASSUME IInv, NEW q \in Requests, NEW st \in Final, req[q].at \in Deciding,
         CloseEsc(q, st)
  PROVE  /\ esc' \in [Escalations -> Escalation]
         /\ escLock' \in [Escalations -> Requests \cup {NoRequest}]
         /\ req[q].esc \in Escalations
         /\ esc[req[q].esc].status = "in_review"
         /\ esc'[req[q].esc].case = esc[req[q].esc].case
         /\ escLock[req[q].esc] = q
         /\ \A e \in Escalations \ {req[q].esc} : esc'[e] = esc[e] /\ escLock'[e] = escLock[e]
  <1>1. /\ req[q].esc \in Escalations /\ req[q].arg \in FinalDecision
        /\ escLock[req[q].esc] = q /\ esc[req[q].esc].status = "in_review"
    BY DEF IInv, RequestOK, NamesRows, OwnsLocks
  <1>2. esc[req[q].esc] \in Escalation
    BY <1>1 DEF IInv, TypeOK
  <1> QED BY <1>1, <1>2 DEF CloseEsc, SetEsc, IInv, TypeOK, Escalation, Final, FinalDecision

LEMMA ClosedHistory ==
  ASSUME IInv, NEW q \in Requests, NEW st \in Final, req[q].at \in Deciding,
         CloseEsc(q, st), \A c \in Cases : cases'[c].run = cases[c].run
  PROVE  History(q)
  <1>1. \A p \in Requests \ {q} : req'[p] = req[p]
    BY DEF CloseEsc, Answer, IInv, TypeOK
  <1>2. UNCHANGED <<runs, disk, runLock>>
    BY DEF CloseEsc
  <1>3. \A e \in Escalations :
          escLock[e] \in Requests \ {q} => escLock'[e] = escLock[e] /\ esc'[e] = esc[e]
    BY Closed
  <1> QED BY <1>1, <1>2, <1>3 DEF History

LEMMA ExpertHistory ==
  ASSUME IInv, NEW q \in Requests, ExpertStep(q), UNCHANGED faults
  PROVE  History(q)
  <1> DEFINE c == req[q].case
  <1> USE DEF Goto, Answer, escVars
  <1>0. RequestOK(q) /\ TypeOK
    BY DEF IInv
  <1>1. CASE CreateLock(q)
    BY <1>1, OnlyReq DEF CreateLock
  <1>2. CASE CreateRefused(q)
    BY <1>2, OnlyReq DEF CreateRefused
  <1>3. CASE CreateBill(q)
    BY <1>3, OnlyReq DEF CreateBill
  <1>4. CASE CreateInsert(q)
    <2>1. c \in Cases /\ req[q].esc \in Escalations
      BY <1>0, <1>4 DEF RequestOK, NamesRows, RunSteps, CreateInsert
    <2>2. \A d \in Cases : cases'[d].run = cases[d].run
      BY <1>0, <1>4, <2>1, StatusSet DEF CreateInsert, CaseStatus
    <2>3. \A e \in Escalations : esc[e].status = "in_review" => esc'[e] = esc[e]
      BY <1>0, <1>4, <2>1 DEF CreateInsert, SetEsc, TypeOK
    <2>4. \A p \in Requests \ {q} : req'[p] = req[p]
      BY <1>0, <1>4 DEF CreateInsert, TypeOK
    <2> QED BY <1>4, <2>2, <2>3, <2>4 DEF CreateInsert, History
  <1>5. CASE CreateConflict(q)
    BY <1>5, OnlyReq DEF CreateConflict
  <1>6. CASE BlockCase(q)
    <2>1. c \in Cases
      BY <1>0, <1>6 DEF RequestOK, NamesRows, Deciding, BlockCase
    <2>2. \A d \in Cases : cases'[d].run = cases[d].run
      BY <1>0, <1>6, <2>1, StatusSet DEF BlockCase, CaseStatus
    <2> QED BY <1>6, <2>2, ClosedHistory DEF BlockCase, Deciding, Final
  <1>7. CASE DecideCount(q)
    BY <1>7, OnlyReq DEF DecideCount
  <1>8. CASE Resolve(q)
    BY <1>8, ClosedHistory DEF Resolve, Deciding, Final
  <1>9. CASE ReleaseCase(q)
    <2>1. c \in Cases
      BY <1>0, <1>9 DEF RequestOK, NamesRows, Deciding, ReleaseCase
    <2>2. \A d \in Cases : cases'[d].run = cases[d].run
      BY <1>0, <1>9, <2>1, StatusSet DEF ReleaseCase, CaseStatus
    <2> QED BY <1>9, <2>2, ClosedHistory DEF ReleaseCase, Deciding, Final
  <1> QED BY <1>1, <1>2, <1>3, <1>4, <1>5, <1>6, <1>7, <1>8, <1>9 DEF ExpertStep

LEMMA RollbackHistory ==
  ASSUME IInv, NEW q \in Requests, Rollback(q), ReleaseEsc(q)
  PROVE  History(q)
  BY DEF Rollback, ReleaseEsc, Answer, History, IInv, TypeOK

LEMMA ExpertWorkKeeps ==
  ASSUME IInv, NEW e \in Escalations, ExpertWork(e)
  PROVE  /\ UNCHANGED <<pilotVars, escLock>>
         /\ esc' \in [Escalations -> Escalation]
         /\ escLock[e] = NoRequest
         /\ esc[e].status \in Active
         /\ esc'[e].case = esc[e].case
         /\ \A f \in Escalations \ {e} : esc'[f] = esc[f]
  <1>1. esc[e] \in Escalation /\ esc \in [Escalations -> Escalation]
    BY DEF IInv, TypeOK
  <1>2. ASSUME NEW r \in Escalation, NEW from \in SUBSET Active, r.case = esc[e].case,
               Move(e, from, r)
        PROVE  /\ UNCHANGED <<pilotVars, escLock>>
               /\ esc' \in [Escalations -> Escalation]
               /\ escLock[e] = NoRequest
               /\ esc[e].status \in Active
               /\ esc'[e].case = esc[e].case
               /\ \A f \in Escalations \ {e} : esc'[f] = esc[f]
    BY <1>1, <1>2 DEF Move, SetEsc, EscFree
  <1>3. \A st \in Active :
          /\ [esc[e] EXCEPT !.status = st] \in Escalation
          /\ [esc[e] EXCEPT !.status = st].case = esc[e].case
    BY <1>1 DEF Escalation
  <1>4. CASE CommercialDecision(e)
    <2> DEFINE r == [esc[e] EXCEPT !.status = "open", !.billing = "approved"]
    <2>1. r \in Escalation /\ r.case = esc[e].case
      BY <1>1 DEF Escalation, Active
    <2>2. Move(e, {"awaiting_commercial_approval"}, r)
      BY <1>4 DEF CommercialDecision
    <2> HIDE DEF r
    <2> QED BY <1>2, <2>1, <2>2 DEF Active
  <1>5. ASSUME NEW st \in Active, NEW from \in SUBSET Active,
               Move(e, from, [esc[e] EXCEPT !.status = st])
        PROVE  /\ UNCHANGED <<pilotVars, escLock>>
               /\ esc' \in [Escalations -> Escalation]
               /\ escLock[e] = NoRequest
               /\ esc[e].status \in Active
               /\ esc'[e].case = esc[e].case
               /\ \A f \in Escalations \ {e} : esc'[f] = esc[f]
    <2> DEFINE r == [esc[e] EXCEPT !.status = st]
    <2>1. r \in Escalation /\ r.case = esc[e].case
      BY <1>3
    <2>2. Move(e, from, r)
      BY <1>5
    <2> HIDE DEF r
    <2> QED BY <1>2, <2>1, <2>2
  <1>6. CASE AssignExpert(e)
    <2>1. Move(e, {"open", "assigned"}, [esc[e] EXCEPT !.status = "assigned"])
      BY <1>6 DEF AssignExpert
    <2> QED BY <1>5, <2>1 DEF Active
  <1>7. CASE StartExpertReview(e)
    <2>1. Move(e, {"assigned"}, [esc[e] EXCEPT !.status = "in_review"])
      BY <1>7 DEF StartExpertReview
    <2> QED BY <1>5, <2>1 DEF Active
  <1>8. CASE AskCustomer(e)
    <2>1. Move(e, {"in_review"}, [esc[e] EXCEPT !.status = "awaiting_customer"])
      BY <1>8 DEF AskCustomer
    <2> QED BY <1>5, <2>1 DEF Active
  <1>9. CASE Resume(e)
    <2>1. Move(e, {"awaiting_customer"}, [esc[e] EXCEPT !.status = "assigned"])
      BY <1>9 DEF Resume
    <2> QED BY <1>5, <2>1 DEF Active
  <1> QED BY <1>4, <1>6, <1>7, <1>8, <1>9 DEF ExpertWork

LEMMA ExpertWorkHistory ==
  ASSUME IInv, NEW e \in Escalations, ExpertWork(e)
  PROVE  History(NoRequest)
  BY ExpertWorkKeeps, PilotAssumption DEF History, pilotVars

-----------------------------------------------------------------------------
(* Types *)
LEMMA ReqTypes ==
  ASSUME TypeOK, NEW q \in Requests
  PROVE  /\ \A r \in Request : Begin(q, r) => req' \in [Requests -> Request] /\ req'[q] = r
         /\ \A at \in Steps : Goto(q, at) =>
              /\ req' \in [Requests -> Request]
              /\ req'[q] = [req[q] EXCEPT !.at = at]
         /\ Answer(q) => req' \in [Requests -> Request] /\ req'[q] = Idle
  <1>1. req \in [Requests -> Request] /\ req[q] \in Request
    BY DEF TypeOK
  <1>2. Idle \in Request
    BY DEF Idle, Asked, Request, Steps
  <1>3. \A at \in Steps : [req[q] EXCEPT !.at = at] \in Request
    BY <1>1 DEF Request
  <1>4. \A r \in Request : [req EXCEPT ![q] = r] \in [Requests -> Request]
    BY <1>1
  <1>5. ASSUME NEW at \in Steps, Goto(q, at)
        PROVE  req' \in [Requests -> Request] /\ req'[q] = [req[q] EXCEPT !.at = at]
    <2>1. req' = [req EXCEPT ![q] = [req[q] EXCEPT !.at = at]]
      BY <1>5 DEF Goto
    <2> QED BY <1>1, <1>3, <2>1
  <1> QED BY <1>1, <1>2, <1>4, <1>5 DEF Begin, Answer

(* Counting the included reviews moves a new escalation to its insert and  *)
(* leaves the rows it names.                                               *)
LEMMA BillRow ==
  ASSUME TypeOK, NEW q \in Requests, CreateBill(q)
  PROVE  /\ req'[q].at = "insert" /\ req'[q].case = req[q].case /\ req'[q].run = req[q].run
         /\ req'[q].esc = req[q].esc /\ req'[q].arg = req[q].arg
  <1>1. req \in [Requests -> Request] /\ req[q] \in Request
    BY DEF TypeOK
  <1>2. req' = [req EXCEPT ![q] = [req[q] EXCEPT !.at = "insert", !.seen = Billing(req[q].arg)]]
    BY DEF CreateBill
  <1>3. req'[q] = [req[q] EXCEPT !.at = "insert", !.seen = Billing(req[q].arg)]
    BY <1>1, <1>2
  <1> QED BY <1>1, <1>3 DEF Request

LEMMA AskTypes ==
  ASSUME IInv, NEW q \in Requests, Ask(q)
  PROVE  TypeOK' /\ RequestOK(q)'
  <1>0. TypeOK /\ RowsOK /\ TrustChain
    BY DEF IInv
  <1> USE DEF Asked
  <1>1. ASSUME NEW c \in Cases, RouterBegin(q, c), UNCHANGED <<escVars, faults>>
        PROVE  TypeOK' /\ RequestOK(q)'
    <2>0. cases[c] \in Case /\ \A k \in Keys : runs[c][k] \in Run
      BY <1>0 DEF TypeOK
    <2>1. ASSUME NEW k \in Keys, StartRead(q, c, k)
          PROVE  TypeOK' /\ RequestOK(q)'
      <3> DEFINE r == Asked("start", c, k, NoEscalation, "none", "none")
      <3>1. r \in Request
        BY DEF Request, Steps
      <3>2. req' \in [Requests -> Request] /\ req'[q] = r
        BY <1>0, <2>1, <3>1, ReqTypes DEF StartRead
      <3> QED BY <1>0, <1>1, <2>1, <3>2
              DEF StartRead, escVars, TypeOK, RequestOK, NamesRows, CaseStarted, RunKnown,
                  FilesWritten, OwnsLocks, RunSteps, Deciding
    <2>2. ASSUME NEW k \in Keys, CompleteRead(q, c, k)
          PROVE  TypeOK' /\ RequestOK(q)'
      <3> DEFINE r == Asked("bind", c, k, NoEscalation, cases[c].status, "none")
      <3>1. r \in Request
        BY <2>0 DEF Request, Steps, Case
      <3>2. req' \in [Requests -> Request] /\ req'[q] = r
        BY <1>0, <2>2, <3>1, ReqTypes DEF CompleteRead
      <3> QED BY <1>0, <1>1, <2>2, <3>2, PilotAssumption
              DEF CompleteRead, escVars, TypeOK, RequestOK, NamesRows, CaseStarted,
                  RunKnown, FilesWritten, OwnsLocks, RunSteps, Deciding
    <2>3. ASSUME NEW k \in Keys, PdfRead(q, c, k)
          PROVE  TypeOK' /\ RequestOK(q)'
      <3> DEFINE r == Asked("render", c, k, NoEscalation, "none", "none")
      <3>1. r \in Request
        BY DEF Request, Steps
      <3>2. req' \in [Requests -> Request] /\ req'[q] = r
        BY <1>0, <2>3, <3>1, ReqTypes DEF PdfRead
      <3> QED BY <1>0, <1>1, <2>3, <3>2
              DEF PdfRead, escVars, TypeOK, RequestOK, NamesRows, CaseStarted, RunKnown,
                  FilesWritten, OwnsLocks, RunSteps, Deciding
    <2>4. ASSUME NEW k \in Keys, NEW verdict \in Verdict, ReviewRead(q, c, k, verdict)
          PROVE  TypeOK' /\ RequestOK(q)'
      <3> DEFINE r == Asked("review", c, k, NoEscalation, "none", verdict)
      <3>1. r \in Request
        BY DEF Request, Steps
      <3>2. req' \in [Requests -> Request] /\ req'[q] = r
        BY <1>0, <2>4, <3>1, ReqTypes DEF ReviewRead
      <3>3. runs[c][k].status # "absent"
        BY <1>0, <2>4, PilotAssumption DEF ReviewRead, RowsOK
      <3> QED BY <1>0, <1>1, <2>4, <3>2, <3>3
              DEF ReviewRead, escVars, TypeOK, RequestOK, NamesRows, CaseStarted, RunKnown,
                  FilesWritten, OwnsLocks, RunSteps, Deciding
    <2>5. ASSUME NEW target \in {"client_ready", "delivered", "archived"},
                 AdvanceRead(q, c, target)
          PROVE  TypeOK' /\ RequestOK(q)'
      <3> DEFINE at == IF target = "archived" THEN "write" ELSE "check"
                 r == Asked(at, c, cases[c].run, NoEscalation, cases[c].status, target)
      <3>1. r \in Request
        BY <2>0 DEF Request, Steps, Case
      <3>2. req' \in [Requests -> Request] /\ req'[q] = r
        BY <1>0, <2>5, <3>1, ReqTypes DEF AdvanceRead
      <3>3. target # "archived" => cases[c].run # NoKey
        <4>1. target \in Transitions[cases[c].status]
          BY <2>5 DEF AdvanceRead, CanMove
        <4>2. target # "archived" => target \notin Transitions["created"] \cup Transitions["archived"]
          BY DEF Transitions
        <4> QED BY <1>0, <4>1, <4>2 DEF TypeOK
      <3> QED BY <1>0, <1>1, <2>5, <3>2, <3>3
              DEF AdvanceRead, escVars, TypeOK, RequestOK, NamesRows, CaseStarted, RunKnown,
                  FilesWritten, OwnsLocks, RunSteps, Deciding
    <2> QED BY <1>1, <2>1, <2>2, <2>3, <2>4, <2>5 DEF RouterBegin
  <1>2. ASSUME NEW c \in Cases, ExpertBegin(q, c), UNCHANGED faults
        PROVE  TypeOK' /\ RequestOK(q)'
    <2>1. PICK k \in Keys, e \in Escalations, kind \in Kind : CreateRead(q, c, k, e, kind)
      BY <1>2 DEF ExpertBegin
    <2> DEFINE r == Asked("lockCase", c, k, e, "none", kind)
    <2>2. r \in Request
      BY DEF Request, Steps
    <2>3. req' \in [Requests -> Request] /\ req'[q] = r
      BY <1>0, <2>1, <2>2, ReqTypes DEF CreateRead
    <2> QED BY <1>0, <1>2, <2>1, <2>3
            DEF CreateRead, escVars, TypeOK, RequestOK, NamesRows, CaseStarted, RunKnown,
                FilesWritten, OwnsLocks, RunSteps, Deciding
  <1>3. ASSUME ExpertDecides(q), UNCHANGED faults
        PROVE  TypeOK' /\ RequestOK(q)'
    <2>1. PICK e \in Escalations, decision \in FinalDecision : DecideLock(q, e, decision)
      BY <1>3 DEF ExpertDecides
    <2> DEFINE at == IF decision = "BLOCK_CASE" THEN "block" ELSE "count"
               r == Asked(at, esc[e].case, esc[e].run, e, "none", decision)
    <2>2. esc[e] \in Escalation /\ esc[e].case \in Cases
      BY <1>0, <2>1 DEF TypeOK, RowsOK, DecideLock
    <2>3. r \in Request
      BY <2>2 DEF Request, Steps, Escalation
    <2>4. req' \in [Requests -> Request] /\ req'[q] = r
      BY <1>0, <2>1, <2>3, ReqTypes DEF DecideLock
    <2>5. escLock' \in [Escalations -> Requests \cup {NoRequest}] /\ escLock'[e] = q
      BY <1>0, <2>1 DEF DecideLock, TypeOK
    <2>6. TypeOK'
      BY <1>0, <1>3, <2>1, <2>4, <2>5 DEF DecideLock, TypeOK
    <2> QED BY <2>1, <2>2, <2>4, <2>5, <2>6
            DEF DecideLock, RequestOK, NamesRows, CaseStarted, RunKnown,
                FilesWritten, OwnsLocks, RunSteps, Deciding
  <1> QED BY <1>1, <1>2, <1>3 DEF Ask

(* A step of the router keeps types and rows and brings its request to a   *)
(* state it may rely on.                                                   *)
LEMMA IdleOK ==
  ASSUME NEW q, req'[q] = Idle
  PROVE  RequestOK(q)'
  BY DEF Idle, Asked, RequestOK, NamesRows, CaseStarted, RunKnown, FilesWritten, OwnsLocks,
     RunSteps, Deciding

LEMMA RouterTypes ==
  ASSUME IInv, NEW q \in Requests, RouterStep(q), UNCHANGED <<escVars, faults>>
  PROVE  TypeOK' /\ RequestOK(q)'
  <1> DEFINE c == req[q].case
             k == req[q].run
  <1> USE DEF escVars
  <1>0. RequestOK(q) /\ TypeOK /\ RowsOK /\ TrustChain
    BY DEF IInv
  <1>1. CASE StartClaim(q)
    <2>1. c \in Cases /\ k \in Keys
      BY <1>0, <1>1 DEF RequestOK, NamesRows, RunSteps, StartClaim
    <2>2. req' \in [Requests -> Request] /\ req'[q] = Idle
      BY <1>0, <1>1, ReqTypes DEF StartClaim
    <2>3. CASE cases[c].status \in Startable /\ runs[c][k].status = "absent"
      <3>1. SetRun(c, k, [NoRun EXCEPT !.status = "analyzing"])
        BY <1>1, <2>3 DEF StartClaim
      <3>2. runs' \in [Cases -> [Keys -> Run]]
        BY <1>0, <2>1, <3>1, RunStarted DEF OnlyRun
      <3>3. /\ cases' \in [Cases -> Case]
            /\ \A d \in Cases : cases'[d].run = NoKey => cases'[d].status \in {"created", "archived"}
        <4>1. cases' = [cases EXCEPT ![c] = [status |-> "analyzing", run |-> k]]
          BY <1>1, <2>3 DEF StartClaim
        <4>2. /\ cases' \in [Cases -> Case] /\ cases'[c].run = k
              /\ \A d \in Cases \ {c} : cases'[d] = cases[d]
          BY <1>0, <2>1, <4>1, CaseClaimed
        <4>3. cases'[c].run # NoKey
          BY <2>1, <4>2, PilotAssumption
        <4>4. \A d \in Cases : cases[d].run = NoKey => cases[d].status \in {"created", "archived"}
          BY <1>0 DEF TypeOK
        <4> QED BY <4>2, <4>3, <4>4
      <3> QED BY <1>0, <1>1, <2>2, <3>2, <3>3, IdleOK DEF StartClaim, TypeOK
    <2>4. CASE ~ (cases[c].status \in Startable /\ runs[c][k].status = "absent")
      BY <1>0, <1>1, <2>2, <2>4, IdleOK DEF StartClaim, TypeOK
    <2> QED BY <2>3, <2>4
  <1>2. CASE CompleteBind(q)
    <2> DEFINE at == IF runs[c][k].status = "completed" THEN "complete" ELSE "produce"
    <2>1. Goto(q, at) /\ at \in Steps
      BY <1>2 DEF CompleteBind, Steps
    <2>2. req' \in [Requests -> Request] /\ req'[q] = [req[q] EXCEPT !.at = at]
      BY <1>0, <2>1, ReqTypes
    <2>3. req[q].at = "bind" /\ req[q] \in Request
      BY <1>0, <1>2 DEF CompleteBind, TypeOK
    <2>4. TypeOK'
      BY <1>0, <1>2, <2>2 DEF CompleteBind, TypeOK
    <2>5. c \in Cases /\ k \in Keys /\ cases[c].run # NoKey /\ runs[c][k].status # "absent"
      BY <1>0, <2>3 DEF RequestOK, NamesRows, CaseStarted, RunKnown, RunSteps
    <2>6. at = "complete" => <<c, k, "snapshot">> \in disk
      BY <1>0, <2>5 DEF TrustChain
    <2>7. /\ req'[q].at = at /\ req'[q].case = c /\ req'[q].run = k
          /\ at \in {"complete", "produce"}
      BY <2>2, <2>3 DEF Request
    <2> HIDE DEF at
    <2> QED BY <1>2, <2>4, <2>5, <2>6, <2>7
            DEF CompleteBind, RequestOK, NamesRows, CaseStarted, RunKnown, FilesWritten,
                OwnsLocks, RunSteps, Deciding
  <1>3. CASE CompletePublish(q)
    <2>1. req[q].at = "produce" /\ req[q] \in Request
      BY <1>0, <1>3 DEF CompletePublish, TypeOK
    <2>2. c \in Cases /\ k \in Keys /\ cases[c].run # NoKey /\ runs[c][k].status # "absent"
      BY <1>0, <2>1 DEF RequestOK, NamesRows, CaseStarted, RunKnown, RunSteps
    <2>3. Answer(q) \/ Goto(q, "complete")
      BY <1>3 DEF CompletePublish
    <2>4. /\ req' \in [Requests -> Request]
          /\ req'[q] = Idle \/ req'[q] = [req[q] EXCEPT !.at = "complete"]
      BY <1>0, <2>3, ReqTypes DEF Steps
    <2>5. TypeOK'
      BY <1>0, <1>3, <2>2, <2>4 DEF CompletePublish, TypeOK, Generation
    <2>6. ASSUME req'[q] = [req[q] EXCEPT !.at = "complete"]
          PROVE  RequestOK(q)'
      <3>1. req'[q].at = "complete" /\ req'[q].case = c /\ req'[q].run = k
        BY <2>1, <2>6 DEF Request
      <3> QED BY <1>3, <2>2, <3>1
              DEF CompletePublish, RequestOK, NamesRows, CaseStarted, RunKnown, FilesWritten,
                  OwnsLocks, RunSteps, Deciding
    <2> QED BY <2>4, <2>5, <2>6, IdleOK
  <1>4. CASE CompleteCommit(q)
    <2>1. c \in Cases /\ k \in Keys /\ cases[c].run # NoKey
      BY <1>0, <1>4 DEF RequestOK, NamesRows, CaseStarted, RunSteps, CompleteCommit
    <2>2. /\ cases' \in [Cases -> Case]
          /\ \A d \in Cases : cases'[d].run = NoKey => cases'[d].status \in {"created", "archived"}
      <3>1. CASE SetStatus(c, "operator_review")
        BY <1>0, <2>1, <3>1, StartedStatusSet DEF CaseStatus
      <3> QED BY <1>0, <1>4, <3>1 DEF CompleteCommit, TypeOK
    <2>3. SetRun(c, k, [runs[c][k] EXCEPT !.status = "completed"])
      BY <1>4 DEF CompleteCommit
    <2>4. runs' \in [Cases -> [Keys -> Run]]
      BY <1>0, <2>1, <2>3, RunCompleted DEF OnlyRun
    <2>5. req' \in [Requests -> Request] /\ req'[q] = Idle
      BY <1>0, <1>4, ReqTypes DEF CompleteCommit
    <2> QED BY <1>0, <1>4, <2>2, <2>4, <2>5, IdleOK DEF CompleteCommit, TypeOK
  <1>5. CASE PdfPublish(q)
    <2>1. c \in Cases /\ k \in Keys /\ runs[c][k].status = "completed"
      BY <1>0, <1>5 DEF RequestOK, NamesRows, RunKnown, RunSteps, PdfPublish
    <2>2. CASE Answer(q) /\ UNCHANGED <<disk, runLock>>
      <3>1. req' \in [Requests -> Request] /\ req'[q] = Idle
        BY <1>0, <2>2, ReqTypes
      <3> QED BY <1>0, <1>5, <2>2, <3>1, IdleOK DEF PdfPublish, TypeOK
    <2>3. CASE /\ Goto(q, "artifact") /\ LockRun(c, k, q)
               /\ disk' = disk \cup {<<c, k, "pdf">>}
      <3>1. req' \in [Requests -> Request] /\ req'[q] = [req[q] EXCEPT !.at = "artifact"]
        BY <1>0, <2>3, ReqTypes DEF Steps
      <3>2. req'[q].at = "artifact" /\ req'[q].case = c /\ req'[q].run = k
        BY <1>0, <3>1 DEF TypeOK, Request
      <3>3. runLock' \in [Cases -> [Keys -> Requests \cup {NoRequest}]] /\ runLock'[c][k] = q
        BY <1>0, <2>1, <2>3, RunLockSet
      <3>4. TypeOK'
        BY <1>0, <1>5, <2>1, <2>3, <3>1, <3>3 DEF PdfPublish, TypeOK, Generation
      <3> QED BY <1>5, <2>1, <2>3, <3>2, <3>3, <3>4
              DEF PdfPublish, RequestOK, NamesRows, CaseStarted, RunKnown, FilesWritten,
                  OwnsLocks, RunSteps, Deciding
    <2> QED BY <1>5, <2>2, <2>3 DEF PdfPublish
  <1>6. CASE PdfCommit(q)
    <2>1. c \in Cases /\ k \in Keys
      BY <1>0, <1>6 DEF RequestOK, NamesRows, RunSteps, PdfCommit
    <2>2. SetRun(c, k, [runs[c][k] EXCEPT !.pdf = "bound"])
      BY <1>6 DEF PdfCommit
    <2>3. runs' \in [Cases -> [Keys -> Run]]
      BY <1>0, <2>1, <2>2, RunBound DEF OnlyRun
    <2>4. runLock' \in [Cases -> [Keys -> Requests \cup {NoRequest}]]
      BY <1>0, <1>6, <2>1, RunLockSet DEF PdfCommit
    <2>5. req' \in [Requests -> Request] /\ req'[q] = Idle
      BY <1>0, <1>6, ReqTypes DEF PdfCommit
    <2> QED BY <1>0, <1>6, <2>3, <2>4, <2>5, IdleOK DEF PdfCommit, TypeOK
  <1>7. CASE ReviewCommit(q)
    <2>1. c \in Cases /\ k \in Keys /\ req[q].arg \in Verdict
      BY <1>0, <1>7 DEF RequestOK, NamesRows, RunSteps, ReviewCommit
    <2>2. req' \in [Requests -> Request] /\ req'[q] = Idle
      BY <1>0, <1>7, ReqTypes DEF ReviewCommit
    <2>3. runs' \in [Cases -> [Keys -> Run]]
      <3>1. CASE SetRun(c, k, [runs[c][k] EXCEPT !.review = req[q].arg])
        BY <1>0, <2>1, <3>1, RunReviewed DEF OnlyRun
      <3> QED BY <1>0, <1>7, <3>1 DEF ReviewCommit, TypeOK
    <2> QED BY <1>0, <1>7, <2>2, <2>3, IdleOK DEF ReviewCommit, TypeOK
  <1>8. CASE AdvanceCheck(q)
    <2>1. req[q].at = "check" /\ req[q] \in Request
      BY <1>0, <1>8 DEF AdvanceCheck, TypeOK
    <2>2. Answer(q) \/ Goto(q, "write")
      BY <1>8 DEF AdvanceCheck
    <2>3. /\ req' \in [Requests -> Request]
          /\ req'[q] = Idle \/ req'[q] = [req[q] EXCEPT !.at = "write"]
      BY <1>0, <2>2, ReqTypes DEF Steps
    <2>4. TypeOK'
      BY <1>0, <1>8, <2>3 DEF AdvanceCheck, TypeOK
    <2>5. ASSUME req'[q] = [req[q] EXCEPT !.at = "write"]
          PROVE  RequestOK(q)'
      <3>1. req'[q].at = "write" /\ req'[q].case = c /\ req'[q].arg = req[q].arg
        BY <2>1, <2>5 DEF Request
      <3> QED BY <1>0, <1>8, <2>1, <3>1
              DEF AdvanceCheck, RequestOK, NamesRows, CaseStarted, RunKnown, FilesWritten,
                  OwnsLocks, RunSteps, Deciding
    <2> QED BY <2>3, <2>4, <2>5, IdleOK
  <1>9. CASE AdvanceWrite(q)
    <2>1. /\ c \in Cases /\ req[q].arg \in CaseStatus
          /\ req[q].arg # "archived" => cases[c].run # NoKey
      BY <1>0, <1>9 DEF RequestOK, NamesRows, CaseStarted, CaseStatus, AdvanceWrite
    <2>2. /\ cases' \in [Cases -> Case]
          /\ \A d \in Cases : cases'[d].run = NoKey => cases'[d].status \in {"created", "archived"}
      <3>1. SetStatus(c, req[q].arg)
        BY <1>9 DEF AdvanceWrite
      <3> QED BY <1>0, <2>1, <3>1, StartedStatusSet
    <2>3. req' \in [Requests -> Request] /\ req'[q] = Idle
      BY <1>0, <1>9, ReqTypes DEF AdvanceWrite
    <2> QED BY <1>0, <1>9, <2>2, <2>3, IdleOK DEF AdvanceWrite, TypeOK
  <1> QED BY <1>1, <1>2, <1>3, <1>4, <1>5, <1>6, <1>7, <1>8, <1>9 DEF RouterStep

LEMMA ExpertTypes ==
  ASSUME IInv, NEW q \in Requests, ExpertStep(q), UNCHANGED faults
  PROVE  TypeOK' /\ RequestOK(q)'
  <1> DEFINE c == req[q].case
             k == req[q].run
             e == req[q].esc
  <1> USE DEF escVars
  <1>0. RequestOK(q) /\ TypeOK /\ RowsOK /\ TrustChain
    BY DEF IInv
  <1>1. CASE CreateLock(q)
    <2>1. /\ c \in Cases /\ k \in Keys /\ e \in Escalations /\ req[q].arg \in Kind
          /\ req[q] \in Request
      BY <1>0, <1>1 DEF RequestOK, NamesRows, RunSteps, CreateLock, TypeOK
    <2>2. req' \in [Requests -> Request] /\ req'[q] = [req[q] EXCEPT !.at = "bill"]
      BY <1>0, <1>1, ReqTypes DEF CreateLock, Steps
    <2>3. caseLock' \in [Cases -> Requests \cup {NoRequest}]
      BY <1>0, <1>1, <2>1 DEF CreateLock, LockCase, TypeOK
    <2>4. cases[c].run # NoKey
      BY <1>1, <2>1, PilotAssumption DEF CreateLock, Permitted
    <2>5. /\ req'[q].at = "bill" /\ req'[q].case = c /\ req'[q].run = k
          /\ req'[q].esc = e /\ req'[q].arg = req[q].arg
      BY <2>1, <2>2 DEF Request
    <2>6. TypeOK'
      BY <1>0, <1>1, <2>2, <2>3 DEF CreateLock, TypeOK
    <2> QED BY <1>1, <2>1, <2>4, <2>5, <2>6
            DEF CreateLock, RequestOK, NamesRows, CaseStarted, RunKnown, FilesWritten,
                OwnsLocks, RunSteps, Deciding
  <1>2. CASE CreateRefused(q)
    <2>1. req' \in [Requests -> Request] /\ req'[q] = Idle
      BY <1>0, <1>2, ReqTypes DEF CreateRefused
    <2> QED BY <1>0, <1>2, <2>1, IdleOK DEF CreateRefused, TypeOK
  <1>3. CASE CreateBill(q)
    <2>1. /\ c \in Cases /\ k \in Keys /\ e \in Escalations /\ req[q].arg \in Kind
          /\ cases[c].run # NoKey /\ req[q] \in Request
      BY <1>0, <1>3 DEF RequestOK, NamesRows, CaseStarted, RunSteps, CreateBill, TypeOK
    <2> DEFINE b == Billing(req[q].arg)
    <2>2. b \in {"included", "not_chargeable", "pending_approval"}
      BY <2>1 DEF Billing, Kind
    <2>3. req' = [req EXCEPT ![q] = [req[q] EXCEPT !.at = "insert", !.seen = b]]
      BY <1>3 DEF CreateBill
    <2> HIDE DEF b
    <2>4. [req[q] EXCEPT !.at = "insert", !.seen = b] \in Request
      BY <2>1, <2>2 DEF Request, Steps
    <2>5. req' \in [Requests -> Request] /\ req'[q] = [req[q] EXCEPT !.at = "insert", !.seen = b]
      BY <1>0, <2>3, <2>4 DEF TypeOK
    <2>6. /\ req'[q].at = "insert" /\ req'[q].case = c /\ req'[q].run = k
          /\ req'[q].esc = e /\ req'[q].arg = req[q].arg /\ req'[q].seen = b
      BY <2>1, <2>5 DEF Request
    <2>7. TypeOK'
      BY <1>0, <1>3, <2>5 DEF CreateBill, TypeOK
    <2> QED BY <1>3, <2>1, <2>2, <2>6, <2>7
            DEF CreateBill, RequestOK, NamesRows, CaseStarted, RunKnown, FilesWritten,
                OwnsLocks, RunSteps, Deciding
  <1>4. CASE CreateInsert(q)
    <2>1. /\ c \in Cases /\ k \in Keys /\ e \in Escalations /\ req[q].arg \in Kind
          /\ req[q].seen \in {"included", "not_chargeable", "pending_approval"}
          /\ cases[c].run # NoKey
      BY <1>0, <1>4 DEF RequestOK, NamesRows, CaseStarted, RunSteps, CreateInsert
    <2>2. req' \in [Requests -> Request] /\ req'[q] = Idle
      BY <1>0, <1>4, ReqTypes DEF CreateInsert
    <2>3. caseLock' \in [Cases -> Requests \cup {NoRequest}]
      BY <1>0, <1>4, <2>1 DEF CreateInsert, LockCase, TypeOK
    <2>4. /\ cases' \in [Cases -> Case]
          /\ \A d \in Cases : cases'[d].run = NoKey => cases'[d].status \in {"created", "archived"}
      <3>1. CASE SetStatus(c, "expert_review")
        BY <1>0, <2>1, <3>1, StartedStatusSet DEF CaseStatus
      <3> QED BY <1>0, <1>4, <3>1 DEF CreateInsert, TypeOK
    <2>5. esc' \in [Escalations -> Escalation]
      <3> DEFINE r == [status |-> IF req[q].seen = "pending_approval"
                                  THEN "awaiting_commercial_approval" ELSE "open",
                       case |-> c, run |-> k, kind |-> req[q].arg,
                       billing |-> req[q].seen, decision |-> "none"]
      <3>1. r \in Escalation
        BY <2>1 DEF Escalation, Active
      <3>2. SetEsc(e, r)
        BY <1>4 DEF CreateInsert
      <3> HIDE DEF r
      <3> QED BY <1>0, <2>1, <3>1, <3>2 DEF SetEsc, TypeOK
    <2> QED BY <1>0, <1>4, <2>2, <2>3, <2>4, <2>5, IdleOK DEF CreateInsert, TypeOK
  <1>5. CASE CreateConflict(q)
    <2>1. req' \in [Requests -> Request] /\ req'[q] = Idle
      BY <1>0, <1>5, ReqTypes DEF CreateConflict
    <2>2. caseLock' \in [Cases -> Requests \cup {NoRequest}]
      BY <1>0, <1>5 DEF CreateConflict, LockCase, TypeOK
    <2> QED BY <1>0, <1>5, <2>1, <2>2, IdleOK DEF CreateConflict, TypeOK
  <1>6. ASSUME NEW st \in Final, req[q].at \in Deciding, CloseEsc(q, st),
               cases' \in [Cases -> Case],
               \A d \in Cases : cases'[d].run = NoKey => cases'[d].status \in {"created", "archived"}
        PROVE  TypeOK' /\ RequestOK(q)'
    <2>1. req' \in [Requests -> Request] /\ req'[q] = Idle
      BY <1>0, <1>6, ReqTypes DEF CloseEsc
    <2>2. /\ esc' \in [Escalations -> Escalation]
          /\ escLock' \in [Escalations -> Requests \cup {NoRequest}]
      BY <1>6, Closed
    <2> QED BY <1>0, <1>6, <2>1, <2>2, IdleOK DEF CloseEsc, TypeOK
  <1>7. CASE BlockCase(q)
    <2>1. c \in Cases
      BY <1>0, <1>7 DEF RequestOK, NamesRows, Deciding, BlockCase
    <2>2. /\ cases' \in [Cases -> Case]
          /\ \A d \in Cases : cases'[d].run = NoKey => cases'[d].status \in {"created", "archived"}
      BY <1>0, <1>7, <2>1, StartedStatusSet DEF BlockCase, CaseStatus
    <2> QED BY <1>6, <1>7, <2>2 DEF BlockCase, Deciding, Final
  <1>8. CASE DecideCount(q)
    <2> DEFINE at == IF ActiveBlocking(c) \ {e} = {} THEN "release" ELSE "resolve"
    <2>1. Goto(q, at) /\ at \in Steps /\ at \in Deciding /\ at \notin RunSteps
      BY <1>8 DEF DecideCount, Steps, Deciding, RunSteps
    <2> HIDE DEF at
    <2>2. req' \in [Requests -> Request] /\ req'[q] = [req[q] EXCEPT !.at = at]
      BY <1>0, <2>1, ReqTypes
    <2>3. /\ req'[q].at = at /\ req'[q].case = c /\ req'[q].run = k
          /\ req'[q].esc = e /\ req'[q].arg = req[q].arg
      BY <1>0, <2>2 DEF TypeOK, Request
    <2>4. /\ c \in Cases /\ e \in Escalations /\ req[q].arg \in FinalDecision
          /\ escLock[e] = q /\ esc[e].status = "in_review"
      BY <1>0, <1>8 DEF RequestOK, NamesRows, OwnsLocks, Deciding, DecideCount
    <2>5. TypeOK'
      BY <1>0, <1>8, <2>2 DEF DecideCount, TypeOK
    <2> QED BY <1>8, <2>1, <2>3, <2>4, <2>5
            DEF DecideCount, RequestOK, NamesRows, CaseStarted, RunKnown, FilesWritten,
                OwnsLocks, RunSteps, Deciding
  <1>9. CASE Resolve(q)
    BY <1>0, <1>6, <1>9 DEF Resolve, Deciding, Final, TypeOK
  <1>10. CASE ReleaseCase(q)
    <2>1. c \in Cases
      BY <1>0, <1>10 DEF RequestOK, NamesRows, Deciding, ReleaseCase
    <2>2. /\ cases' \in [Cases -> Case]
          /\ \A d \in Cases : cases'[d].run = NoKey => cases'[d].status \in {"created", "archived"}
      <3>1. CASE cases[c].status = "expert_review" /\ SetStatus(c, "operator_review")
        <4>1. cases[c].run # NoKey
          BY <1>0, <2>1, <3>1 DEF TypeOK
        <4> QED BY <1>0, <2>1, <3>1, <4>1, StartedStatusSet DEF CaseStatus
      <3> QED BY <1>0, <1>10, <3>1 DEF ReleaseCase, TypeOK
    <2> QED BY <1>6, <1>10, <2>2 DEF ReleaseCase, Deciding, Final
  <1> QED BY <1>1, <1>2, <1>3, <1>4, <1>5, <1>7, <1>8, <1>9, <1>10 DEF ExpertStep

LEMMA RollbackTypes ==
  ASSUME IInv, NEW q \in Requests, Rollback(q), ReleaseEsc(q), faults' \in 0..MaxFaults
  PROVE  TypeOK' /\ RequestOK(q)'
  <1>1. TypeOK
    BY DEF IInv
  <1>2. req' \in [Requests -> Request] /\ req'[q] = Idle
    BY <1>1, ReqTypes DEF Rollback
  <1>3. caseLock' \in [Cases -> Requests \cup {NoRequest}]
    BY <1>1 DEF Rollback, TypeOK
  <1>4. runLock' \in [Cases -> [Keys -> Requests \cup {NoRequest}]]
    BY <1>1 DEF Rollback, TypeOK
  <1>5. escLock' \in [Escalations -> Requests \cup {NoRequest}]
    BY <1>1 DEF ReleaseEsc, TypeOK
  <1> QED BY <1>1, <1>2, <1>3, <1>4, <1>5, IdleOK DEF Rollback, ReleaseEsc, TypeOK

-----------------------------------------------------------------------------
(* Rows and the chain of trust *)
Chained(c, k) ==
  /\ runs[c][k].status = "completed" => <<c, k, "snapshot">> \in disk
  /\ runs[c][k].pdf = "bound" => runs[c][k].status = "completed" /\ <<c, k, "pdf">> \in disk
  /\ runs[c][k].review = "approved" => runs[c][k].pdf = "bound"

ChainedAfter(c, k) ==
  /\ runs'[c][k].status = "completed" => <<c, k, "snapshot">> \in disk'
  /\ runs'[c][k].pdf = "bound" => runs'[c][k].status = "completed" /\ <<c, k, "pdf">> \in disk'
  /\ runs'[c][k].review = "approved" => runs'[c][k].pdf = "bound"

LEMMA ChainedRuns == TrustChain <=> \A c \in Cases, k \in Keys : Chained(c, k)
  BY DEF TrustChain, Chained

LEMMA SameRuns ==
  ASSUME IInv, NEW q, History(q), runs' = runs,
         \A c \in Cases : cases'[c].run = cases[c].run,
         \A e \in Escalations : esc'[e].status # "absent" => esc'[e].case \in Cases
  PROVE  RowsOK' /\ TrustChain'
  BY DEF IInv, History, RowsOK, TrustChain

LEMMA OneRunWritten ==
  ASSUME IInv, TypeOK', NEW q, History(q), esc' = esc,
         NEW c \in Cases, NEW k \in Keys, OnlyRun(c, k),
         runs'[c][k].status # "absent", ChainedAfter(c, k),
         \A d \in Cases : cases'[d].run = cases[d].run \/ (d = c /\ cases'[c].run = k)
  PROVE  RowsOK' /\ TrustChain'
  <1>1. \A d \in Cases, l \in Keys : ChainedAfter(d, l)
    <2> SUFFICES ASSUME NEW d \in Cases, NEW l \in Keys, d # c \/ l # k
                 PROVE  ChainedAfter(d, l)
      OBVIOUS
    <2>1. Chained(d, l)
      BY ChainedRuns DEF IInv
    <2> QED BY <2>1 DEF OnlyRun, Chained, ChainedAfter, History
  <1>2. TrustChain'
    BY <1>1 DEF ChainedAfter, TrustChain
  <1>3. \A d \in Cases : cases'[d].run # NoKey => runs'[d][cases'[d].run].status # "absent"
    <2> SUFFICES ASSUME NEW d \in Cases, cases'[d].run # NoKey
                 PROVE  runs'[d][cases'[d].run].status # "absent"
      OBVIOUS
    <2>1. cases'[d].run \in Keys
      BY DEF TypeOK, Case
    <2> QED BY <2>1 DEF IInv, RowsOK, History
  <1>4. \A d \in Cases, l \in Keys : runs'[d][l].status = "absent" => runs'[d][l] = NoRun
    BY DEF IInv, RowsOK, OnlyRun
  <1> QED BY <1>2, <1>3, <1>4 DEF IInv, RowsOK

LEMMA RouterRows ==
  ASSUME IInv, NEW q \in Requests, RouterStep(q), UNCHANGED <<escVars, faults>>
  PROVE  RowsOK' /\ TrustChain'
  <1> DEFINE c == req[q].case
             k == req[q].run
  <1> USE DEF escVars
  <1>0. /\ RequestOK(q) /\ TypeOK /\ RowsOK /\ TypeOK' /\ History(q) /\ esc' = esc
        /\ \A d \in Cases, l \in Keys : Chained(d, l)
    BY RouterTypes, RouterHistory, ChainedRuns DEF IInv
  <1>1. ASSUME runs' = runs, \A d \in Cases : cases'[d].run = cases[d].run
        PROVE  RowsOK' /\ TrustChain'
    BY <1>0, <1>1, SameRuns DEF RowsOK
  <1>2. CASE StartClaim(q)
    <2>1. c \in Cases /\ k \in Keys
      BY <1>0, <1>2 DEF RequestOK, NamesRows, RunSteps, StartClaim
    <2>2. CASE cases[c].status \in Startable /\ runs[c][k].status = "absent"
      <3>1. SetRun(c, k, [NoRun EXCEPT !.status = "analyzing"])
        BY <1>2, <2>2 DEF StartClaim
      <3>2. /\ OnlyRun(c, k) /\ runs'[c][k].status = "analyzing"
            /\ runs'[c][k].review = "none" /\ runs'[c][k].pdf = "none"
        BY <1>0, <2>1, <3>1, RunStarted
      <3>3. \A d \in Cases : cases'[d].run = cases[d].run \/ (d = c /\ cases'[c].run = k)
        BY <1>0, <1>2, <2>1, <2>2, CaseClaimed DEF StartClaim
      <3>4. ChainedAfter(c, k)
        BY <3>2 DEF ChainedAfter
      <3> QED BY <1>0, <2>1, <3>2, <3>3, <3>4, OneRunWritten
    <2>3. CASE ~ (cases[c].status \in Startable /\ runs[c][k].status = "absent")
      BY <1>1, <1>2, <2>3 DEF StartClaim
    <2> QED BY <2>2, <2>3
  <1>3. CASE CompleteBind(q) \/ CompletePublish(q) \/ PdfPublish(q) \/ AdvanceCheck(q)
    BY <1>1, <1>3 DEF CompleteBind, CompletePublish, PdfPublish, AdvanceCheck
  <1>4. CASE CompleteCommit(q)
    <2>1. c \in Cases /\ k \in Keys /\ <<c, k, "snapshot">> \in disk
      BY <1>0, <1>4 DEF RequestOK, NamesRows, FilesWritten, RunSteps, CompleteCommit
    <2>2. SetRun(c, k, [runs[c][k] EXCEPT !.status = "completed"])
      BY <1>4 DEF CompleteCommit
    <2>3. /\ OnlyRun(c, k) /\ runs'[c][k].status = "completed"
          /\ runs'[c][k].review = runs[c][k].review /\ runs'[c][k].pdf = runs[c][k].pdf
      BY <1>0, <2>1, <2>2, RunCompleted
    <2>4. \A d \in Cases : cases'[d].run = cases[d].run
      BY <1>0, <1>4, <2>1, StatusSet DEF CompleteCommit, CaseStatus
    <2>5. ChainedAfter(c, k)
      <3>1. Chained(c, k) /\ disk \subseteq disk'
        BY <1>0, <2>1 DEF History
      <3> QED BY <2>1, <2>3, <3>1 DEF Chained, ChainedAfter
    <2> QED BY <1>0, <2>1, <2>3, <2>4, <2>5, OneRunWritten
  <1>5. CASE PdfCommit(q)
    <2>1. /\ c \in Cases /\ k \in Keys /\ <<c, k, "pdf">> \in disk
          /\ runs[c][k].status = "completed"
      BY <1>0, <1>5 DEF RequestOK, NamesRows, RunKnown, FilesWritten, RunSteps, PdfCommit
    <2>2. SetRun(c, k, [runs[c][k] EXCEPT !.pdf = "bound"])
      BY <1>5 DEF PdfCommit
    <2>3. /\ OnlyRun(c, k) /\ runs'[c][k].pdf = "bound"
          /\ runs'[c][k].status = runs[c][k].status
          /\ runs'[c][k].review = runs[c][k].review
      BY <1>0, <2>1, <2>2, RunBound
    <2>4. ChainedAfter(c, k)
      <3>1. Chained(c, k) /\ disk \subseteq disk'
        BY <1>0, <2>1 DEF History
      <3> QED BY <2>1, <2>3, <3>1 DEF Chained, ChainedAfter
    <2>5. \A d \in Cases : cases'[d].run = cases[d].run
      BY <1>5 DEF PdfCommit
    <2> QED BY <1>0, <2>1, <2>3, <2>4, <2>5, OneRunWritten
  <1>6. CASE ReviewCommit(q)
    <2>1. /\ c \in Cases /\ k \in Keys /\ req[q].arg \in Verdict
          /\ runs[c][k].status # "absent"
          /\ req[q].arg = "approved" => runs[c][k].pdf = "bound"
      BY <1>0, <1>6 DEF RequestOK, NamesRows, RunKnown, RunSteps, ReviewCommit
    <2>2. CASE SetRun(c, k, [runs[c][k] EXCEPT !.review = req[q].arg])
      <3>1. /\ OnlyRun(c, k) /\ runs'[c][k].review = req[q].arg
            /\ runs'[c][k].status = runs[c][k].status
            /\ runs'[c][k].pdf = runs[c][k].pdf
        <4>1. TypeOK /\ c \in Cases /\ k \in Keys /\ req[q].arg \in Verdict
          BY <1>0, <2>1
        <4> HIDE DEF c, k
        <4> QED BY <2>2, <4>1, RunReviewed
      <3>2. ChainedAfter(c, k)
        <4>1. Chained(c, k) /\ disk \subseteq disk'
          BY <1>0, <2>1 DEF History
        <4> QED BY <2>1, <3>1, <4>1 DEF Chained, ChainedAfter
      <3>3. \A d \in Cases : cases'[d].run = cases[d].run
        BY <1>6 DEF ReviewCommit
      <3> QED BY <1>0, <2>1, <3>1, <3>2, <3>3, OneRunWritten
    <2> QED BY <1>1, <1>6, <2>2 DEF ReviewCommit
  <1>7. CASE AdvanceWrite(q)
    <2>1. c \in Cases /\ req[q].arg \in CaseStatus
      BY <1>0, <1>7 DEF RequestOK, NamesRows, CaseStatus, AdvanceWrite
    <2>2. SetStatus(c, req[q].arg) /\ runs' = runs
      BY <1>7 DEF AdvanceWrite
    <2> QED BY <1>0, <1>1, <2>1, <2>2, StatusSet
  <1> QED BY <1>2, <1>3, <1>4, <1>5, <1>6, <1>7 DEF RouterStep

LEMMA ExpertRows ==
  ASSUME IInv, NEW q \in Requests, ExpertStep(q), UNCHANGED faults
  PROVE  RowsOK' /\ TrustChain'
  <1> DEFINE c == req[q].case
  <1>0. RequestOK(q) /\ TypeOK /\ RowsOK /\ History(q)
    BY ExpertHistory DEF IInv
  <1>1. runs' = runs
    BY DEF ExpertStep, CreateLock, CreateRefused, CreateBill, CreateInsert, CreateConflict,
           BlockCase, DecideCount, Resolve, ReleaseCase, CloseEsc
  <1>2. CASE CreateLock(q) \/ CreateRefused(q) \/ CreateBill(q) \/ CreateConflict(q)
             \/ DecideCount(q)
    BY <1>0, <1>1, <1>2, SameRuns
       DEF CreateLock, CreateRefused, CreateBill, CreateConflict, DecideCount, escVars, RowsOK
  <1>3. CASE CreateInsert(q)
    <2>1. c \in Cases /\ req[q].esc \in Escalations
      BY <1>0, <1>3 DEF RequestOK, NamesRows, RunSteps, CreateInsert
    <2>2. \A d \in Cases : cases'[d].run = cases[d].run
      BY <1>0, <1>3, <2>1, StatusSet DEF CreateInsert, CaseStatus
    <2>3. \A e \in Escalations : esc'[e].status # "absent" => esc'[e].case \in Cases
      BY <1>0, <1>3, <2>1 DEF CreateInsert, SetEsc, TypeOK, RowsOK
    <2> QED BY <1>0, <1>1, <2>2, <2>3, SameRuns
  <1>4. ASSUME NEW st \in Final, req[q].at \in Deciding, CloseEsc(q, st),
               \A d \in Cases : cases'[d].run = cases[d].run
        PROVE  RowsOK' /\ TrustChain'
    <2>1. \A e \in Escalations : esc'[e].status # "absent" => esc'[e].case \in Cases
      BY <1>0, <1>4, Closed DEF RowsOK
    <2> QED BY <1>0, <1>1, <1>4, <2>1, SameRuns
  <1>5. CASE BlockCase(q)
    <2>1. c \in Cases
      BY <1>0, <1>5 DEF RequestOK, NamesRows, Deciding, BlockCase
    <2>2. \A d \in Cases : cases'[d].run = cases[d].run
      BY <1>0, <1>5, <2>1, StatusSet DEF BlockCase, CaseStatus
    <2> QED BY <1>4, <1>5, <2>2 DEF BlockCase, Deciding, Final
  <1>6. CASE Resolve(q)
    BY <1>4, <1>6 DEF Resolve, Deciding, Final
  <1>7. CASE ReleaseCase(q)
    <2>1. c \in Cases
      BY <1>0, <1>7 DEF RequestOK, NamesRows, Deciding, ReleaseCase
    <2>2. \A d \in Cases : cases'[d].run = cases[d].run
      BY <1>0, <1>7, <2>1, StatusSet DEF ReleaseCase, CaseStatus
    <2> QED BY <1>4, <1>7, <2>2 DEF ReleaseCase, Deciding, Final
  <1> QED BY <1>2, <1>3, <1>5, <1>6, <1>7 DEF ExpertStep

-----------------------------------------------------------------------------
(* The inductive invariant *)
LEMMA RequestStep ==
  ASSUME IInv, NEW q \in Requests,
         \/ Ask(q)
         \/ Handle(q)
         \/ Crash(q)
         \/ DeadlockVictim(q)
  PROVE  IInv' /\ History(q)
  <1>1. ASSUME TypeOK', RowsOK', TrustChain', History(q), RequestOK(q)'
        PROVE  IInv' /\ History(q)
    <2>1. \A p \in Requests \ {q} : RequestOK(p)'
      BY <1>1, OthersKeep
    <2> QED BY <1>1, <2>1 DEF IInv
  <1>2. CASE Ask(q)
    <2>1. /\ cases' = cases /\ runs' = runs /\ esc' = esc
      BY <1>2 DEF Ask, RouterBegin, ExpertBegin, ExpertDecides, StartRead, CompleteRead,
         PdfRead, ReviewRead, AdvanceRead, CreateRead, DecideLock, escVars
    <2>2. \A e \in Escalations : esc'[e].status # "absent" => esc'[e].case \in Cases
      BY <2>1 DEF IInv, RowsOK
    <2> QED BY <1>1, <1>2, <2>1, <2>2, AskHistory, AskTypes, SameRuns
  <1>3. CASE RouterStep(q) /\ UNCHANGED <<escVars, faults>>
    BY <1>1, <1>3, RouterHistory, RouterTypes, RouterRows
  <1>4. CASE ExpertStep(q) /\ UNCHANGED faults
    BY <1>1, <1>4, ExpertHistory, ExpertTypes, ExpertRows
  <1>5. ASSUME Rollback(q), ReleaseEsc(q), faults' \in 0..MaxFaults
        PROVE  IInv' /\ History(q)
    <2>1. \A e \in Escalations : esc'[e].status # "absent" => esc'[e].case \in Cases
      BY <1>5 DEF IInv, RowsOK, ReleaseEsc
    <2>2. cases' = cases /\ runs' = runs
      BY <1>5 DEF Rollback
    <2> QED BY <1>1, <1>5, <2>1, <2>2, RollbackHistory, RollbackTypes, SameRuns
  <1>6. CASE Crash(q)
    <2>1. faults' \in 0..MaxFaults
      BY <1>6, FaultAssumption DEF Crash, IInv, TypeOK
    <2> QED BY <1>5, <1>6, <2>1 DEF Crash
  <1>7. CASE DeadlockVictim(q)
    BY <1>5, <1>7 DEF DeadlockVictim, IInv, TypeOK
  <1> QED BY <1>2, <1>3, <1>4, <1>6, <1>7 DEF Handle

LEMMA WorkStep ==
  ASSUME IInv, NEW e \in Escalations, ExpertWork(e), UNCHANGED faults
  PROVE  IInv' /\ History(NoRequest)
  <1>1. /\ UNCHANGED <<cases, runs, disk, caseLock, runLock, req, escLock>>
        /\ esc' \in [Escalations -> Escalation]
        /\ esc'[e].case = esc[e].case /\ esc[e].status \in Active
        /\ \A f \in Escalations \ {e} : esc'[f] = esc[f]
    BY ExpertWorkKeeps DEF pilotVars
  <1>2. TypeOK'
    BY <1>1 DEF IInv, TypeOK
  <1>3. \A f \in Escalations : esc'[f].status # "absent" => esc'[f].case \in Cases
    BY <1>1 DEF IInv, RowsOK, Active
  <1>4. RowsOK' /\ TrustChain'
    BY <1>1, <1>3, ExpertWorkHistory, SameRuns
  <1>5. \A p \in Requests : RequestOK(p)'
    BY ExpertWorkHistory, OthersKeep, PilotAssumption
  <1> QED BY <1>2, <1>4, <1>5, ExpertWorkHistory DEF IInv

LEMMA Stutter ==
  ASSUME IInv, UNCHANGED vars
  PROVE  IInv' /\ History(NoRequest)
  <1> USE DEF vars
  <1>1. TypeOK' /\ RowsOK' /\ TrustChain'
    BY DEF IInv, TypeOK, RowsOK, TrustChain
  <1>2. History(NoRequest)
    BY DEF History
  <1>3. \A p \in Requests : RequestOK(p)'
    BY <1>2, OthersKeep, PilotAssumption
  <1> QED BY <1>1, <1>2, <1>3 DEF IInv

LEMMA StepIInv ==
  ASSUME IInv, [Next]_vars
  PROVE  /\ IInv'
         /\ \E q \in Requests \cup {NoRequest} : History(q)
  BY RequestStep, WorkStep, Stutter DEF Next

(* Types, rows, the chain of trust and what every request relies on hold   *)
(* together: no statement of a handler breaks what another one has read.   *)
THEOREM Inductive == Spec => []IInv
  <1>1. IInv /\ [Next]_vars => IInv'
    BY StepIInv
  <1> QED BY InitIInv, <1>1, PTL DEF Spec

(* Every column and every request keeps its type, for any number of cases, *)
(* keys, escalations, concurrent requests and deaths.                      *)
THEOREM TypeCorrect == Spec => []TypeOK
  BY Inductive, PTL DEF IInv

(* Whatever the database binds is on disk, and an approval binds the PDF   *)
(* of a completed run, whatever interleaves and dies.                      *)
THEOREM ChainOfTrust == Spec => []TrustChain
  BY Inductive, PTL DEF IInv

(* A completed run, a verdict and a bound PDF are never undone.            *)
THEOREM HistoryImmutable == Spec => RunHistoryKept
  <1>1. IInv /\ [Next]_vars =>
          [\A c \in Cases, k \in Keys :
             /\ runs[c][k].status = "completed" => runs[c][k].status' = "completed"
             /\ runs[c][k].review # "none" => runs[c][k].review' = runs[c][k].review
             /\ runs[c][k].pdf = "bound" => runs[c][k].pdf' = "bound"]_vars
    BY StepIInv DEF History
  <1> QED BY Inductive, <1>1, PTL DEF Spec, RunHistoryKept

-----------------------------------------------------------------------------
(* Final decisions *)
Decided == \A e \in Escalations : esc[e].status \in Final => esc'[e] = esc[e]

LEMMA DecidedStep ==
  ASSUME IInv, [Next]_vars
  PROVE  Decided
  <1> USE DEF Decided
  <1>1. ASSUME esc' = esc PROVE Decided
    BY <1>1
  <1>2. ASSUME NEW q \in Requests, NEW st \in Final, req[q].at \in Deciding, CloseEsc(q, st)
        PROVE  Decided
    BY <1>2, Closed DEF Final
  <1>3. ASSUME NEW q \in Requests, CreateInsert(q)
        PROVE  Decided
    <2>1. /\ esc[req[q].esc].status = "absent"
          /\ \A e \in Escalations : e # req[q].esc => esc'[e] = esc[e]
      BY <1>3 DEF CreateInsert, SetEsc, IInv, TypeOK
    <2> QED BY <2>1 DEF Final
  <1>4. ASSUME NEW e \in Escalations, ExpertWork(e)
        PROVE  Decided
    BY <1>4, ExpertWorkKeeps DEF Final, Active
  <1>5. ASSUME NEW q \in Requests, ExpertStep(q)
        PROVE  Decided
    <2>1. CASE \/ CreateLock(q) \/ CreateRefused(q) \/ CreateBill(q)
               \/ CreateConflict(q) \/ DecideCount(q)
      BY <1>1, <2>1 DEF CreateLock, CreateRefused, CreateBill, CreateConflict, DecideCount,
         escVars
    <2>2. CASE BlockCase(q)
      BY <1>2, <2>2 DEF BlockCase, Deciding, Final
    <2>3. CASE Resolve(q)
      BY <1>2, <2>3 DEF Resolve, Deciding, Final
    <2>4. CASE ReleaseCase(q)
      BY <1>2, <2>4 DEF ReleaseCase, Deciding, Final
    <2> QED BY <1>3, <1>5, <2>1, <2>2, <2>3, <2>4 DEF ExpertStep
  <1>6. ASSUME NEW q \in Requests, Ask(q) \/ Crash(q) \/ DeadlockVictim(q)
        PROVE  Decided
    BY <1>1, <1>6 DEF Ask, RouterBegin, ExpertBegin, ExpertDecides, CreateRead, DecideLock,
       Crash, DeadlockVictim, ReleaseEsc, escVars
  <1>7. ASSUME NEW q \in Requests, Handle(q)
        PROVE  Decided
    BY <1>1, <1>5, <1>7 DEF Handle, escVars
  <1>8. CASE UNCHANGED vars
    BY <1>1, <1>8 DEF vars
  <1> QED BY <1>4, <1>6, <1>7, <1>8 DEF Next

(* The first final decision on an escalation is the only one, however many *)
(* experts decide at once.                                                 *)
THEOREM DecisionImmutable == Spec => FinalDecisionKept
  <1>1. IInv /\ [Next]_vars =>
          [\A e \in Escalations : esc[e].status \in Final => esc'[e] = esc[e]]_vars
    BY DecidedStep DEF Decided
  <1> QED BY Inductive, <1>1, PTL DEF Spec, FinalDecisionKept

-----------------------------------------------------------------------------
(* Exclusive publication.  Two requests about to commit the same snapshot  *)
(* can exist only after its run was completed: the rename of the second    *)
(* one is refused while the first one's file is there.                     *)
OneSnapshot ==
  \A p, q \in Requests :
    (/\ p # q /\ req[p].at = "complete" /\ req[q].at = "complete"
     /\ req[p].case = req[q].case /\ req[p].run = req[q].run)
    => runs[req[q].case][req[q].run].status = "completed"

LEMMA EntersComplete ==
  ASSUME IInv, NEW q \in Requests, req'[q].at = "complete",
         Ask(q) \/ Handle(q) \/ Crash(q) \/ DeadlockVictim(q)
  PROVE  /\ req'[q].case = req[q].case /\ req'[q].run = req[q].run
         /\ \/ runs[req[q].case][req[q].run].status = "completed"
            \/ <<req[q].case, req[q].run, "snapshot">> \notin disk
  <1>0. TypeOK /\ req[q] \in Request
    BY DEF IInv, TypeOK
  <1>1. ~ Answer(q)
    BY <1>0, ReqTypes DEF Idle, Asked
  <1>2. ASSUME NEW at \in Steps, Goto(q, at)
        PROVE  at = "complete" /\ req'[q].case = req[q].case /\ req'[q].run = req[q].run
    <2>1. req'[q] = [req[q] EXCEPT !.at = at]
      BY <1>0, <1>2, ReqTypes
    <2> QED BY <1>0, <2>1 DEF Request
  <1>3. ~ Ask(q)
    <2>1. ASSUME NEW r, Begin(q, r), r.at # "complete" PROVE FALSE
      BY <1>0, <2>1 DEF Begin, TypeOK
    <2> QED BY <2>1 DEF Ask, RouterBegin, ExpertBegin, ExpertDecides, StartRead,
            CompleteRead, PdfRead, ReviewRead, AdvanceRead, CreateRead, DecideLock, Asked
  <1>4. ~ Crash(q) /\ ~ DeadlockVictim(q)
    BY <1>1 DEF Crash, DeadlockVictim, Rollback
  <1>5. ~ CreateBill(q)
    BY <1>0, BillRow
  <1>6. ~ ExpertStep(q)
    BY <1>1, <1>2, <1>5 DEF ExpertStep, CreateLock, CreateRefused, CreateInsert,
       CreateConflict, BlockCase, DecideCount, Resolve, ReleaseCase, CloseEsc, Steps
  <1>7. CompleteBind(q) \/ CompletePublish(q)
    BY <1>1, <1>2, <1>3, <1>4, <1>6 DEF Handle, RouterStep, StartClaim, CompleteCommit,
       PdfPublish, PdfCommit, ReviewCommit, AdvanceCheck, AdvanceWrite, Steps
  <1>8. CASE CompleteBind(q)
    <2> DEFINE at == IF runs[req[q].case][req[q].run].status = "completed"
                     THEN "complete" ELSE "produce"
    <2>1. Goto(q, at) /\ at \in Steps
      BY <1>8 DEF CompleteBind, Steps
    <2> HIDE DEF at
    <2>2. at = "complete" /\ req'[q].case = req[q].case /\ req'[q].run = req[q].run
      BY <1>2, <2>1
    <2> QED BY <2>2 DEF at
  <1>9. CASE CompletePublish(q)
    BY <1>1, <1>2, <1>9 DEF CompletePublish, Steps
  <1> QED BY <1>7, <1>8, <1>9

LEMMA OneSnapshotStep ==
  ASSUME IInv, OneSnapshot, [Next]_vars
  PROVE  OneSnapshot'
  <1> SUFFICES ASSUME NEW p \in Requests, NEW q \in Requests,
                      p # q, req'[p].at = "complete", req'[q].at = "complete",
                      req'[p].case = req'[q].case, req'[p].run = req'[q].run
               PROVE  runs'[req'[q].case][req'[q].run].status = "completed"
    BY DEF OneSnapshot
  <1>1. ASSUME NEW r \in Requests, req[r].at = "complete"
        PROVE  /\ req[r].case \in Cases /\ req[r].run \in Keys
               /\ <<req[r].case, req[r].run, "snapshot">> \in disk
    BY <1>1 DEF IInv, RequestOK, NamesRows, FilesWritten, RunSteps
  <1>2. ASSUME NEW r, History(r), r # p, r # q
        PROVE  runs'[req'[q].case][req'[q].run].status = "completed"
    <2>1. req'[p] = req[p] /\ req'[q] = req[q]
      BY <1>2 DEF History
    <2>2. runs[req[q].case][req[q].run].status = "completed"
      BY <2>1 DEF OneSnapshot
    <2>3. req[q].case \in Cases /\ req[q].run \in Keys
      BY <1>1, <2>1
    <2>4. runs'[req[q].case][req[q].run].status = "completed"
      BY <1>2, <2>2, <2>3 DEF History
    <2> QED BY <2>1, <2>4
  <1>3. ASSUME NEW r \in Requests, NEW t \in Requests, r # t,
               req'[r].at = "complete", req'[t].at = "complete",
               req'[r].case = req'[t].case, req'[r].run = req'[t].run,
               Ask(r) \/ Handle(r) \/ Crash(r) \/ DeadlockVictim(r)
        PROVE  runs'[req'[t].case][req'[t].run].status = "completed"
    <2>1. History(r)
      BY <1>3, RequestStep
    <2>2. req'[t] = req[t]
      BY <1>3, <2>1 DEF History
    <2>3. runs[req[t].case][req[t].run].status = "completed"
      <3>1. <<req[t].case, req[t].run, "snapshot">> \in disk
        BY <1>1, <1>3, <2>2
      <3>2. req[r].case = req[t].case /\ req[r].run = req[t].run
        BY <1>3, <2>2, EntersComplete
      <3>3. \/ runs[req[r].case][req[r].run].status = "completed"
            \/ <<req[r].case, req[r].run, "snapshot">> \notin disk
        BY <1>3, EntersComplete
      <3> QED BY <3>1, <3>2, <3>3
    <2>4. req[t].case \in Cases /\ req[t].run \in Keys
      BY <1>1, <1>3, <2>2
    <2>5. runs'[req[t].case][req[t].run].status = "completed"
      BY <2>1, <2>3, <2>4 DEF History
    <2> QED BY <2>2, <2>5
  <1>4. ASSUME NEW r \in Requests, Ask(r) \/ Handle(r) \/ Crash(r) \/ DeadlockVictim(r)
        PROVE  runs'[req'[q].case][req'[q].run].status = "completed"
    <2>1. CASE r = q
      BY <1>3, <1>4, <2>1
    <2>2. CASE r = p
      BY <1>3, <1>4, <2>2
    <2>3. CASE r # q /\ r # p
      BY <1>2, <1>4, <2>3, RequestStep
    <2> QED BY <2>1, <2>2, <2>3
  <1>5. CASE UNCHANGED vars \/ \E e \in Escalations : ExpertWork(e) /\ UNCHANGED faults
    <2>1. History(NoRequest)
      BY <1>5, Stutter, WorkStep
    <2>2. NoRequest # p /\ NoRequest # q
      BY PilotAssumption
    <2> QED BY <1>2, <2>1, <2>2
  <1> QED BY <1>4, <1>5 DEF Next

LEMMA PublisherAlone == IInv /\ OneSnapshot => OnePublisher
  <1> SUFFICES ASSUME IInv, OneSnapshot, NEW p \in Requests, NEW q \in Requests,
                      NEW kind \in {"snapshot", "pdf"}, p # q,
                      Publishing(p, kind), Publishing(q, kind),
                      req[p].case = req[q].case, req[p].run = req[q].run
               PROVE  FALSE
    BY DEF OnePublisher
  <1>1. CASE kind = "snapshot"
    BY <1>1 DEF Publishing, OneSnapshot
  <1>2. CASE kind = "pdf"
    BY <1>2 DEF Publishing, IInv, RequestOK, OwnsLocks
  <1> QED BY <1>1, <1>2

(* Never two requests between the rename of a generation and its commit:   *)
(* for any number of concurrent completions and PDF publications.          *)
THEOREM PublicationExclusive == Spec => []OnePublisher
  <1>1. Init => OneSnapshot
    BY DEF Init, PilotInit, OneSnapshot, Idle, Asked
  <1> QED BY Inductive, <1>1, OneSnapshotStep, PublisherAlone, PTL DEF Spec

-----------------------------------------------------------------------------
(* Orphans *)
LEMMA EntersArtifact ==
  ASSUME IInv, NEW q \in Requests, req'[q].at = "artifact",
         Ask(q) \/ Handle(q) \/ Crash(q) \/ DeadlockVictim(q)
  PROVE  /\ req'[q].case = req[q].case /\ req'[q].run = req[q].run
         /\ <<req[q].case, req[q].run, "pdf">> \notin disk
  <1>0. TypeOK /\ req[q] \in Request
    BY DEF IInv, TypeOK
  <1>1. ~ Answer(q)
    BY <1>0, ReqTypes DEF Idle, Asked
  <1>2. ASSUME NEW at \in Steps, Goto(q, at)
        PROVE  at = "artifact" /\ req'[q].case = req[q].case /\ req'[q].run = req[q].run
    <2>1. req'[q] = [req[q] EXCEPT !.at = at]
      BY <1>0, <1>2, ReqTypes
    <2> QED BY <1>0, <2>1 DEF Request
  <1>3. ~ Ask(q)
    <2>1. ASSUME NEW r, Begin(q, r), r.at # "artifact" PROVE FALSE
      BY <1>0, <2>1 DEF Begin, TypeOK
    <2> QED BY <2>1 DEF Ask, RouterBegin, ExpertBegin, ExpertDecides, StartRead,
            CompleteRead, PdfRead, ReviewRead, AdvanceRead, CreateRead, DecideLock, Asked
  <1>4. ~ Crash(q) /\ ~ DeadlockVictim(q)
    BY <1>1 DEF Crash, DeadlockVictim, Rollback
  <1>5. ~ CreateBill(q)
    BY <1>0, BillRow
  <1>6. ~ ExpertStep(q)
    BY <1>1, <1>2, <1>5 DEF ExpertStep, CreateLock, CreateRefused, CreateInsert,
       CreateConflict, BlockCase, DecideCount, Resolve, ReleaseCase, CloseEsc, Steps
  <1>7. PdfPublish(q)
    BY <1>1, <1>2, <1>3, <1>4, <1>6 DEF Handle, RouterStep, StartClaim, CompleteBind,
       CompletePublish, CompleteCommit, PdfCommit, ReviewCommit, AdvanceCheck,
       AdvanceWrite, Steps
  <1> QED BY <1>1, <1>2, <1>7 DEF PdfPublish, Steps

(* A run is completed, and a PDF bound, by the request that published it.  *)
LEMMA BoundByPublisher ==
  ASSUME IInv, [Next]_vars, NEW c \in Cases, NEW k \in Keys
  PROVE  /\ runs[c][k].status # "completed" /\ runs'[c][k].status = "completed" =>
              \E q \in Requests : Publishing(q, "snapshot") /\ req[q].case = c /\ req[q].run = k
         /\ runs[c][k].pdf = "none" /\ runs'[c][k].pdf # "none" =>
              \E q \in Requests : Publishing(q, "pdf") /\ req[q].case = c /\ req[q].run = k
  <1> DEFINE Goal ==
        /\ runs[c][k].status # "completed" /\ runs'[c][k].status = "completed" =>
             \E q \in Requests : Publishing(q, "snapshot") /\ req[q].case = c /\ req[q].run = k
        /\ runs[c][k].pdf = "none" /\ runs'[c][k].pdf # "none" =>
             \E q \in Requests : Publishing(q, "pdf") /\ req[q].case = c /\ req[q].run = k
  <1>1. ASSUME runs'[c][k] = runs[c][k] PROVE Goal
    BY <1>1
  <1>2. ASSUME NEW q \in Requests, RouterStep(q) PROVE Goal
    <2>0. TypeOK /\ RowsOK /\ NamesRows(q)
      BY DEF IInv, RequestOK
    <2>1. CASE StartClaim(q)
      <3>1. req[q].case \in Cases /\ req[q].run \in Keys
        BY <2>0, <2>1 DEF NamesRows, RunSteps, StartClaim
      <3>2. CASE SetRun(req[q].case, req[q].run, [NoRun EXCEPT !.status = "analyzing"])
        BY <2>0, <3>1, <3>2, RunStarted DEF OnlyRun
      <3> QED BY <1>1, <2>1, <3>2 DEF StartClaim
    <2>2. CASE CompleteCommit(q)
      <3>1. req[q].case \in Cases /\ req[q].run \in Keys /\ req[q].at = "complete"
        BY <2>0, <2>2 DEF NamesRows, RunSteps, CompleteCommit
      <3>2. SetRun(req[q].case, req[q].run,
                   [runs[req[q].case][req[q].run] EXCEPT !.status = "completed"])
        BY <2>2 DEF CompleteCommit
      <3>3. /\ OnlyRun(req[q].case, req[q].run)
            /\ runs'[req[q].case][req[q].run].pdf = runs[req[q].case][req[q].run].pdf
        BY <2>0, <3>1, <3>2, RunCompleted
      <3>4. CASE req[q].case = c /\ req[q].run = k
        BY <3>1, <3>3, <3>4 DEF Publishing
      <3>5. CASE ~ (req[q].case = c /\ req[q].run = k)
        BY <1>1, <3>3, <3>5 DEF OnlyRun
      <3> QED BY <3>4, <3>5
    <2>3. CASE PdfCommit(q)
      <3>1. req[q].case \in Cases /\ req[q].run \in Keys /\ req[q].at = "artifact"
        BY <2>0, <2>3 DEF NamesRows, RunSteps, PdfCommit
      <3>2. SetRun(req[q].case, req[q].run,
                   [runs[req[q].case][req[q].run] EXCEPT !.pdf = "bound"])
        BY <2>3 DEF PdfCommit
      <3>3. /\ OnlyRun(req[q].case, req[q].run)
            /\ runs'[req[q].case][req[q].run].status = runs[req[q].case][req[q].run].status
        BY <2>0, <3>1, <3>2, RunBound
      <3>4. CASE req[q].case = c /\ req[q].run = k
        BY <3>1, <3>3, <3>4 DEF Publishing
      <3>5. CASE ~ (req[q].case = c /\ req[q].run = k)
        BY <1>1, <3>3, <3>5 DEF OnlyRun
      <3> QED BY <3>4, <3>5
    <2>4. CASE ReviewCommit(q)
      <3>1. req[q].case \in Cases /\ req[q].run \in Keys /\ req[q].arg \in Verdict
        BY <2>0, <2>4 DEF NamesRows, RunSteps, ReviewCommit
      <3>2. CASE SetRun(req[q].case, req[q].run,
                        [runs[req[q].case][req[q].run] EXCEPT !.review = req[q].arg])
        <4>1. /\ OnlyRun(req[q].case, req[q].run)
              /\ runs'[req[q].case][req[q].run].status = runs[req[q].case][req[q].run].status
              /\ runs'[req[q].case][req[q].run].pdf = runs[req[q].case][req[q].run].pdf
          BY <2>0, <3>1, <3>2, RunReviewed
        <4>2. CASE req[q].case = c /\ req[q].run = k
          BY <4>1, <4>2
        <4>3. CASE ~ (req[q].case = c /\ req[q].run = k)
          BY <1>1, <4>1, <4>3 DEF OnlyRun
        <4> QED BY <4>2, <4>3
      <3> QED BY <1>1, <2>4, <3>2 DEF ReviewCommit
    <2>5. CASE \/ CompleteBind(q) \/ CompletePublish(q) \/ PdfPublish(q)
               \/ AdvanceCheck(q) \/ AdvanceWrite(q)
      BY <1>1, <2>5 DEF CompleteBind, CompletePublish, PdfPublish, AdvanceCheck, AdvanceWrite
    <2> QED BY <1>2, <2>1, <2>2, <2>3, <2>4, <2>5 DEF RouterStep
  <1>3. ASSUME NEW q \in Requests, Ask(q) \/ ExpertStep(q) \/ Crash(q) \/ DeadlockVictim(q)
        PROVE Goal
    BY <1>1, <1>3 DEF Ask, RouterBegin, ExpertBegin, ExpertDecides, StartRead, CompleteRead,
       PdfRead, ReviewRead, AdvanceRead, CreateRead, DecideLock, ExpertStep, CreateLock,
       CreateRefused, CreateBill, CreateInsert, CreateConflict, BlockCase, DecideCount,
       Resolve, ReleaseCase, CloseEsc, Crash, DeadlockVictim, Rollback
  <1>4. ASSUME NEW e \in Escalations, ExpertWork(e) PROVE Goal
    BY <1>1, <1>4, ExpertWorkKeeps DEF pilotVars
  <1>5. CASE UNCHANGED vars
    BY <1>1, <1>5 DEF vars
  <1>6. Goal
    BY <1>2, <1>3, <1>4, <1>5 DEF Next, Handle
  <1> QED BY <1>6

LEMMA OrphanStep ==
  ASSUME IInv, [Next]_vars, NEW c \in Cases, NEW k \in Keys,
         NEW kind \in {"snapshot", "pdf"}, Orphan(c, k, kind)
  PROVE  Orphan(c, k, kind)'
  <1>0. PICK r \in Requests \cup {NoRequest} : History(r)
    BY StepIInv
  <1>1. <<c, k, kind>> \in disk'
    BY <1>0 DEF Orphan, History
  <1>2. IF kind = "pdf" THEN runs'[c][k].pdf = "none" ELSE runs'[c][k].status # "completed"
    BY BoundByPublisher DEF Orphan
  <1>3. ASSUME NEW p \in Requests, Publishing(p, kind)', req'[p].case = c, req'[p].run = k
        PROVE  FALSE
    <2>1. ASSUME NEW q, History(q), p # q
          PROVE  FALSE
      <3>1. req'[p] = req[p]
        BY <2>1 DEF History
      <3>2. runs'[c][k].status # "completed" => runs[c][k].status # "completed"
        BY <2>1 DEF History
      <3> QED BY <1>3, <3>1, <3>2 DEF Publishing, Orphan
    <2>2. CASE Ask(p) \/ Handle(p) \/ Crash(p) \/ DeadlockVictim(p)
      <3>1. CASE kind = "snapshot"
        BY <1>3, <2>2, <3>1, EntersComplete DEF Publishing, Orphan
      <3>2. CASE kind = "pdf"
        BY <1>3, <2>2, <3>2, EntersArtifact DEF Publishing, Orphan
      <3> QED BY <3>1, <3>2
    <2>3. ASSUME NEW q \in Requests, q # p,
                 Ask(q) \/ Handle(q) \/ Crash(q) \/ DeadlockVictim(q)
          PROVE  FALSE
      BY <2>1, <2>3, RequestStep
    <2>4. CASE UNCHANGED vars \/ \E e \in Escalations : ExpertWork(e) /\ UNCHANGED faults
      BY <2>1, <2>4, Stutter, WorkStep, PilotAssumption
    <2> QED BY <2>2, <2>3, <2>4 DEF Next
  <1> QED BY <1>1, <1>2, <1>3 DEF Orphan

(* A generation left on disk by a publisher that died is never bound to a  *)
(* row afterwards: a retry refuses the file instead of adopting it.        *)
THEOREM OrphansStayOrphans == Spec => OrphansNeverAdopted
  <1>1. IInv /\ [Next]_vars =>
          [\A c \in Cases, k \in Keys, kind \in {"snapshot", "pdf"} :
             Orphan(c, k, kind) => Orphan(c, k, kind)']_vars
    BY OrphanStep
  <1> QED BY Inductive, <1>1, PTL DEF Spec, OrphansNeverAdopted

=============================================================================
