-------------------------- MODULE PilotSerialProofs --------------------------
(***************************************************************************)
(* PilotWorkflow while no request commits what another request about the   *)
(* same case has read and still relies on (NoConflicts): then every        *)
(* request acts as if it had read when it commits, the rows keep the       *)
(* handover rules and implement CaseLifecycle, for every set of cases,     *)
(* keys, escalations and requests, whatever overlaps otherwise and         *)
(* whichever requests die.  The second part asks how little of that each   *)
(* rule needs.                                                             *)
(***************************************************************************)
EXTENDS PilotWorkflowProofs

USE DEF Completing, Advancing

(* At most one request about a case is in progress.                        *)
OnePerCase ==
  \A p, q \in Requests :
    req[p] # Idle /\ req[q] # Idle /\ req[p].case = req[q].case => p = q

LEMMA OnePerCaseConflictFree == OnePerCase => NoConflicts
  <1>1. \A p \in Requests : req[p].at # "idle" => req[p] # Idle
    BY DEF Idle, Asked
  <1>2. \A p, q \in Requests : Conflict(p, q) => req[p].at # "idle" /\ req[q].at # "idle"
    BY DEF Conflict, Holding
  <1> QED BY <1>1, <1>2 DEF OnePerCase, NoConflicts

Reached == CaseStatus \ {"collecting_documents", "failed"}

(* The rows between two commits: a case is analyzing while its current    *)
(* run is, handed over on the approval of that run, and in expert review   *)
(* exactly while one severe escalation is open.                            *)
AnalyzingTogether ==
  \A c \in Cases :
    cases[c].run # NoKey /\ runs[c][cases[c].run].status = "analyzing" =>
      cases[c].status = "analyzing"

HeldByOne ==
  /\ \A c \in Cases : ActiveBlocking(c) # {} <=> cases[c].status = "expert_review"
  /\ \A c \in Cases : \A e, f \in ActiveBlocking(c) : e = f
  /\ \A e \in Escalations : esc[e].status # "absent" => esc[e].kind \in Kind

RowsSerial ==
  /\ \A c \in Cases : cases[c].status \in Reached
  /\ AnalyzingTogether /\ HandoverReviewed /\ HeldByOne

(* What a request relies on of what it has read is still what the rows     *)
(* hold, and the case row of a new escalation is locked.                   *)
CaseRead(q) ==
  LET c == req[q].case
      k == req[q].run
  IN  /\ req[q].at \in Completing =>
           cases[c].run = k /\ runs[c][k].status = "analyzing" /\ req[q].seen = "analyzing"
      /\ req[q].at = "review" /\ cases[c].run = k /\ runs[c][k].review = "none" =>
           cases[c].status = "operator_review"
      /\ req[q].at \in Advancing =>
           cases[c].run = k /\ CanMove(cases[c].status, req[q].arg)
      /\ req[q].at = "write" /\ req[q].arg # "archived" => CurrentApproved(c)
      /\ req[q].at \in {"bill", "insert"} => Permitted(c, k) /\ caseLock[c] = q

EscalationRead(q) ==
  LET c == req[q].case
      e == req[q].esc
  IN  /\ req[q].at \in Deciding => esc[e].case = c
      /\ req[q].at = "block" => esc[e].kind \in Blocking
      /\ req[q].at = "release" => ActiveBlocking(c) \subseteq {e}
      /\ req[q].at = "resolve" => esc[e].kind \notin Blocking

Reads(q) == CaseRead(q) /\ EscalationRead(q)

SerialInv == RowsSerial /\ \A q \in Requests : Reads(q)

-----------------------------------------------------------------------------
(* The rows that a step leaves alone. *)
SameReviews(c) ==
  \A k \in Keys : /\ runs'[c][k].status = runs[c][k].status
                  /\ runs'[c][k].review = runs[c][k].review

KindsStored == \A e \in Escalations : esc'[e].status # "absent" => esc'[e].kind \in Kind

Kept(c) == cases'[c] = cases[c] /\ SameReviews(c) /\ ActiveBlocking(c)' = ActiveBlocking(c)

LEMMA OtherCases ==
  ASSUME TypeOK, NEW c \in Cases, NEW s \in CaseStatus, SetStatus(c, s)
  PROVE  \A d \in Cases \ {c} : cases'[d] = cases[d]
  BY DEF TypeOK, SetStatus

LEMMA KeptCase ==
  ASSUME IInv, NEW c \in Cases, Kept(c)
  PROVE  CurrentApproved(c)' = CurrentApproved(c)
  <1>1. cases[c].run \in Keys \cup {NoKey}
    BY DEF IInv, TypeOK, Case
  <1> QED BY <1>1 DEF Kept, SameReviews, CurrentApproved

(* The rows of one case are written: what the invariant asks of that case. *)
LEMMA WrittenCase ==
  ASSUME IInv, RowsSerial, KindsStored, NEW c \in Cases, \A d \in Cases \ {c} : Kept(d),
         cases'[c].status \in Reached,
         cases'[c].run # NoKey /\ runs'[c][cases'[c].run].status = "analyzing" =>
           cases'[c].status = "analyzing",
         cases'[c].status \in HandedOver => CurrentApproved(c)',
         ActiveBlocking(c)' # {} <=> cases'[c].status = "expert_review",
         \A e, f \in ActiveBlocking(c)' : e = f
  PROVE  RowsSerial'
  <1>0. \A d \in Cases : cases[d].run \in Keys \cup {NoKey}
    BY DEF IInv, TypeOK, Case
  <1>1. \A d \in Cases : cases'[d].status \in Reached
    BY DEF RowsSerial, Kept
  <1>2. AnalyzingTogether'
    BY <1>0 DEF RowsSerial, AnalyzingTogether, Kept, SameReviews
  <1>3. HandoverReviewed'
    <2>1. \A d \in Cases \ {c} : CurrentApproved(d)' = CurrentApproved(d)
      BY KeptCase
    <2> QED BY <2>1 DEF RowsSerial, HandoverReviewed, Kept
  <1>4. HeldByOne'
    BY DEF RowsSerial, HeldByOne, Kept, KindsStored
  <1> QED BY <1>1, <1>2, <1>3, <1>4 DEF RowsSerial

LEMMA KeptRows ==
  ASSUME IInv, RowsSerial, KindsStored, \A c \in Cases : Kept(c)
  PROVE  RowsSerial'
  <1>1. CASE Cases = {}
    BY <1>1 DEF RowsSerial, AnalyzingTogether, HandoverReviewed, HeldByOne, KindsStored
  <1>2. ASSUME NEW c \in Cases
        PROVE  RowsSerial'
    <2>1. CurrentApproved(c)' = CurrentApproved(c)
      BY KeptCase
    <2>2. cases[c].run \in Keys \cup {NoKey}
      BY DEF IInv, TypeOK, Case
    <2> QED BY <2>1, <2>2, WrittenCase
            DEF RowsSerial, AnalyzingTogether, HandoverReviewed, HeldByOne, Kept, SameReviews
  <1> QED BY <1>1, <1>2

-----------------------------------------------------------------------------
(* The mapping to CaseLifecycle *)
Moves == Lifecycle!Next \/ UNCHANGED Lifecycle!vars

LEMMA StatusMapped ==
  ASSUME NEW c \in Cases, NEW s, cases'[c].status = s,
         \A d \in Cases \ {c} : cases'[d].status = cases[d].status
  PROVE  [d \in Cases |-> cases[d].status]' =
           [[d \in Cases |-> cases[d].status] EXCEPT ![c] = s]
  OBVIOUS

LEMMA StatusUnmapped ==
  ASSUME \A d \in Cases : cases'[d].status = cases[d].status
  PROVE  [d \in Cases |-> cases[d].status]' = [d \in Cases |-> cases[d].status]
  OBVIOUS

LEMMA ApprovedMapped ==
  ASSUME NEW c \in Cases, NEW b \in BOOLEAN, CurrentApproved(c)' = b,
         \A d \in Cases \ {c} : CurrentApproved(d)' = CurrentApproved(d)
  PROVE  [d \in Cases |-> CurrentApproved(d)]' =
           [[d \in Cases |-> CurrentApproved(d)] EXCEPT ![c] = b]
  OBVIOUS

LEMMA ApprovedUnmapped ==
  ASSUME \A d \in Cases : CurrentApproved(d)' = CurrentApproved(d)
  PROVE  [d \in Cases |-> CurrentApproved(d)]' = [d \in Cases |-> CurrentApproved(d)]
  OBVIOUS

LEMMA HeldMapped ==
  ASSUME NEW c \in Cases, NEW b \in BOOLEAN, (ActiveBlocking(c)' # {}) = b,
         \A d \in Cases \ {c} : ActiveBlocking(d)' = ActiveBlocking(d)
  PROVE  [d \in Cases |-> ActiveBlocking(d) # {}]' =
           [[d \in Cases |-> ActiveBlocking(d) # {}] EXCEPT ![c] = b]
  OBVIOUS

LEMMA HeldUnmapped ==
  ASSUME \A d \in Cases : ActiveBlocking(d)' = ActiveBlocking(d)
  PROVE  [d \in Cases |-> ActiveBlocking(d) # {}]' = [d \in Cases |-> ActiveBlocking(d) # {}]
  OBVIOUS

LEMMA KeptMoves ==
  ASSUME IInv, \A c \in Cases : Kept(c)
  PROVE  Moves
  <1>1. \A d \in Cases : CurrentApproved(d)' = CurrentApproved(d)
    BY KeptCase
  <1>2. \A d \in Cases : /\ cases'[d].status = cases[d].status
                         /\ ActiveBlocking(d)' = ActiveBlocking(d)
    BY DEF Kept
  <1> QED BY <1>1, <1>2, StatusUnmapped, ApprovedUnmapped, HeldUnmapped DEF Moves, Lifecycle!vars

-----------------------------------------------------------------------------
(* Steps that write neither a case, an escalation nor a verdict *)
Elsewhere(q) == \A c \in Cases \ {req[q].case} : Kept(c)

SerialStep(q) == RowsSerial' /\ Moves /\ Reads(q)' /\ Elsewhere(q)

LEMMA IdleReads ==
  ASSUME NEW q, req'[q] = Idle
  PROVE  Reads(q)'
  BY DEF Idle, Asked, Reads, CaseRead, EscalationRead, Deciding

LEMMA QuietStep ==
  ASSUME IInv, RowsSerial, cases' = cases, esc' = esc, \A c \in Cases : SameReviews(c)
  PROVE  RowsSerial' /\ Moves /\ \A c \in Cases : Kept(c)
  <1>1. \A c \in Cases : Kept(c)
    BY DEF Kept, ActiveBlocking
  <1>2. KindsStored
    BY DEF KindsStored, RowsSerial, HeldByOne
  <1> QED BY <1>1, <1>2, KeptRows, KeptMoves

LEMMA AskSerial ==
  ASSUME IInv, SerialInv, NEW q \in Requests, Ask(q)
  PROVE  SerialStep(q) /\ \A c \in Cases : Kept(c)
  <1> USE DEF SerialStep, Elsewhere
  <1>1. cases' = cases /\ runs' = runs /\ esc' = esc
    BY DEF Ask, RouterBegin, ExpertBegin, ExpertDecides, StartRead, CompleteRead,
       PdfRead, ReviewRead, AdvanceRead, CreateRead, DecideLock, escVars
  <1>2. RowsSerial' /\ Moves /\ \A d \in Cases : Kept(d)
    BY <1>1, QuietStep DEF SameReviews, SerialInv
  <1>3. \A at, c, k, e, seen, arg : Begin(q, Asked(at, c, k, e, seen, arg)) =>
          /\ req'[q].at = at /\ req'[q].case = c /\ req'[q].run = k
          /\ req'[q].esc = e /\ req'[q].seen = seen /\ req'[q].arg = arg
    BY DEF IInv, TypeOK, Begin, Asked
  <1>4. ASSUME NEW c \in Cases, RouterBegin(q, c)
        PROVE  Reads(q)'
    <2>1. ASSUME NEW k \in Keys, StartRead(q, c, k) \/ PdfRead(q, c, k)
          PROVE  Reads(q)'
      <3>1. req'[q].at \in {"start", "render"}
        BY <1>3, <2>1 DEF StartRead, PdfRead
      <3> QED BY <3>1 DEF Reads, CaseRead, EscalationRead, Deciding
    <2>2. ASSUME NEW k \in Keys, CompleteRead(q, c, k)
          PROVE  Reads(q)'
      <3>1. cases[c].status = "analyzing"
        BY <2>2, PilotAssumption DEF CompleteRead, SerialInv, RowsSerial, AnalyzingTogether
      <3>2. /\ req'[q].at = "bind" /\ req'[q].case = c /\ req'[q].run = k
            /\ req'[q].seen = "analyzing"
        BY <1>3, <2>2, <3>1 DEF CompleteRead
      <3> QED BY <1>1, <2>2, <3>2 DEF CompleteRead, Reads, CaseRead, EscalationRead, Deciding
    <2>3. ASSUME NEW k \in Keys, NEW verdict \in Verdict, ReviewRead(q, c, k, verdict)
          PROVE  Reads(q)'
      <3>1. req'[q].at = "review" /\ req'[q].case = c /\ req'[q].run = k
        BY <1>3, <2>3 DEF ReviewRead
      <3> QED BY <1>1, <2>3, <3>1 DEF ReviewRead, Reads, CaseRead, EscalationRead, Deciding
    <2>4. ASSUME NEW target \in {"client_ready", "delivered", "archived"},
                 AdvanceRead(q, c, target)
          PROVE  Reads(q)'
      <3>1. /\ req'[q].at = IF target = "archived" THEN "write" ELSE "check"
            /\ req'[q].case = c /\ req'[q].run = cases[c].run /\ req'[q].arg = target
        BY <1>3, <2>4 DEF AdvanceRead
      <3> QED BY <1>1, <2>4, <3>1 DEF AdvanceRead, Reads, CaseRead, EscalationRead, Deciding
    <2> QED BY <1>4, <2>1, <2>2, <2>3, <2>4 DEF RouterBegin
  <1>5. ASSUME NEW c \in Cases, ExpertBegin(q, c)
        PROVE  Reads(q)'
    <2>1. req'[q].at = "lockCase"
      BY <1>3, <1>5 DEF ExpertBegin, CreateRead
    <2> QED BY <2>1 DEF Reads, CaseRead, EscalationRead, Deciding
  <1>6. ASSUME NEW e \in Escalations, NEW decision \in FinalDecision, DecideLock(q, e, decision)
        PROVE  Reads(q)'
    <2>1. /\ req'[q].at = IF decision = "BLOCK_CASE" THEN "block" ELSE "count"
          /\ req'[q].case = esc[e].case /\ req'[q].esc = e
      BY <1>3, <1>6 DEF DecideLock
    <2>2. esc[e].kind \in Kind
      BY <1>6 DEF DecideLock, SerialInv, RowsSerial, HeldByOne
    <2>3. decision = "BLOCK_CASE" => esc[e].kind \in Blocking
      BY <1>6, <2>2 DEF DecideLock, Kind, Blocking
    <2> QED BY <1>1, <2>1, <2>3 DEF Reads, CaseRead, EscalationRead, Deciding
  <1> QED BY <1>2, <1>4, <1>5, <1>6 DEF Ask, ExpertDecides

(* A request that reads on: its row in req moves to the next statement. *)
LEMMA ReadOn ==
  ASSUME IInv, NEW q \in Requests, NEW at \in Steps, Goto(q, at)
  PROVE  /\ req'[q].at = at /\ req'[q].case = req[q].case /\ req'[q].run = req[q].run
         /\ req'[q].esc = req[q].esc /\ req'[q].seen = req[q].seen
         /\ req'[q].arg = req[q].arg
  <1>1. req[q] \in Request /\ req'[q] = [req[q] EXCEPT !.at = at]
    BY ReqTypes DEF IInv, TypeOK
  <1> QED BY <1>1 DEF Request

LEMMA Answered ==
  ASSUME IInv, NEW q \in Requests, Answer(q)
  PROVE  Reads(q)'
  BY ReqTypes, IdleReads DEF IInv

LEMMA ReadingSerial ==
  ASSUME IInv, SerialInv, NEW q \in Requests, UNCHANGED escVars,
         CompleteBind(q) \/ CompletePublish(q) \/ PdfPublish(q) \/ AdvanceCheck(q)
  PROVE  SerialStep(q) /\ \A c \in Cases : Kept(c)
  <1> USE DEF SerialStep, Elsewhere
  <1>0. cases' = cases /\ runs' = runs /\ esc' = esc
    BY DEF CompleteBind, CompletePublish, PdfPublish, AdvanceCheck, escVars
  <1>1. RowsSerial' /\ Moves /\ \A d \in Cases : Kept(d)
    BY <1>0, QuietStep DEF SameReviews, SerialInv
  <1>2. Reads(q) /\ RequestOK(q) /\ TypeOK
    BY DEF SerialInv, IInv
  <1>3. CASE CompleteBind(q)
    <2>1. Goto(q, "produce")
      BY <1>2, <1>3 DEF CompleteBind, Reads, CaseRead
    <2>2. "produce" \in Steps
      BY DEF Steps
    <2> QED BY <1>0, <1>1, <1>2, <1>3, <2>1, <2>2, ReadOn
            DEF CompleteBind, Reads, CaseRead, EscalationRead, Deciding
  <1>4. CASE CompletePublish(q)
    <2>1. "complete" \in Steps
      BY DEF Steps
    <2> QED BY <1>0, <1>1, <1>2, <1>4, <2>1, ReadOn, Answered
            DEF CompletePublish, Reads, CaseRead, EscalationRead, Deciding
  <1>5. CASE PdfPublish(q)
    <2>1. "artifact" \in Steps
      BY DEF Steps
    <2>2. Goto(q, "artifact") => req'[q].at = "artifact"
      BY <2>1, ReadOn
    <2>3. req'[q].at = "artifact" => Reads(q)'
      BY DEF Reads, CaseRead, EscalationRead, Deciding
    <2> QED BY <1>1, <1>5, <2>2, <2>3, Answered DEF PdfPublish
  <1>6. CASE AdvanceCheck(q)
    <2>1. ASSUME Goto(q, "write"), runs[req[q].case][req[q].run].review = "approved"
          PROVE  Reads(q)'
      <3>1. "write" \in Steps
        BY DEF Steps
      <3>2. /\ req'[q].at = "write" /\ req'[q].case = req[q].case
            /\ req'[q].run = req[q].run /\ req'[q].arg = req[q].arg
        BY <2>1, <3>1, ReadOn
      <3>3. PICK c, k : c = req[q].case /\ k = req[q].run
        OBVIOUS
      <3>4. cases[c].run = k /\ CanMove(cases[c].status, req[q].arg)
        BY <1>2, <1>6, <3>3 DEF AdvanceCheck, Reads, CaseRead
      <3>5. req[q].arg # "archived" => CurrentApproved(c)
        <4>1. req[q].arg # "archived" => cases[c].run # NoKey
          BY <1>2, <1>6, <3>3 DEF AdvanceCheck, RequestOK, CaseStarted
        <4> QED BY <2>1, <3>3, <3>4, <4>1 DEF CurrentApproved
      <3>6. CurrentApproved(c)' = CurrentApproved(c)
        BY <1>0 DEF CurrentApproved
      <3>7. CaseRead(q)'
        BY <1>0, <3>2, <3>3, <3>4, <3>5, <3>6 DEF CaseRead
      <3>8. EscalationRead(q)'
        BY <3>2 DEF EscalationRead, Deciding
      <3> QED BY <3>7, <3>8 DEF Reads
    <2>2. \/ Answer(q)
          \/ Goto(q, "write") /\ runs[req[q].case][req[q].run].review = "approved"
      BY <1>6 DEF AdvanceCheck
    <2>3. Reads(q)'
      BY <2>1, <2>2, Answered
    <2> QED BY <1>1, <2>3
  <1> QED BY <1>3, <1>4, <1>5, <1>6

(* A new escalation and a decision look at the case and the escalations.   *)
LEMMA ExpertReadingSerial ==
  ASSUME IInv, SerialInv, NEW q \in Requests,
         CreateLock(q) \/ CreateRefused(q) \/ CreateBill(q) \/ CreateConflict(q) \/ DecideCount(q)
  PROVE  SerialStep(q) /\ \A c \in Cases : Kept(c)
  <1> USE DEF SerialStep, Elsewhere
  <1>0. cases' = cases /\ runs' = runs /\ esc' = esc
    BY DEF CreateLock, CreateRefused, CreateBill, CreateConflict, DecideCount, escVars
  <1>1. RowsSerial' /\ Moves /\ \A d \in Cases : Kept(d)
    BY <1>0, QuietStep DEF SameReviews, SerialInv
  <1>2. Reads(q) /\ RequestOK(q) /\ TypeOK
    BY DEF SerialInv, IInv
  <1>3. CASE CreateLock(q)
    <2>1. "bill" \in Steps
      BY DEF Steps
    <2>2. req[q].case \in Cases
      BY <1>2, <1>3 DEF CreateLock, RequestOK, NamesRows, RunSteps
    <2>3. caseLock'[req[q].case] = q
      BY <1>2, <1>3, <2>2 DEF CreateLock, LockCase, TypeOK
    <2> QED BY <1>0, <1>1, <1>3, <2>1, <2>3, ReadOn
            DEF CreateLock, Permitted, Reads, CaseRead, EscalationRead, Deciding
  <1>4. CASE CreateRefused(q) \/ CreateConflict(q)
    BY <1>1, <1>4, Answered DEF CreateRefused, CreateConflict
  <1>5. CASE CreateBill(q)
    <2>1. /\ req'[q].at = "insert" /\ req'[q].case = req[q].case /\ req'[q].run = req[q].run
      BY <1>2, <1>5, BillRow
    <2> QED BY <1>0, <1>1, <1>2, <1>5, <2>1
            DEF CreateBill, Permitted, Reads, CaseRead, EscalationRead, Deciding
  <1>6. CASE DecideCount(q)
    <2> DEFINE at == IF ActiveBlocking(req[q].case) \ {req[q].esc} = {}
                     THEN "release" ELSE "resolve"
    <2>1. PICK c \in Cases, e \in Escalations : c = req[q].case /\ e = req[q].esc
      BY <1>2, <1>6 DEF DecideCount, RequestOK, NamesRows, Deciding
    <2>2. at \in Steps /\ Goto(q, at)
      BY <1>6 DEF DecideCount, Steps
    <2>3. req'[q].at = at /\ req'[q].case = c /\ req'[q].esc = e
      BY <2>1, <2>2, ReadOn
    <2>4. ActiveBlocking(c)' = ActiveBlocking(c)
      BY <1>0 DEF ActiveBlocking
    <2>5. esc'[e].case = c
      BY <1>0, <1>2, <1>6, <2>1 DEF DecideCount, Reads, EscalationRead, Deciding
    <2>6. req'[q].at \in {"release", "resolve"}
      BY <2>3
    <2>7. req'[q].at = "release" => ActiveBlocking(c)' \subseteq {e}
      BY <2>1, <2>3, <2>4
    <2>8. ActiveBlocking(c) \ {e} # {} => esc[e].kind \notin Blocking
      <3>1. esc[e].status \in Active /\ esc[e].case = c
        BY <1>2, <1>6, <2>1
           DEF DecideCount, RequestOK, OwnsLocks, Deciding, Active, Reads, EscalationRead
      <3>2. \A f, g \in ActiveBlocking(c) : f = g
        BY DEF SerialInv, RowsSerial, HeldByOne
      <3> QED BY <3>1, <3>2 DEF ActiveBlocking
    <2>9. req'[q].at = "resolve" => esc'[e].kind \notin Blocking
      BY <1>0, <2>1, <2>3, <2>8
    <2> HIDE DEF at
    <2> QED BY <1>1, <2>3, <2>5, <2>6, <2>7, <2>9 DEF Reads, CaseRead, EscalationRead
  <1> QED BY <1>3, <1>4, <1>5, <1>6

-----------------------------------------------------------------------------
(* Steps that write the case, one lifecycle step each *)
LEMMA StartSerial ==
  ASSUME IInv, SerialInv, NEW q \in Requests, StartClaim(q), UNCHANGED escVars
  PROVE  SerialStep(q)
  <1> USE DEF SerialStep, Elsewhere
  <1>0. PICK c \in Cases, k \in Keys : c = req[q].case /\ k = req[q].run
    BY DEF StartClaim, IInv, RequestOK, NamesRows, RunSteps
  <1>1. TypeOK /\ RowsSerial /\ esc' = esc
    BY DEF IInv, SerialInv, escVars
  <1>2. Reads(q)'
    BY Answered DEF StartClaim
  <1>3. CASE cases' = cases /\ runs' = runs
    BY <1>1, <1>2, <1>3, QuietStep DEF SameReviews
  <1>4. CASE /\ cases[c].status \in Startable
             /\ cases' = [cases EXCEPT ![c] = [status |-> "analyzing", run |-> k]]
             /\ SetRun(c, k, [NoRun EXCEPT !.status = "analyzing"])
    <2>1. /\ cases'[c].status = "analyzing" /\ cases'[c].run = k
          /\ \A d \in Cases \ {c} : cases'[d] = cases[d]
      BY <1>1, <1>4, CaseClaimed
    <2>2. runs'[c][k].review = "none" /\ OnlyRun(c, k)
      BY <1>1, <1>4, RunStarted
    <2>3. \A d \in Cases : ActiveBlocking(d)' = ActiveBlocking(d)
      BY <1>1 DEF ActiveBlocking
    <2>4. \A d \in Cases \ {c} : Kept(d)
      BY <2>1, <2>2, <2>3 DEF Kept, SameReviews, OnlyRun
    <2>5. cases[c].status \in {"created", "operator_review"}
      BY <1>1, <1>4 DEF RowsSerial, Reached, Startable
    <2>6. RowsSerial'
      BY <1>1, <2>1, <2>3, <2>4, <2>5, WrittenCase
         DEF KindsStored, RowsSerial, HeldByOne, Reached, CaseStatus, HandedOver
    <2>7. CurrentApproved(c)' = FALSE
      BY <2>1, <2>2 DEF CurrentApproved
    <2>8. \A d \in Cases \ {c} : CurrentApproved(d)' = CurrentApproved(d)
      BY <2>4, KeptCase
    <2>9. Lifecycle!Start(c)
      BY <2>1, <2>3, <2>5, <2>7, <2>8, StatusMapped, ApprovedMapped, HeldUnmapped
         DEF Lifecycle!Start, Lifecycle!Move
    <2> QED BY <1>0, <1>2, <2>4, <2>6, <2>9 DEF Moves, Lifecycle!Next
  <1> QED BY <1>0, <1>3, <1>4 DEF StartClaim

LEMMA CompleteSerial ==
  ASSUME IInv, SerialInv, NEW q \in Requests, CompleteCommit(q), UNCHANGED escVars
  PROVE  SerialStep(q)
  <1> USE DEF SerialStep, Elsewhere
  <1>0. PICK c \in Cases, k \in Keys : c = req[q].case /\ k = req[q].run
    BY DEF CompleteCommit, IInv, RequestOK, NamesRows, RunSteps
  <1>1. TypeOK /\ RowsSerial /\ esc' = esc /\ Reads(q)'
    BY Answered DEF IInv, SerialInv, escVars, CompleteCommit
  <1>2. cases[c].run = k /\ runs[c][k].status = "analyzing" /\ req[q].seen = "analyzing"
    BY <1>0 DEF SerialInv, Reads, CaseRead, CompleteCommit
  <1>3. cases[c].status = "analyzing" /\ k # NoKey
    BY <1>1, <1>2, PilotAssumption DEF RowsSerial, AnalyzingTogether
  <1>4. SetStatus(c, "operator_review") /\ SetRun(c, k, [runs[c][k] EXCEPT !.status = "completed"])
    BY <1>0, <1>2 DEF CompleteCommit
  <1>5. /\ OnlyRun(c, k) /\ runs'[c][k].status = "completed"
        /\ runs'[c][k].review = runs[c][k].review
    BY <1>1, <1>4, RunCompleted
  <1>6. /\ cases' \in [Cases -> Case]
        /\ \A d \in Cases : cases'[d].run = cases[d].run
        /\ \A d \in Cases : cases'[d].status = IF d = c THEN "operator_review" ELSE cases[d].status
    BY <1>1, <1>4, StatusSet DEF CaseStatus
  <1>7. \A d \in Cases : ActiveBlocking(d)' = ActiveBlocking(d)
    BY <1>1 DEF ActiveBlocking
  <1>8. \A d \in Cases \ {c} : Kept(d)
    BY <1>1, <1>4, <1>5, <1>7, OtherCases DEF Kept, SameReviews, OnlyRun, CaseStatus
  <1>9. RowsSerial'
    BY <1>1, <1>2, <1>3, <1>5, <1>6, <1>7, <1>8, WrittenCase
       DEF KindsStored, RowsSerial, HeldByOne, Reached, CaseStatus, HandedOver
  <1>10. \A d \in Cases : CurrentApproved(d)' = CurrentApproved(d)
    <2>1. CurrentApproved(c)' = CurrentApproved(c)
      BY <1>2, <1>5, <1>6 DEF CurrentApproved
    <2> QED BY <1>8, <2>1, KeptCase
  <1>11. Lifecycle!Complete(c)
    BY <1>3, <1>6, <1>7, <1>10, StatusMapped, ApprovedUnmapped, HeldUnmapped
       DEF Lifecycle!Complete, Lifecycle!Move
  <1> QED BY <1>0, <1>1, <1>8, <1>9, <1>11 DEF Moves, Lifecycle!Next

LEMMA BindSerial ==
  ASSUME IInv, SerialInv, NEW q \in Requests, PdfCommit(q), UNCHANGED escVars
  PROVE  SerialStep(q) /\ \A c \in Cases : Kept(c)
  <1> USE DEF SerialStep, Elsewhere
  <1>0. PICK c \in Cases, k \in Keys : c = req[q].case /\ k = req[q].run
    BY DEF PdfCommit, IInv, RequestOK, NamesRows, RunSteps
  <1>1. /\ OnlyRun(c, k) /\ runs'[c][k].status = runs[c][k].status
        /\ runs'[c][k].review = runs[c][k].review
    BY <1>0, RunBound DEF PdfCommit, IInv
  <1>2. \A d \in Cases : SameReviews(d)
    BY <1>1 DEF OnlyRun, SameReviews
  <1> QED BY <1>2, QuietStep, Answered DEF PdfCommit, SerialInv, escVars

LEMMA ReviewSerial ==
  ASSUME IInv, SerialInv, NEW q \in Requests, ReviewCommit(q), UNCHANGED escVars
  PROVE  SerialStep(q)
  <1> USE DEF SerialStep, Elsewhere
  <1>0. PICK c \in Cases, k \in Keys : c = req[q].case /\ k = req[q].run
    BY DEF ReviewCommit, IInv, RequestOK, NamesRows, RunSteps
  <1>1. /\ TypeOK /\ RowsSerial /\ esc' = esc /\ cases' = cases /\ Reads(q)'
        /\ req[q].arg \in Verdict
    BY Answered DEF IInv, SerialInv, escVars, ReviewCommit, RequestOK, NamesRows
  <1>2. cases[c].run = k /\ runs[c][k].review = "none" => cases[c].status = "operator_review"
    BY <1>0 DEF SerialInv, Reads, CaseRead, ReviewCommit
  <1>3. CASE runs[c][k].review # "none"
    BY <1>0, <1>1, <1>3, QuietStep DEF ReviewCommit, SameReviews
  <1>4. CASE runs[c][k].review = "none"
    <2>1. SetRun(c, k, [runs[c][k] EXCEPT !.review = req[q].arg])
      BY <1>0, <1>4 DEF ReviewCommit
    <2>2. /\ OnlyRun(c, k) /\ runs'[c][k].status = runs[c][k].status
          /\ runs'[c][k].review = req[q].arg
      BY <1>1, <2>1, RunReviewed
    <2>3. \A d \in Cases : ActiveBlocking(d)' = ActiveBlocking(d)
      BY <1>1 DEF ActiveBlocking
    <2>4. \A d \in Cases \ {c} : Kept(d)
      BY <1>1, <2>2, <2>3 DEF Kept, SameReviews, OnlyRun
    <2>5. cases[c].run \in Keys \cup {NoKey} /\ k # NoKey
      BY <1>1, PilotAssumption DEF TypeOK, Case
    <2>6. cases[c].run # k => CurrentApproved(c)' = CurrentApproved(c)
      BY <1>1, <2>2, <2>5 DEF CurrentApproved, OnlyRun
    <2>7. RowsSerial'
      BY <1>1, <1>2, <1>4, <2>2, <2>3, <2>4, <2>5, <2>6, WrittenCase
         DEF KindsStored, RowsSerial, HeldByOne, AnalyzingTogether, HandoverReviewed,
             HandedOver, OnlyRun
    <2>8. \A d \in Cases \ {c} : CurrentApproved(d)' = CurrentApproved(d)
      BY <2>4, KeptCase
    <2>9. CASE cases[c].run = k /\ req[q].arg = "approved"
      <3>1. CurrentApproved(c)' = TRUE
        BY <1>1, <2>2, <2>5, <2>9 DEF CurrentApproved
      <3>2. ActiveBlocking(c) = {}
        BY <1>1, <1>2, <1>4, <2>9 DEF RowsSerial, HeldByOne
      <3>3. Lifecycle!Approve(c)
        BY <1>1, <1>2, <1>4, <2>3, <2>8, <2>9, <3>1, <3>2, StatusUnmapped, ApprovedMapped,
           HeldUnmapped
           DEF Lifecycle!Approve
      <3> QED BY <1>0, <1>1, <2>4, <2>7, <3>3 DEF Moves, Lifecycle!Next
    <2>10. CASE ~ (cases[c].run = k /\ req[q].arg = "approved")
      <3>1. CurrentApproved(c)' = CurrentApproved(c)
        BY <1>1, <1>4, <2>2, <2>6, <2>10 DEF CurrentApproved
      <3> QED BY <1>0, <1>1, <2>3, <2>4, <2>7, <2>8, <3>1, StatusUnmapped, ApprovedUnmapped,
                 HeldUnmapped
              DEF Moves, Lifecycle!vars
    <2> QED BY <2>9, <2>10
  <1> QED BY <1>3, <1>4

LEMMA AdvanceSerial ==
  ASSUME IInv, SerialInv, NEW q \in Requests, AdvanceWrite(q), UNCHANGED escVars
  PROVE  SerialStep(q)
  <1> USE DEF SerialStep, Elsewhere
  <1>0. PICK c \in Cases, s \in {"client_ready", "delivered", "archived"} :
          c = req[q].case /\ s = req[q].arg
    BY DEF AdvanceWrite, IInv, RequestOK, NamesRows
  <1>1. TypeOK /\ RowsSerial /\ esc' = esc /\ runs' = runs /\ Reads(q)'
    BY Answered DEF IInv, SerialInv, escVars, AdvanceWrite
  <1>2. CanMove(cases[c].status, s) /\ (s # "archived" => CurrentApproved(c))
    BY <1>0 DEF SerialInv, Reads, CaseRead, AdvanceWrite
  <1>3. /\ s = "client_ready" => cases[c].status = "operator_review"
        /\ s = "delivered" => cases[c].status = "client_ready"
        /\ s = "archived" => cases[c].status \in
             {"created", "operator_review", "client_ready", "delivered"}
    <2>1. cases[c].status \in Reached
      BY <1>1 DEF RowsSerial
    <2> QED BY <1>2, <2>1 DEF CanMove, Transitions, Reached, CaseStatus
  <1>4. /\ cases' \in [Cases -> Case]
        /\ \A d \in Cases : cases'[d].run = cases[d].run
        /\ \A d \in Cases : cases'[d].status = IF d = c THEN s ELSE cases[d].status
    BY <1>0, <1>1, StatusSet DEF CaseStatus, AdvanceWrite
  <1>5. \A d \in Cases : ActiveBlocking(d)' = ActiveBlocking(d)
    BY <1>1 DEF ActiveBlocking
  <1>6. \A d \in Cases \ {c} : Kept(d)
    BY <1>0, <1>1, <1>5, OtherCases DEF Kept, SameReviews, AdvanceWrite, CaseStatus
  <1>7. \A d \in Cases : CurrentApproved(d)' = CurrentApproved(d)
    BY <1>1, <1>4 DEF CurrentApproved
  <1>8. ActiveBlocking(c) = {}
    BY <1>1, <1>3 DEF RowsSerial, HeldByOne
  <1>9. RowsSerial'
    <2>1. ~ (cases'[c].run # NoKey /\ runs'[c][cases'[c].run].status = "analyzing")
      BY <1>1, <1>3, <1>4 DEF RowsSerial, AnalyzingTogether
    <2> QED BY <1>1, <1>2, <1>4, <1>5, <1>6, <1>7, <1>8, <2>1, WrittenCase
            DEF KindsStored, RowsSerial, HeldByOne, Reached, CaseStatus, HandedOver
  <1>10. CASE s = "archived"
    <2>1. Lifecycle!Archive(c)
      BY <1>3, <1>4, <1>5, <1>7, <1>10, StatusMapped, ApprovedUnmapped, HeldUnmapped
         DEF Lifecycle!Archive, Lifecycle!Move
    <2> QED BY <1>0, <1>1, <1>6, <1>9, <2>1 DEF Moves, Lifecycle!Next
  <1>11. CASE s # "archived"
    <2>1. Lifecycle!HandOver(c, cases[c].status, s)
      BY <1>2, <1>4, <1>5, <1>7, <1>8, <1>11, StatusMapped, ApprovedUnmapped, HeldUnmapped
         DEF Lifecycle!HandOver, Lifecycle!Move
    <2> QED BY <1>0, <1>1, <1>3, <1>6, <1>9, <1>11, <2>1 DEF Moves, Lifecycle!Next
  <1> QED BY <1>10, <1>11

-----------------------------------------------------------------------------
(* Steps that write an escalation *)
Hold(r) == r.kind \in Blocking /\ r.status \in Active

(* One escalation row is written: only its own case may gain or lose it.   *)
LEMMA HoldWritten ==
  ASSUME NEW e \in Escalations, NEW c \in Cases, esc'[e].case = c,
         esc[e].case = c \/ esc[e].status = "absent",
         \A f \in Escalations \ {e} : esc'[f] = esc[f]
  PROVE  /\ \A d \in Cases \ {c} : ActiveBlocking(d)' = ActiveBlocking(d)
         /\ ActiveBlocking(c)' = IF Hold(esc'[e]) THEN ActiveBlocking(c) \cup {e}
                                                     ELSE ActiveBlocking(c) \ {e}
  <1>1. "absent" \notin Active
    BY DEF Active
  <1>2. \A d \in Cases \ {c} : ActiveBlocking(d)' = ActiveBlocking(d)
    BY <1>1 DEF ActiveBlocking
  <1>3. ActiveBlocking(c)' = IF Hold(esc'[e]) THEN ActiveBlocking(c) \cup {e}
                                                 ELSE ActiveBlocking(c) \ {e}
    BY DEF ActiveBlocking, Hold
  <1> QED BY <1>2, <1>3

LEMMA EscalationWritten ==
  ASSUME IInv, RowsSerial, NEW e \in Escalations, NEW c \in Cases,
         esc'[e].case = c, esc[e].case = c \/ esc[e].status = "absent",
         esc'[e].kind \in Kind, \A f \in Escalations \ {e} : esc'[f] = esc[f]
  PROVE  /\ KindsStored
         /\ \A d \in Cases \ {c} : ActiveBlocking(d)' = ActiveBlocking(d)
         /\ ActiveBlocking(c)' = IF Hold(esc'[e]) THEN ActiveBlocking(c) \cup {e}
                                                     ELSE ActiveBlocking(c) \ {e}
  <1>1. KindsStored
    BY DEF KindsStored, RowsSerial, HeldByOne
  <1> QED BY <1>1, HoldWritten

LEMMA InsertSerial ==
  ASSUME IInv, SerialInv, NEW q \in Requests, CreateInsert(q)
  PROVE  SerialStep(q)
  <1> USE DEF SerialStep, Elsewhere
  <1>0. PICK c \in Cases, k \in Keys, e \in Escalations, a \in Kind :
          c = req[q].case /\ k = req[q].run /\ e = req[q].esc /\ a = req[q].arg
    BY DEF CreateInsert, IInv, RequestOK, NamesRows, RunSteps
  <1>1. TypeOK /\ RowsSerial /\ runs' = runs /\ Reads(q)' /\ esc[e].status = "absent"
    BY <1>0, Answered DEF IInv, SerialInv, CreateInsert
  <1>2. Permitted(c, k)
    BY <1>0 DEF SerialInv, Reads, CaseRead, CreateInsert
  <1>3. /\ cases[c].run = k /\ k # NoKey /\ cases[c].status = "operator_review"
        /\ runs[c][k].status = "completed" /\ runs[c][k].review = "none"
    BY <1>2, PilotAssumption DEF Permitted
  <1>4. /\ esc'[e].case = c /\ esc'[e].kind = a /\ esc'[e].status \in Active
        /\ \A f \in Escalations \ {e} : esc'[f] = esc[f]
    BY <1>0, <1>1 DEF CreateInsert, SetEsc, TypeOK, Active
  <1>5. /\ KindsStored
        /\ \A d \in Cases \ {c} : ActiveBlocking(d)' = ActiveBlocking(d)
        /\ ActiveBlocking(c)' = IF a \in Blocking THEN ActiveBlocking(c) \cup {e}
                                                  ELSE ActiveBlocking(c) \ {e}
    BY <1>1, <1>4, EscalationWritten DEF Hold
  <1>6. ActiveBlocking(c) = {}
    BY <1>1, <1>3 DEF RowsSerial, HeldByOne
  <1>7. ~ CurrentApproved(c)
    BY <1>3 DEF CurrentApproved
  <1>8. CASE a \in Blocking
    <2>1. SetStatus(c, "expert_review")
      BY <1>0, <1>8 DEF CreateInsert
    <2>2. /\ cases' \in [Cases -> Case]
          /\ \A d \in Cases : cases'[d].run = cases[d].run
          /\ \A d \in Cases :
               cases'[d].status = IF d = c THEN "expert_review" ELSE cases[d].status
      BY <1>1, <2>1, StatusSet DEF CaseStatus
    <2>3. \A d \in Cases \ {c} : Kept(d)
      BY <1>1, <1>5, <2>1, OtherCases DEF Kept, SameReviews, CaseStatus
    <2>4. ActiveBlocking(c)' = {e}
      BY <1>5, <1>6, <1>8
    <2>5. RowsSerial'
      BY <1>1, <1>3, <1>5, <2>2, <2>3, <2>4, WrittenCase
         DEF Reached, CaseStatus, HandedOver
    <2>6. \A d \in Cases : CurrentApproved(d)' = CurrentApproved(d)
      BY <1>1, <2>2 DEF CurrentApproved
    <2>7. Lifecycle!Escalate(c)
      <3>1. [d \in Cases |-> cases[d].status]' =
              [[d \in Cases |-> cases[d].status] EXCEPT ![c] = "expert_review"]
        BY <2>2, StatusMapped
      <3>2. [d \in Cases |-> ActiveBlocking(d) # {}]' =
              [[d \in Cases |-> ActiveBlocking(d) # {}] EXCEPT ![c] = TRUE]
        <4>1. (ActiveBlocking(c)' # {}) = TRUE
          BY <2>4
        <4> QED BY <1>5, <4>1, HeldMapped
      <3>3. [d \in Cases |-> CurrentApproved(d)]' = [d \in Cases |-> CurrentApproved(d)]
        BY <2>6, ApprovedUnmapped
      <3>4. ~ [d \in Cases |-> CurrentApproved(d)][c]
        BY <1>7
      <3>5. [d \in Cases |-> cases[d].status][c] \in {"operator_review"}
        BY <1>3
      <3> QED BY <3>1, <3>2, <3>3, <3>4, <3>5 DEF Lifecycle!Escalate, Lifecycle!Move
    <2> QED BY <1>0, <1>1, <2>3, <2>5, <2>7 DEF Moves, Lifecycle!Next
  <1>9. CASE a \notin Blocking
    <2>1. cases' = cases
      BY <1>0, <1>9 DEF CreateInsert
    <2>2. \A d \in Cases : Kept(d)
      BY <1>1, <1>5, <1>6, <1>9, <2>1 DEF Kept, SameReviews
    <2> QED BY <1>1, <1>5, <2>2, KeptRows, KeptMoves
  <1> QED BY <1>8, <1>9

(* The only severe escalation of a case is closed. *)
LEMMA SettleSerial ==
  ASSUME IInv, RowsSerial, KindsStored, NEW c \in Cases, NEW s \in {"operator_review", "archived"},
         SetStatus(c, s), cases[c].status = "expert_review", runs' = runs,
         ActiveBlocking(c)' = {},
         \A d \in Cases \ {c} : ActiveBlocking(d)' = ActiveBlocking(d)
  PROVE  RowsSerial' /\ Moves /\ \A d \in Cases \ {c} : Kept(d)
  <1>1. /\ cases' \in [Cases -> Case]
        /\ \A d \in Cases : cases'[d].run = cases[d].run
        /\ \A d \in Cases : cases'[d].status = IF d = c THEN s ELSE cases[d].status
    BY StatusSet DEF CaseStatus, IInv
  <1>2. \A d \in Cases \ {c} : Kept(d)
    BY OtherCases DEF Kept, SameReviews, IInv, CaseStatus
  <1>3. ~ (cases'[c].run # NoKey /\ runs'[c][cases'[c].run].status = "analyzing")
    BY <1>1 DEF RowsSerial, AnalyzingTogether
  <1>4. RowsSerial'
    BY <1>1, <1>2, <1>3, WrittenCase DEF Reached, CaseStatus, HandedOver
  <1>5. \A d \in Cases : CurrentApproved(d)' = CurrentApproved(d)
    BY <1>1 DEF CurrentApproved
  <1>6. Lifecycle!Settle(c, s)
    <2>1. [d \in Cases |-> cases[d].status]' = [[d \in Cases |-> cases[d].status] EXCEPT ![c] = s]
      BY <1>1, StatusMapped
    <2>2. [d \in Cases |-> ActiveBlocking(d) # {}]' =
            [[d \in Cases |-> ActiveBlocking(d) # {}] EXCEPT ![c] = FALSE]
      <3>1. (ActiveBlocking(c)' # {}) = FALSE
        OBVIOUS
      <3> QED BY <3>1, HeldMapped
    <2>3. [d \in Cases |-> CurrentApproved(d)]' = [d \in Cases |-> CurrentApproved(d)]
      BY <1>5, ApprovedUnmapped
    <2>4. [d \in Cases |-> cases[d].status][c] \in {"expert_review"}
      OBVIOUS
    <2> QED BY <2>1, <2>2, <2>3, <2>4 DEF Lifecycle!Settle, Lifecycle!Move
  <1> QED BY <1>2, <1>4, <1>6 DEF Moves, Lifecycle!Next

LEMMA DecideSerial ==
  ASSUME IInv, SerialInv, NEW q \in Requests, BlockCase(q) \/ Resolve(q) \/ ReleaseCase(q)
  PROVE  SerialStep(q) /\ (Resolve(q) => \A c \in Cases : Kept(c))
  <1> USE DEF SerialStep, Elsewhere
  <1>0. req[q].at \in Deciding /\ (Resolve(q) <=> req[q].at = "resolve")
    BY DEF BlockCase, Resolve, ReleaseCase, Deciding
  <1>1. PICK c \in Cases, e \in Escalations : c = req[q].case /\ e = req[q].esc
    BY <1>0 DEF IInv, RequestOK, NamesRows
  <1>2. PICK st \in Final : CloseEsc(q, st)
    BY DEF BlockCase, Resolve, ReleaseCase, Final
  <1>3. TypeOK /\ RowsSerial /\ runs' = runs /\ Reads(q) /\ Reads(q)'
    BY <1>2, Answered DEF IInv, SerialInv, CloseEsc
  <1>4. /\ esc[e].case = c /\ esc[e].status = "in_review" /\ esc[e].kind \in Kind
        /\ esc[e] \in Escalation
    BY <1>0, <1>1, <1>3
       DEF Reads, EscalationRead, IInv, RequestOK, OwnsLocks, RowsSerial, HeldByOne, TypeOK
  <1>5. /\ esc'[e].case = c /\ esc'[e].kind = esc[e].kind /\ esc'[e].status = st
        /\ \A f \in Escalations \ {e} : esc'[f] = esc[f]
    BY <1>1, <1>2, <1>3, <1>4 DEF CloseEsc, SetEsc, TypeOK, Escalation
  <1>6. /\ KindsStored
        /\ \A d \in Cases \ {c} : ActiveBlocking(d)' = ActiveBlocking(d)
        /\ ActiveBlocking(c)' = ActiveBlocking(c) \ {e}
    <2>1. ~ Hold(esc'[e])
      BY <1>5 DEF Hold, Active, Final
    <2> QED BY <1>3, <1>4, <1>5, <2>1, EscalationWritten
  <1>7. esc[e].kind \in Blocking <=> e \in ActiveBlocking(c)
    BY <1>4 DEF ActiveBlocking, Active
  <1>8. \A f, g \in ActiveBlocking(c) : f = g
    BY <1>3 DEF RowsSerial, HeldByOne
  <1>9. ActiveBlocking(c) # {} <=> cases[c].status = "expert_review"
    BY <1>3 DEF RowsSerial, HeldByOne
  <1>10. ASSUME cases' = cases, e \notin ActiveBlocking(c)
         PROVE  RowsSerial' /\ Moves /\ \A d \in Cases : Kept(d)
    <2>1. \A d \in Cases : Kept(d)
      BY <1>3, <1>6, <1>10 DEF Kept, SameReviews
    <2> QED BY <1>3, <1>6, <2>1, KeptRows, KeptMoves
  <1>11. CASE BlockCase(q)
    <2>1. e \in ActiveBlocking(c)
      BY <1>1, <1>3, <1>7, <1>11 DEF BlockCase, Reads, EscalationRead
    <2>2. ActiveBlocking(c)' = {} /\ SetStatus(c, "archived")
      BY <1>1, <1>6, <1>8, <1>11, <2>1 DEF BlockCase
    <2> QED BY <1>0, <1>1, <1>3, <1>6, <1>9, <1>11, <2>1, <2>2, SettleSerial DEF BlockCase
  <1>12. CASE Resolve(q)
    <2>1. e \notin ActiveBlocking(c)
      BY <1>1, <1>3, <1>7, <1>12 DEF Resolve, Reads, EscalationRead
    <2> QED BY <1>1, <1>3, <1>10, <1>12, <2>1 DEF Resolve
  <1>13. CASE ReleaseCase(q)
    <2>1. ActiveBlocking(c) \subseteq {e}
      BY <1>1, <1>3, <1>13 DEF ReleaseCase, Reads, EscalationRead
    <2>2. CASE cases[c].status = "expert_review"
      <3>1. ActiveBlocking(c)' = {} /\ SetStatus(c, "operator_review")
        BY <1>1, <1>6, <1>13, <2>1, <2>2 DEF ReleaseCase
      <3> QED BY <1>0, <1>1, <1>3, <1>6, <1>13, <2>2, <3>1, SettleSerial DEF ReleaseCase
    <2>3. CASE cases[c].status # "expert_review"
      BY <1>1, <1>3, <1>9, <1>10, <1>13, <2>3 DEF ReleaseCase
    <2> QED BY <2>2, <2>3
  <1> QED BY <1>11, <1>12, <1>13

-----------------------------------------------------------------------------
(* An expert's work on an escalation leaves it open and where it was.      *)
LEMMA WorkKeepsHolds ==
  ASSUME IInv, NEW e \in Escalations, ExpertWork(e)
  PROVE  /\ UNCHANGED <<cases, runs, caseLock, req>>
         /\ \A f \in Escalations : esc'[f].case = esc[f].case /\ esc'[f].kind = esc[f].kind
         /\ \A c \in Cases : ActiveBlocking(c)' = ActiveBlocking(c)
  <1>1. /\ UNCHANGED <<cases, runs, caseLock, req>>
        /\ esc[e].status \in Active
        /\ esc'[e].case = esc[e].case
        /\ \A f \in Escalations \ {e} : esc'[f] = esc[f]
    BY ExpertWorkKeeps DEF pilotVars
  <1>2. esc'[e].kind = esc[e].kind /\ esc'[e].status \in Active
    <2>1. esc[e] \in Escalation /\ esc \in [Escalations -> Escalation]
      BY DEF IInv, TypeOK
    <2>2. CASE CommercialDecision(e)
      BY <2>1, <2>2 DEF CommercialDecision, Move, SetEsc, Escalation, Active
    <2>3. ASSUME NEW st \in Active, esc' = [esc EXCEPT ![e] = [esc[e] EXCEPT !.status = st]]
          PROVE  esc'[e].kind = esc[e].kind /\ esc'[e].status \in Active
      BY <2>1, <2>3 DEF Escalation
    <2> QED BY <2>2, <2>3 DEF ExpertWork, AssignExpert, StartExpertReview, AskCustomer, Resume,
                              Move, SetEsc, Active
  <1>3. \A c \in Cases : ActiveBlocking(c)' = ActiveBlocking(c)
    BY <1>1, <1>2 DEF ActiveBlocking
  <1> QED BY <1>1, <1>2, <1>3

LEMMA WorkSerial ==
  ASSUME IInv, SerialInv, NEW e \in Escalations, ExpertWork(e), UNCHANGED faults
  PROVE  SerialInv' /\ Moves
  <1>1. /\ UNCHANGED <<cases, runs, caseLock, req>>
        /\ esc[e].status \in Active
        /\ \A f \in Escalations : esc'[f].case = esc[f].case /\ esc'[f].kind = esc[f].kind
        /\ \A f \in Escalations \ {e} : esc'[f] = esc[f]
    BY ExpertWorkKeeps, WorkKeepsHolds
  <1>2. \A c \in Cases : ActiveBlocking(c)' = ActiveBlocking(c)
    BY WorkKeepsHolds
  <1>3. \A c \in Cases : Kept(c)
    BY <1>1, <1>2 DEF Kept, SameReviews
  <1>4. KindsStored
    BY <1>1 DEF KindsStored, SerialInv, RowsSerial, HeldByOne, Active
  <1>5. RowsSerial' /\ Moves
    BY <1>3, <1>4, KeptRows, KeptMoves DEF SerialInv
  <1>6. ASSUME NEW q \in Requests
        PROVE  Reads(q)'
    <2>1. Reads(q) /\ RequestOK(q)
      BY DEF SerialInv, IInv
    <2>2. CaseRead(q)'
      BY <1>1, <2>1 DEF Reads, CaseRead, CurrentApproved, Permitted
    <2>3. CASE req[q].at \in Deciding
      <3>1. PICK c \in Cases, f \in Escalations : c = req[q].case /\ f = req[q].esc
        BY <2>1, <2>3 DEF RequestOK, NamesRows
      <3>2. esc'[f].case = esc[f].case /\ esc'[f].kind = esc[f].kind
        BY <1>1
      <3>3. ActiveBlocking(c)' = ActiveBlocking(c)
        BY <1>2
      <3> QED BY <1>1, <2>1, <2>2, <3>1, <3>2, <3>3 DEF Reads, EscalationRead
    <2>4. CASE req[q].at \notin Deciding
      BY <1>1, <2>2, <2>4 DEF Reads, EscalationRead, Deciding
    <2> QED BY <2>3, <2>4
  <1> QED BY <1>5, <1>6 DEF SerialInv

(* A request about another case, which was told nothing and saw no row of  *)
(* its own change.                                                         *)
LEMMA OtherReads ==
  ASSUME IInv, SerialInv, NEW p \in Requests, req'[p] = req[p],
         req[p].case \in Cases => Kept(req[p].case),
         req[p].at \in {"bill", "insert"} => caseLock'[req[p].case] = caseLock[req[p].case],
         req[p].at \in Deciding =>
           /\ esc'[req[p].esc].case = esc[req[p].esc].case
           /\ esc'[req[p].esc].kind = esc[req[p].esc].kind
  PROVE  Reads(p)'
  <1>0. Reads(p) /\ NamesRows(p) /\ CaseStarted(p)
    BY DEF SerialInv, IInv, RequestOK
  <1>1. CASE req[p].at \in {"bind", "produce", "complete", "review", "check", "write",
                            "bill", "insert"}
    <2>1. PICK c \in Cases : c = req[p].case
      BY <1>0, <1>1 DEF NamesRows, RunSteps
    <2>2. CurrentApproved(c)' = CurrentApproved(c) /\ cases'[c] = cases[c] /\ SameReviews(c)
      BY <2>1, KeptCase DEF Kept
    <2>3. req[p].at \notin {"check", "write"} =>
            /\ req[p].run \in Keys
            /\ runs'[c][req[p].run].status = runs[c][req[p].run].status
            /\ runs'[c][req[p].run].review = runs[c][req[p].run].review
      BY <1>0, <1>1, <2>2 DEF NamesRows, RunSteps, SameReviews
    <2>4. req[p].at \in {"bill", "insert"} => caseLock'[c] = caseLock[c]
      BY <2>1
    <2>5. CaseRead(p)'
      <3>1. CaseRead(p)
        BY <1>0 DEF Reads
      <3> QED BY <2>1, <2>2, <2>3, <2>4, <3>1 DEF CaseRead, Permitted
    <2>6. EscalationRead(p)'
      BY <1>1 DEF EscalationRead, Deciding
    <2> QED BY <2>5, <2>6 DEF Reads
  <1>2. CASE req[p].at \in Deciding
    <2>1. PICK c \in Cases, e \in Escalations : c = req[p].case /\ e = req[p].esc
      BY <1>0, <1>2 DEF NamesRows
    <2>2. ActiveBlocking(c)' = ActiveBlocking(c)
      BY <2>1 DEF Kept
    <2> QED BY <1>0, <1>2, <2>1, <2>2 DEF Reads, CaseRead, EscalationRead, Deciding
  <1>3. CASE req[p].at \notin Deciding \cup {"bind", "produce", "complete", "review", "check",
                                             "write", "bill", "insert"}
    BY <1>3 DEF Reads, CaseRead, EscalationRead, Deciding
  <1> QED BY <1>1, <1>2, <1>3

(* An escalation that another request has locked keeps its row.            *)
LEMMA LockedKept ==
  ASSUME IInv, NEW q \in Requests, NEW p \in Requests \ {q}, req[p].at \in Deciding,
         Ask(q) \/ Handle(q) \/ Crash(q) \/ DeadlockVictim(q)
  PROVE  esc'[req[p].esc] = esc[req[p].esc]
  <1>0. PICK f \in Escalations : f = req[p].esc /\ escLock[f] = p /\ esc[f].status = "in_review"
    BY DEF IInv, RequestOK, NamesRows, OwnsLocks
  <1>1. CASE esc' = esc
    BY <1>1
  <1>2. CASE CreateInsert(q)
    BY <1>0, <1>2 DEF CreateInsert, SetEsc, IInv, TypeOK
  <1>3. ASSUME NEW st \in Final, CloseEsc(q, st), req[q].at \in Deciding
        PROVE  esc'[f] = esc[f]
    BY <1>0, <1>3, Closed
  <1>4. CASE ExpertStep(q)
    BY <1>0, <1>1, <1>2, <1>3, <1>4
       DEF ExpertStep, CreateLock, CreateRefused, CreateBill, CreateConflict, BlockCase,
           DecideCount, Resolve, ReleaseCase, escVars, Deciding, Final
  <1>5. CASE \/ Ask(q)
             \/ RouterStep(q) /\ UNCHANGED <<escVars, faults>>
             \/ Crash(q)
             \/ DeadlockVictim(q)
    <2>1. esc' = esc
      BY <1>5 DEF Ask, ExpertBegin, ExpertDecides, CreateRead, DecideLock, Crash,
                  DeadlockVictim, ReleaseEsc, escVars
    <2> QED BY <1>1, <2>1
  <1> QED BY <1>4, <1>5 DEF Handle

LocksCase(q) == req[q].at \in {"bill", "insert"} => caseLock[req[q].case] = q

(* The lock of a case that a new escalation holds is not taken from it.    *)
LEMMA CaseLockKept ==
  ASSUME IInv, NEW q \in Requests, NEW p \in Requests \ {q},
         req[p].at \in {"bill", "insert"}, LocksCase(p), LocksCase(q),
         Ask(q) \/ Handle(q) \/ Crash(q) \/ DeadlockVictim(q)
  PROVE  caseLock'[req[p].case] = caseLock[req[p].case]
  <1>0. PICK c \in Cases : c = req[p].case /\ caseLock[c] = p
    BY DEF IInv, RequestOK, NamesRows, RunSteps, LocksCase
  <1>1. CASE caseLock' = caseLock
    BY <1>1
  <1>2. CASE CreateLock(q)
    BY <1>0, <1>2, PilotAssumption DEF CreateLock, CaseFree, LockCase, IInv, TypeOK
  <1>3. CASE CreateInsert(q) \/ CreateConflict(q)
    <2>1. caseLock[req[q].case] = q
      BY <1>3 DEF CreateInsert, CreateConflict, LocksCase
    <2> QED BY <1>0, <1>3, <2>1 DEF CreateInsert, CreateConflict, LockCase, IInv, TypeOK
  <1>4. CASE Rollback(q)
    BY <1>0, <1>4 DEF Rollback
  <1>5. CASE ExpertStep(q)
    BY <1>1, <1>2, <1>3, <1>5
       DEF ExpertStep, CreateRefused, CreateBill, BlockCase, DecideCount, Resolve, ReleaseCase,
           CloseEsc
  <1>6. CASE RouterStep(q)
    BY <1>1, <1>6 DEF RouterStep, StartClaim, CompleteBind, CompletePublish, CompleteCommit,
                      PdfPublish, PdfCommit, ReviewCommit, AdvanceCheck, AdvanceWrite
  <1>7. CASE Ask(q)
    BY <1>1, <1>7 DEF Ask, RouterBegin, ExpertBegin, ExpertDecides, StartRead, CompleteRead,
                      PdfRead, ReviewRead, AdvanceRead, CreateRead, DecideLock
  <1> QED BY <1>4, <1>5, <1>6, <1>7 DEF Handle, Crash, DeadlockVictim

-----------------------------------------------------------------------------
(* What a commit leaves true of what another request, p, about the same    *)
(* case has read.                                                          *)
Spares(p) ==
  \A c \in Cases : c = req[p].case =>
    /\ req[p].at \in Completing => /\ cases'[c].run = cases[c].run
                                   /\ runs'[c][req[p].run].status = runs[c][req[p].run].status
    /\ /\ req[p].at = "review" /\ cases'[c].run = req[p].run
       /\ runs'[c][req[p].run].review = "none"
       => cases'[c].status = "operator_review"
    /\ req[p].at \in Advancing => cases'[c] = cases[c]
    /\ req[p].at = "release" => ActiveBlocking(c)' \subseteq ActiveBlocking(c)
    /\ caseLock[c] # p

LEMMA SparedReads ==
  ASSUME IInv, SerialInv, NEW p \in Requests, NEW c \in Cases, c = req[p].case,
         req'[p] = req[p], Spares(p), NEW q \in Requests, History(q),
         req[p].at \in Deciding => esc'[req[p].esc] = esc[req[p].esc]
  PROVE  Reads(p)'
  <1>0. Reads(p) /\ NamesRows(p)
    BY DEF SerialInv, IInv, RequestOK
  <1>1. cases'[c] = cases[c] /\ CurrentApproved(c) => CurrentApproved(c)'
    <2>1. cases[c].run \in Keys \cup {NoKey}
      BY DEF IInv, TypeOK, Case
    <2>2. \A k \in Keys : runs[c][k].review # "none" => runs'[c][k].review = runs[c][k].review
      BY DEF History
    <2>3. CASE cases[c].run \in Keys
      BY <2>2, <2>3 DEF CurrentApproved
    <2> QED BY <2>1, <2>3 DEF CurrentApproved
  <1>2. req[p].at \notin {"bill", "insert"}
    BY <1>0 DEF Reads, CaseRead, Spares
  <1>3. CaseRead(p)'
    <2>0. CaseRead(p)
      BY <1>0 DEF Reads
    <2>1. req[p].at \in Completing =>
            /\ cases'[c].run = req[p].run /\ runs'[c][req[p].run].status = "analyzing"
            /\ req[p].seen = "analyzing"
      BY <2>0 DEF CaseRead, Spares
    <2>2. /\ req[p].at = "review" /\ cases'[c].run = req[p].run
          /\ runs'[c][req[p].run].review = "none"
          => cases'[c].status = "operator_review"
      BY DEF Spares
    <2>3. req[p].at \in Advancing =>
            cases'[c].run = req[p].run /\ CanMove(cases'[c].status, req[p].arg)
      BY <2>0 DEF CaseRead, Spares
    <2>4. req[p].at = "write" /\ req[p].arg # "archived" => CurrentApproved(c)'
      <3>1. req[p].at = "write" => cases'[c] = cases[c]
        BY DEF Spares, Advancing
      <3> QED BY <1>1, <2>0, <3>1 DEF CaseRead
    <2> QED BY <1>2, <2>1, <2>2, <2>3, <2>4 DEF CaseRead
  <1>4. EscalationRead(p)'
    <2>1. CASE req[p].at \in Deciding
      <3>1. req[p].at = "release" => ActiveBlocking(c)' \subseteq ActiveBlocking(c)
        BY DEF Spares
      <3>2. PICK e \in Escalations : e = req[p].esc /\ esc'[e] = esc[e]
        BY <1>0, <2>1 DEF NamesRows
      <3> QED BY <1>0, <2>1, <3>1, <3>2 DEF Reads, EscalationRead
    <2> QED BY <2>1 DEF EscalationRead, Deciding
  <1> QED BY <1>3, <1>4 DEF Reads

(* A request whose read may still be in use tells where its case is.       *)
LEMMA StatusKnown ==
  ASSUME IInv, SerialInv, NEW p \in Requests, NEW c \in Cases, c = req[p].case
  PROVE  /\ req[p].at \in Completing => cases[c].status = "analyzing"
         /\ req[p].at \in Advancing => cases[c].status \notin {"analyzing", "expert_review"}
  <1>0. Reads(p) /\ NamesRows(p) /\ RowsSerial
    BY DEF SerialInv, IInv, RequestOK
  <1>1. ASSUME req[p].at \in Completing
        PROVE  cases[c].status = "analyzing"
    <2>1. req[p].run \in Keys /\ req[p].run # NoKey
      BY <1>0, <1>1, PilotAssumption DEF NamesRows, RunSteps
    <2> QED BY <1>0, <1>1, <2>1 DEF Reads, CaseRead, RowsSerial, AnalyzingTogether
  <1>2. ASSUME req[p].at \in Advancing
        PROVE  cases[c].status \notin {"analyzing", "expert_review"}
    <2>1. CanMove(cases[c].status, req[p].arg)
      BY <1>0, <1>2 DEF Reads, CaseRead
    <2>2. req[p].arg \in {"client_ready", "delivered", "archived"}
      BY <1>0, <1>2 DEF NamesRows
    <2> QED BY <2>1, <2>2 DEF CanMove, Transitions
  <1> QED BY <1>1, <1>2

LEMMA StartSpares ==
  ASSUME IInv, SerialInv, NoConflicts, NEW q \in Requests, NEW p \in Requests \ {q},
         StartClaim(q), esc' = esc, req[p].case = req[q].case
  PROVE  Spares(p) \/ \A c \in Cases : Kept(c)
  <1>0. PICK c \in Cases, k \in Keys : c = req[q].case /\ k = req[q].run
    BY DEF StartClaim, IInv, RequestOK, NamesRows, RunSteps
  <1>1. TypeOK /\ NamesRows(p) /\ RunKnown(p)
    BY DEF IInv, RequestOK
  <1>2. CASE cases' = cases /\ runs' = runs
    BY <1>2 DEF Kept, SameReviews, ActiveBlocking
  <1>3. CASE /\ cases[c].status \in Startable /\ runs[c][k].status = "absent"
             /\ cases' = [cases EXCEPT ![c] = [status |-> "analyzing", run |-> k]]
             /\ SetRun(c, k, [NoRun EXCEPT !.status = "analyzing"])
    <2>1. cases'[c].run = k /\ caseLock[c] # p
      BY <1>0, <1>1, <1>3, CaseClaimed, PilotAssumption DEF StartClaim, CaseFree
    <2>2. req[p].at \notin Completing
      BY <1>0, <1>3, StatusKnown DEF Startable
    <2>3. req[p].at = "review" => req[p].run # k
      BY <1>0, <1>1, <1>3 DEF RunKnown
    <2>4. req[p].at \notin Advancing
      BY DEF NoConflicts, Conflict, StartClaim
    <2>5. ActiveBlocking(c)' = ActiveBlocking(c)
      BY DEF ActiveBlocking
    <2> QED BY <1>0, <2>1, <2>2, <2>3, <2>4, <2>5 DEF Spares
  <1> QED BY <1>0, <1>2, <1>3 DEF StartClaim

LEMMA CompleteSpares ==
  ASSUME IInv, SerialInv, NoConflicts, NEW q \in Requests, NEW p \in Requests \ {q},
         CompleteCommit(q), esc' = esc, req[p].case = req[q].case
  PROVE  Spares(p)
  <1>0. PICK c \in Cases, k \in Keys : c = req[q].case /\ k = req[q].run
    BY DEF CompleteCommit, IInv, RequestOK, NamesRows, RunSteps
  <1>1. TypeOK /\ cases[c].status = "analyzing" /\ req[q].seen = "analyzing"
    BY <1>0, StatusKnown DEF IInv, CompleteCommit, SerialInv, Reads, CaseRead
  <1>2. cases'[c].status = "operator_review" /\ caseLock[c] # p
    BY <1>0, <1>1, StatusSet, PilotAssumption DEF CompleteCommit, CaseFree, CaseStatus
  <1>3. req[p].at \notin Completing
    BY DEF NoConflicts, Conflict, CompleteCommit
  <1>4. req[p].at \notin Advancing
    BY <1>0, <1>1, StatusKnown
  <1>5. ActiveBlocking(c)' = ActiveBlocking(c)
    BY DEF ActiveBlocking
  <1> QED BY <1>0, <1>2, <1>3, <1>4, <1>5 DEF Spares

LEMMA ReviewSpares ==
  ASSUME IInv, SerialInv, NEW q \in Requests, NEW p \in Requests \ {q},
         ReviewCommit(q), esc' = esc, History(q), req[p].case = req[q].case
  PROVE  Spares(p)
  <1>0. PICK c \in Cases, k \in Keys : c = req[q].case /\ k = req[q].run
    BY DEF ReviewCommit, IInv, RequestOK, NamesRows, RunSteps
  <1>1. TypeOK /\ Reads(p) /\ NamesRows(p) /\ req[q].arg \in Verdict
    BY DEF IInv, RequestOK, SerialInv, NamesRows, ReviewCommit
  <1>2. \A l \in Keys : runs'[c][l].status = runs[c][l].status
    <2>1. CASE runs' = runs
      BY <2>1
    <2>2. CASE SetRun(c, k, [runs[c][k] EXCEPT !.review = req[q].arg])
      BY <1>1, <2>2, RunReviewed DEF OnlyRun
    <2> QED BY <1>0, <2>1, <2>2 DEF ReviewCommit
  <1>3. \A l \in Keys : runs'[c][l].review = "none" => runs[c][l].review = "none"
    BY DEF History
  <1>4. req[p].at \in Completing \cup {"review"} => req[p].run \in Keys
    BY <1>1 DEF NamesRows, RunSteps
  <1>5. cases' = cases /\ caseLock[c] # p
    BY <1>0, PilotAssumption DEF ReviewCommit, CaseFree
  <1>6. ActiveBlocking(c)' = ActiveBlocking(c)
    BY DEF ActiveBlocking
  <1>7. /\ req[p].at = "review" /\ cases'[c].run = req[p].run
        /\ runs'[c][req[p].run].review = "none"
        => cases'[c].status = "operator_review"
    BY <1>0, <1>1, <1>3, <1>4, <1>5 DEF Reads, CaseRead
  <1> QED BY <1>0, <1>2, <1>4, <1>5, <1>6, <1>7 DEF Spares

LEMMA AdvanceSpares ==
  ASSUME IInv, SerialInv, NoConflicts, NEW q \in Requests, NEW p \in Requests \ {q},
         AdvanceWrite(q), esc' = esc, req[p].case = req[q].case
  PROVE  Spares(p)
  <1>0. PICK c \in Cases, s \in {"client_ready", "delivered", "archived"} :
          c = req[q].case /\ s = req[q].arg
    BY DEF AdvanceWrite, IInv, RequestOK, NamesRows
  <1>1. TypeOK /\ runs' = runs /\ (s # "archived" => CurrentApproved(c))
    BY <1>0 DEF IInv, SerialInv, Reads, CaseRead, AdvanceWrite
  <1>2. cases'[c].run = cases[c].run /\ caseLock[c] # p
    BY <1>0, <1>1, StatusSet, PilotAssumption DEF AdvanceWrite, CaseFree, CaseStatus
  <1>3. req[p].at \notin Completing
    BY <1>0, StatusKnown DEF AdvanceWrite
  <1>4. req[p].at \notin Advancing /\ (req[p].at = "review" => s # "archived")
    BY <1>0 DEF NoConflicts, Conflict, AdvanceWrite
  <1>5. ActiveBlocking(c)' = ActiveBlocking(c)
    BY DEF ActiveBlocking
  <1> QED BY <1>0, <1>1, <1>2, <1>3, <1>4, <1>5 DEF Spares, CurrentApproved

LEMMA InsertSpares ==
  ASSUME IInv, SerialInv, NoConflicts, NEW q \in Requests, NEW p \in Requests \ {q},
         CreateInsert(q), req[p].case = req[q].case
  PROVE  Spares(p)
  <1>0. PICK c \in Cases, e \in Escalations : c = req[q].case /\ e = req[q].esc
    BY DEF CreateInsert, IInv, RequestOK, NamesRows, RunSteps
  <1>1. /\ TypeOK /\ runs' = runs /\ Reads(p)
        /\ cases[c].status = "operator_review" /\ caseLock[c] = q
    BY <1>0 DEF IInv, SerialInv, Reads, CaseRead, CreateInsert, Permitted
  <1>2. req[p].at \notin Completing
    BY <1>0, <1>1, StatusKnown
  <1>3. CASE Holding(q)
    BY <1>0, <1>1, <1>2, <1>3 DEF NoConflicts, Conflict, Spares
  <1>4. CASE ~ Holding(q)
    <2>1. cases' = cases
      BY <1>4 DEF CreateInsert, Holding
    <2>2. esc'[e].kind \notin Blocking /\ \A f \in Escalations \ {e} : esc'[f] = esc[f]
      BY <1>0, <1>1, <1>4 DEF CreateInsert, SetEsc, TypeOK, Holding
    <2>3. ActiveBlocking(c)' \subseteq ActiveBlocking(c)
      BY <2>2 DEF ActiveBlocking
    <2> QED BY <1>0, <1>1, <1>2, <2>1, <2>3 DEF Spares, Reads, CaseRead
  <1> QED BY <1>3, <1>4

LEMMA DecideSpares ==
  ASSUME IInv, SerialInv, NEW q \in Requests, NEW p \in Requests \ {q},
         BlockCase(q) \/ ReleaseCase(q), req[p].case = req[q].case
  PROVE  Spares(p)
  <1>0. PICK c \in Cases, e \in Escalations : c = req[q].case /\ e = req[q].esc
    BY DEF BlockCase, ReleaseCase, IInv, RequestOK, NamesRows, Deciding
  <1>1. /\ TypeOK /\ RowsSerial /\ Reads(p) /\ Reads(q) /\ runs' = runs
        /\ esc[e].status = "in_review"
    BY <1>0 DEF IInv, RequestOK, OwnsLocks, Deciding, SerialInv, BlockCase, ReleaseCase, CloseEsc
  <1>2. caseLock[c] # p
    BY <1>0, PilotAssumption DEF BlockCase, ReleaseCase, CaseFree
  <1>3. ActiveBlocking(c)' \subseteq ActiveBlocking(c)
    <2>1. PICK st \in Final : CloseEsc(q, st)
      BY DEF BlockCase, ReleaseCase, Final
    <2>2. esc[e] \in Escalation
      BY <1>1 DEF TypeOK
    <2>3. esc'[e].status = st /\ \A f \in Escalations \ {e} : esc'[f] = esc[f]
      BY <1>0, <1>1, <2>1, <2>2 DEF CloseEsc, SetEsc, TypeOK, Escalation
    <2>4. st \notin Active
      BY DEF Active, Final
    <2> QED BY <2>3, <2>4 DEF ActiveBlocking
  <1>4. CASE cases' = cases
    BY <1>0, <1>1, <1>2, <1>3, <1>4 DEF Spares, Reads, CaseRead
  <1>5. CASE cases[c].status = "expert_review"
    <2>1. req[p].at \notin Completing \cup Advancing
      BY <1>0, <1>5, StatusKnown
    <2>2. CASE ReleaseCase(q)
      <3>1. cases'[c].status = "operator_review"
        BY <1>0, <1>1, <1>5, <2>2, StatusSet DEF ReleaseCase, CaseStatus
      <3> QED BY <1>0, <1>2, <1>3, <2>1, <3>1 DEF Spares
    <2>3. CASE BlockCase(q)
      <3>1. cases'[c].run = cases[c].run
        BY <1>0, <1>1, <2>3, StatusSet DEF BlockCase, CaseStatus
      <3> QED BY <1>0, <1>1, <1>2, <1>3, <1>5, <2>1, <3>1 DEF Spares, Reads, CaseRead
    <2> QED BY <2>2, <2>3
  <1>6. BlockCase(q) => cases[c].status = "expert_review"
    <2>1. BlockCase(q) => e \in ActiveBlocking(c)
      BY <1>0, <1>1 DEF BlockCase, Reads, EscalationRead, ActiveBlocking, Active, Deciding
    <2> QED BY <1>1, <2>1 DEF RowsSerial, HeldByOne
  <1>7. ReleaseCase(q) /\ cases[c].status # "expert_review" => cases' = cases
    BY <1>0 DEF ReleaseCase
  <1> QED BY <1>4, <1>5, <1>6, <1>7

LEMMA RequestSerial ==
  ASSUME IInv, SerialInv, NoConflicts, NEW q \in Requests,
         \/ Ask(q)
         \/ Handle(q)
         \/ Crash(q)
         \/ DeadlockVictim(q)
  PROVE  SerialInv' /\ Moves
  <1>1. History(q) /\ \A p \in Requests \ {q} : req'[p] = req[p]
    BY RequestStep DEF History
  <1>2. \A p \in Requests \ {q} :
          /\ req[p].at \in Deciding => esc'[req[p].esc] = esc[req[p].esc]
          /\ req[p].at \in {"bill", "insert"} =>
               caseLock'[req[p].case] = caseLock[req[p].case]
    BY LockedKept, CaseLockKept DEF LocksCase, SerialInv, Reads, CaseRead
  <1>3. ASSUME RowsSerial', Moves, Reads(q)', \A c \in Cases : Kept(c)
        PROVE  SerialInv' /\ Moves
    BY <1>1, <1>2, <1>3, OtherReads DEF SerialInv
  <1>4. ASSUME SerialStep(q), req[q].case \in Cases,
               \A p \in Requests \ {q} : req[p].case = req[q].case =>
                 Spares(p) \/ \A c \in Cases : Kept(c)
        PROVE  SerialInv' /\ Moves
    <2>1. ASSUME NEW p \in Requests \ {q}
          PROVE  Reads(p)'
      <3>1. CASE req[p].case # req[q].case \/ \A c \in Cases : Kept(c)
        BY <1>1, <1>2, <1>4, <3>1, OtherReads DEF SerialStep, Elsewhere
      <3>2. CASE req[p].case = req[q].case /\ Spares(p)
        BY <1>1, <1>2, <1>4, <3>2, SparedReads
      <3> QED BY <1>4, <3>1, <3>2
    <2> QED BY <1>4, <2>1 DEF SerialStep, SerialInv
  <1>5. CASE Ask(q)
    BY <1>3, <1>5, AskSerial DEF SerialStep
  <1>6. CASE RouterStep(q) /\ UNCHANGED escVars
    <2>1. CASE \/ CompleteBind(q) \/ CompletePublish(q) \/ PdfPublish(q) \/ AdvanceCheck(q)
               \/ PdfCommit(q)
      BY <1>3, <1>6, <2>1, ReadingSerial, BindSerial DEF SerialStep
    <2>2. CASE \/ StartClaim(q) \/ CompleteCommit(q) \/ ReviewCommit(q) \/ AdvanceWrite(q)
      <3>1. req[q].case \in Cases
        BY <2>2 DEF StartClaim, CompleteCommit, ReviewCommit, AdvanceWrite, IInv, RequestOK,
                    NamesRows, RunSteps
      <3>2. SerialStep(q)
        BY <1>6, <2>2, StartSerial, CompleteSerial, ReviewSerial, AdvanceSerial
      <3>3. \A p \in Requests \ {q} : req[p].case = req[q].case =>
              Spares(p) \/ \A c \in Cases : Kept(c)
        BY <1>1, <1>6, <2>2, StartSpares, CompleteSpares, ReviewSpares, AdvanceSpares
           DEF escVars
      <3> QED BY <1>4, <3>1, <3>2, <3>3
    <2> QED BY <1>6, <2>1, <2>2 DEF RouterStep
  <1>7. CASE ExpertStep(q)
    <2>1. CASE \/ CreateLock(q) \/ CreateRefused(q) \/ CreateBill(q) \/ CreateConflict(q)
               \/ DecideCount(q) \/ Resolve(q)
      BY <1>3, <2>1, ExpertReadingSerial, DecideSerial DEF SerialStep
    <2>2. CASE CreateInsert(q) \/ BlockCase(q) \/ ReleaseCase(q)
      <3>1. req[q].case \in Cases
        BY <2>2 DEF CreateInsert, BlockCase, ReleaseCase, IInv, RequestOK, NamesRows, RunSteps,
                    Deciding
      <3> QED BY <1>4, <2>2, <3>1, InsertSerial, DecideSerial, InsertSpares, DecideSpares
    <2> QED BY <1>7, <2>1, <2>2 DEF ExpertStep
  <1>8. CASE Rollback(q) /\ ReleaseEsc(q)
    BY <1>3, <1>8, QuietStep, Answered DEF Rollback, ReleaseEsc, SameReviews, SerialInv
  <1> QED BY <1>5, <1>6, <1>7, <1>8 DEF Handle, Crash, DeadlockVictim

LEMMA StepSerial ==
  ASSUME IInv, SerialInv, NoConflicts, [Next]_vars
  PROVE  SerialInv' /\ Moves
  <1>1. CASE UNCHANGED vars
    <2>1. RowsSerial' /\ Moves
      BY <1>1, QuietStep DEF vars, SameReviews, SerialInv
    <2>2. ASSUME NEW q \in Requests
          PROVE  Reads(q)'
      <3>1. /\ cases' = cases /\ runs' = runs /\ caseLock' = caseLock /\ req' = req
            /\ esc' = esc
        BY <1>1 DEF vars
      <3>2. CaseRead(q)' = CaseRead(q)
        BY <3>1 DEF CaseRead, Permitted, CurrentApproved
      <3>3. EscalationRead(q)' = EscalationRead(q)
        BY <3>1 DEF EscalationRead, ActiveBlocking
      <3> QED BY <3>2, <3>3 DEF SerialInv, Reads
    <2> QED BY <2>1, <2>2 DEF SerialInv
  <1> QED BY <1>1, RequestSerial, WorkSerial DEF Next

LEMMA InitSerial == Init => SerialInv
  <1> SUFFICES ASSUME Init PROVE SerialInv
    OBVIOUS
  <1> USE DEF Init, PilotInit, EscInit
  <1>1. \A c \in Cases : ActiveBlocking(c) = {}
    BY DEF ActiveBlocking, NoEsc, Active
  <1>2. RowsSerial
    BY <1>1 DEF RowsSerial, AnalyzingTogether, HandoverReviewed, HeldByOne, Reached,
                CaseStatus, HandedOver, NoEsc
  <1>3. \A q \in Requests : Reads(q)
    BY DEF Reads, CaseRead, EscalationRead, Idle, Asked, Deciding
  <1> QED BY <1>2, <1>3 DEF SerialInv

(* The rows keep the handover rules, and what a request has read about its *)
(* case stays true until it is answered.                                   *)
LEMMA SerialInductive ==
  Spec /\ []NoConflicts => []SerialInv
  <1>1. IInv /\ SerialInv /\ NoConflicts /\ [Next]_vars => SerialInv'
    BY StepSerial
  <1> QED BY InitSerial, Inductive, <1>1, PTL DEF Spec

-----------------------------------------------------------------------------
(* No case is client_ready or delivered with a severe escalation open      *)
(* (_transition and create_escalation), while no request commits what      *)
(* another about the case has read.                                        *)
THEOREM SerialHandoverUnblocked ==
  Spec /\ []NoConflicts => []SevereBlocksHandover
  <1>1. SerialInv => SevereBlocksHandover
    BY DEF SerialInv, RowsSerial, HeldByOne, SevereBlocksHandover, HandedOver
  <1> QED BY SerialInductive, <1>1, PTL

(* A case is handed over on the approved review of its current run only    *)
(* (mark_client_ready and delivered), while no request commits what        *)
(* another about the case has read.                                        *)
THEOREM SerialHandoverReviewed ==
  Spec /\ []NoConflicts => []HandoverReviewed
  <1>1. SerialInv => HandoverReviewed
    BY DEF SerialInv, RowsSerial
  <1> QED BY SerialInductive, <1>1, PTL

(* A case in expert review has the escalation whose decision releases it   *)
(* (record_expert_decision), while no request commits what another about   *)
(* the case has read.                                                      *)
THEOREM SerialReviewReleasable ==
  Spec /\ []NoConflicts => []ExpertReviewReleasable
  <1>1. SerialInv => ExpertReviewReleasable
    BY DEF SerialInv, RowsSerial, HeldByOne, ExpertReviewReleasable
  <1> QED BY SerialInductive, <1>1, PTL

(* The handlers of the router and of expert review implement the case      *)
(* lifecycle while no request commits what another about the case has      *)
(* read: each commit is one of its steps and every other statement, retry  *)
(* and death changes nothing of it.                                        *)
THEOREM SerialLifecycle ==
  Spec /\ []NoConflicts => ImplementsLifecycle
  <1>1. Init => Lifecycle!Init
    <2> SUFFICES ASSUME Init PROVE Lifecycle!Init
      OBVIOUS
    <2>1. \A c \in Cases : cases[c].status = "created" /\ CurrentApproved(c) = FALSE
      BY DEF Init, PilotInit, CurrentApproved
    <2>2. \A c \in Cases : ActiveBlocking(c) = {}
      BY DEF Init, EscInit, ActiveBlocking, NoEsc, Active
    <2> QED BY <2>1, <2>2 DEF Lifecycle!Init
  <1>2. IInv /\ SerialInv /\ NoConflicts /\ [Next]_vars => [Lifecycle!Next]_(Lifecycle!vars)
    BY StepSerial DEF Moves
  <1> QED BY <1>1, <1>2, SerialInductive, Inductive, PTL
          DEF Spec, ImplementsLifecycle, Lifecycle!Spec

(* No transition leads out of archived while no request commits what       *)
(* another about the case has read: the status that archive_case,          *)
(* complete_run and the decisions replace is the one they have read.       *)
THEOREM SerialArchivedFinal ==
  Spec /\ []NoConflicts => ArchivedIsFinal
  <1>1. ASSUME Moves, NEW c \in Cases, cases[c].status = "archived"
        PROVE  cases'[c].status = "archived"
    <2> DEFINE st == [d \in Cases |-> cases[d].status]
    <2>1. st'[c] = st[c]
      BY <1>1 DEF Moves, Lifecycle!Next, Lifecycle!Start, Lifecycle!Complete, Lifecycle!Approve,
         Lifecycle!Escalate, Lifecycle!Settle, Lifecycle!HandOver, Lifecycle!Archive,
         Lifecycle!Move, Lifecycle!vars
    <2> QED BY <1>1, <2>1
  <1>2. IInv /\ SerialInv /\ NoConflicts /\ [Next]_vars =>
          [\A c \in Cases : cases[c].status = "archived" => cases'[c].status = "archived"]_vars
    BY <1>1, StepSerial
  <1> QED BY <1>2, SerialInductive, Inductive, PTL DEF Spec, ArchivedIsFinal

(* With one request at a time the handlers of the router and of expert     *)
(* review keep every rule of the case: no handover without the review of   *)
(* the current run or past a severe escalation, no case held for nothing,  *)
(* archived for good, and no commit that is not a step of the lifecycle.   *)
THEOREM OneRequest ==
  ASSUME \A p, q \in Requests : p = q
  PROVE  Spec => /\ []SevereBlocksHandover /\ []HandoverReviewed /\ []ExpertReviewReleasable
                 /\ ImplementsLifecycle /\ ArchivedIsFinal
  <1>1. NoConflicts
    BY DEF NoConflicts
  <1> QED BY <1>1, SerialHandoverUnblocked, SerialHandoverReviewed, SerialReviewReleasable,
             SerialLifecycle, SerialArchivedFinal, PTL

(* The hypothesis as a specification, with requests that keep out of each  *)
(* other's way (SerialSpec): the handlers keep the rules of the case and   *)
(* implement its lifecycle, for any number of requests and deaths.         *)
THEOREM ConflictFreeRequests ==
  SerialSpec => /\ []SevereBlocksHandover /\ []HandoverReviewed /\ []ExpertReviewReleasable
                /\ ImplementsLifecycle /\ ArchivedIsFinal
  <1>1. Init => NoConflicts
    BY DEF Init, PilotInit, NoConflicts, Conflict, Holding, Idle, Asked
  <1>2. NoConflicts /\ [Next /\ NoConflicts']_vars => NoConflicts' /\ [Next]_vars
    BY DEF vars, NoConflicts, Conflict, Holding
  <1>3. SerialSpec => Spec /\ []NoConflicts
    BY <1>1, <1>2, PTL DEF SerialSpec, Spec
  <1> QED BY <1>3, SerialHandoverUnblocked, SerialHandoverReviewed, SerialReviewReleasable,
             SerialLifecycle, SerialArchivedFinal, PTL

-----------------------------------------------------------------------------
(* What the review of the current run needs of all that: no start_run is   *)
(* at its commit while a handover of the case is between its load and its  *)
(* write.                                                                  *)
StartsApart ==
  \A p, q \in Requests :
    req[p].at \in Advancing /\ req[p].arg \in HandedOver /\ req[q].at = "start" =>
      req[p].case # req[q].case

(* A handover of the case looks at its current run.                        *)
HandoverRead(q) ==
  \A c \in Cases : req[q].at \in Advancing /\ req[q].arg \in HandedOver /\ c = req[q].case =>
    /\ cases[c].run = req[q].run
    /\ req[q].at = "write" => runs[c][req[q].run].review = "approved"

HandoverInv == HandoverReviewed /\ \A q \in Requests : HandoverRead(q)

LEMMA RunStays ==
  ASSUME IInv, NEW q \in Requests, ~ StartClaim(q), ~ AdvanceWrite(q),
         Ask(q) \/ Handle(q) \/ Crash(q) \/ DeadlockVictim(q)
  PROVE  \A c \in Cases :
           /\ cases'[c].run = cases[c].run
           /\ cases'[c].status \in HandedOver => cases'[c].status = cases[c].status
  <1>1. CASE cases' = cases
    BY <1>1
  <1>2. ASSUME NEW s \in CaseStatus \ HandedOver, req[q].case \in Cases,
               SetStatus(req[q].case, s)
        PROVE  \A c \in Cases :
                 /\ cases'[c].run = cases[c].run
                 /\ cases'[c].status \in HandedOver => cases'[c].status = cases[c].status
    BY <1>2, StatusSet DEF IInv
  <1>3. /\ "operator_review" \in CaseStatus \ HandedOver
        /\ "expert_review" \in CaseStatus \ HandedOver
        /\ "archived" \in CaseStatus \ HandedOver
    BY DEF CaseStatus, HandedOver
  <1>4. CASE CompleteCommit(q) \/ CreateInsert(q) \/ BlockCase(q) \/ ReleaseCase(q)
    <2>1. req[q].case \in Cases
      BY <1>4 DEF CompleteCommit, CreateInsert, BlockCase, ReleaseCase, IInv, RequestOK,
                  NamesRows, RunSteps, Deciding
    <2> QED BY <1>1, <1>2, <1>3, <1>4, <2>1
            DEF CompleteCommit, CreateInsert, BlockCase, ReleaseCase
  <1>5. CASE RouterStep(q) \/ ExpertStep(q)
    BY <1>1, <1>4, <1>5
       DEF RouterStep, CompleteBind, CompletePublish, PdfPublish, PdfCommit, ReviewCommit,
           AdvanceCheck, ExpertStep, CreateLock, CreateRefused, CreateBill, CreateConflict,
           DecideCount, Resolve
  <1>6. CASE Ask(q) \/ Rollback(q)
    BY <1>1, <1>6 DEF Rollback, Ask, RouterBegin, ExpertBegin, ExpertDecides, StartRead,
                      CompleteRead, PdfRead, ReviewRead, AdvanceRead, CreateRead, DecideLock
  <1> QED BY <1>5, <1>6 DEF Handle, Crash, DeadlockVictim

(* Only two statements lead a request to the write of a handover: its load *)
(* (CanMove refuses expert review and archived) and the check of the       *)
(* approval.                                                               *)
HandoverLoaded(q) ==
  /\ req'[q].at = "check"
  /\ req'[q].run = cases[req'[q].case].run
  /\ cases[req'[q].case].status \notin {"expert_review", "archived"}
  /\ UNCHANGED <<cases, esc>>

HandoverChecked(q) ==
  LET c == req[q].case
      k == req[q].run
  IN  /\ req[q].at = "check" /\ req'[q].at = "write"
      /\ req'[q].case = c /\ req'[q].run = k /\ req'[q].arg = req[q].arg
      /\ runs[c][k].review = "approved"
      /\ UNCHANGED <<cases, runs>>

LEMMA HandoverEntered ==
  ASSUME IInv, NEW q \in Requests,
         Ask(q) \/ Handle(q) \/ Crash(q) \/ DeadlockVictim(q),
         req'[q].at \in Advancing, req'[q].arg \in HandedOver
  PROVE  HandoverLoaded(q) \/ HandoverChecked(q)
  <1>1. ~ Answer(q)
    <2>1. Answer(q) => req'[q] = Idle
      BY ReqTypes DEF IInv
    <2> QED BY <2>1 DEF Idle, Asked
  <1>2. ASSUME NEW at \in Steps \ Advancing, Goto(q, at)
        PROVE  FALSE
    BY <1>2, ReadOn
  <1>3. CASE AdvanceCheck(q)
    <2>1. "write" \in Steps
      BY DEF Steps
    <2> QED BY <1>1, <1>3, <2>1, ReadOn DEF AdvanceCheck, HandoverChecked
  <1>4. CASE Ask(q)
    <2>1. \A at, c, k, e, seen, arg : Begin(q, Asked(at, c, k, e, seen, arg)) =>
            req'[q].at = at /\ req'[q].case = c /\ req'[q].run = k /\ req'[q].arg = arg
      BY DEF IInv, TypeOK, Begin, Asked
    <2>2. ASSUME NEW c \in Cases, NEW target \in {"client_ready", "delivered", "archived"},
                 AdvanceRead(q, c, target), UNCHANGED escVars
          PROVE  HandoverLoaded(q)
      <3>1. /\ req'[q].at = IF target = "archived" THEN "write" ELSE "check"
            /\ req'[q].case = c /\ req'[q].run = cases[c].run /\ req'[q].arg = target
        BY <2>1, <2>2 DEF AdvanceRead
      <3>2. cases[c].status \notin {"expert_review", "archived"}
        BY <2>2 DEF AdvanceRead, CanMove, Transitions
      <3> QED BY <2>2, <3>1, <3>2 DEF AdvanceRead, HandoverLoaded, HandedOver, escVars
    <2>3. CASE \/ \E c \in Cases, k \in Keys :
                    StartRead(q, c, k) \/ CompleteRead(q, c, k) \/ PdfRead(q, c, k)
               \/ \E c \in Cases, k \in Keys, v \in Verdict : ReviewRead(q, c, k, v)
               \/ \E c \in Cases : ExpertBegin(q, c)
               \/ ExpertDecides(q)
      BY <2>1, <2>3 DEF StartRead, CompleteRead, PdfRead, ReviewRead, ExpertBegin,
                        CreateRead, ExpertDecides, DecideLock
    <2> QED BY <1>4, <2>2, <2>3 DEF Ask, RouterBegin
  <1>5. CASE \/ CompleteBind(q) \/ CompletePublish(q) \/ PdfPublish(q)
             \/ CreateLock(q) \/ DecideCount(q)
    BY <1>1, <1>2, <1>5
       DEF CompleteBind, CompletePublish, PdfPublish, CreateLock, DecideCount, Steps
  <1>6. CASE CreateBill(q)
    BY <1>6, BillRow DEF IInv
  <1>7. CASE \/ StartClaim(q) \/ CompleteCommit(q) \/ PdfCommit(q) \/ ReviewCommit(q)
             \/ AdvanceWrite(q) \/ CreateRefused(q) \/ CreateInsert(q) \/ CreateConflict(q)
             \/ BlockCase(q) \/ Resolve(q) \/ ReleaseCase(q) \/ Rollback(q)
    BY <1>1, <1>7
       DEF StartClaim, CompleteCommit, PdfCommit, ReviewCommit, AdvanceWrite, CreateRefused,
           CreateInsert, CreateConflict, BlockCase, Resolve, ReleaseCase, CloseEsc, Rollback
  <1> QED BY <1>3, <1>4, <1>5, <1>6, <1>7
          DEF Handle, RouterStep, ExpertStep, Crash, DeadlockVictim

LEMMA HandoverOwn ==
  ASSUME IInv, HandoverInv, NEW q \in Requests,
         Ask(q) \/ Handle(q) \/ Crash(q) \/ DeadlockVictim(q)
  PROVE  HandoverRead(q)'
  <1> SUFFICES ASSUME NEW c \in Cases, c = req'[q].case,
                      req'[q].at \in Advancing, req'[q].arg \in HandedOver
               PROVE  /\ cases'[c].run = req'[q].run
                      /\ req'[q].at = "write" => runs'[c][req'[q].run].review = "approved"
    BY DEF HandoverRead
  <1>1. CASE HandoverLoaded(q)
    BY <1>1 DEF HandoverLoaded
  <1>2. CASE HandoverChecked(q)
    BY <1>2 DEF HandoverChecked, HandoverInv, HandoverRead
  <1> QED BY <1>1, <1>2, HandoverEntered

LEMMA HandoverStep ==
  ASSUME IInv, HandoverInv, StartsApart, NEW q \in Requests,
         Ask(q) \/ Handle(q) \/ Crash(q) \/ DeadlockVictim(q)
  PROVE  HandoverInv'
  <1>1. History(q) /\ HandoverRead(q)' /\ \A p \in Requests \ {q} : req'[p] = req[p]
    BY RequestStep, HandoverOwn DEF History
  <1>2. \A c \in Cases : cases[c].run \in Keys \cup {NoKey}
    BY DEF IInv, TypeOK, Case
  <1>3. \A c \in Cases : cases'[c].run = cases[c].run /\ CurrentApproved(c) => CurrentApproved(c)'
    BY <1>1, <1>2 DEF CurrentApproved, History
  <1>4. ASSUME NEW p \in Requests \ {q}, NEW c \in Cases, c = req[p].case,
               req[p].at \in Advancing, req[p].arg \in HandedOver,
               cases'[c].run = cases[c].run
        PROVE  /\ cases'[c].run = req[p].run
               /\ req[p].at = "write" => runs'[c][req[p].run].review = "approved"
    <2>1. RequestOK(p)
      BY DEF IInv
    <2>2. req[p].run \in Keys
      BY <1>2, <1>4, <2>1 DEF RequestOK, CaseStarted, HandoverInv, HandoverRead, HandedOver
    <2> QED BY <1>1, <1>4, <2>2 DEF HandoverInv, HandoverRead, History
  <1>5. CASE ~ StartClaim(q) /\ ~ AdvanceWrite(q)
    <2>1. \A c \in Cases :
            /\ cases'[c].run = cases[c].run
            /\ cases'[c].status \in HandedOver => cases'[c].status = cases[c].status
      BY <1>5, RunStays
    <2> QED BY <1>1, <1>3, <1>4, <2>1 DEF HandoverInv, HandoverReviewed, HandoverRead
  <1>6. CASE AdvanceWrite(q)
    <2>1. PICK c \in Cases, s \in {"client_ready", "delivered", "archived"} :
            c = req[q].case /\ s = req[q].arg /\ req[q].at = "write"
      BY <1>6 DEF AdvanceWrite, IInv, RequestOK, NamesRows
    <2>2. \A d \in Cases : /\ cases'[d].run = cases[d].run
                          /\ cases'[d].status = IF d = c THEN s ELSE cases[d].status
      BY <1>6, <2>1, StatusSet DEF AdvanceWrite, CaseStatus, IInv
    <2>3. s \in HandedOver => CurrentApproved(c)
      <3>1. RequestOK(q)
        BY DEF IInv
      <3> QED BY <2>1, <3>1 DEF HandoverInv, HandoverRead, CurrentApproved, RequestOK,
                                CaseStarted, HandedOver
    <2> QED BY <1>1, <1>3, <1>4, <2>1, <2>2, <2>3 DEF HandoverInv, HandoverReviewed, HandoverRead
  <1>7. CASE StartClaim(q)
    <2>1. PICK c \in Cases, k \in Keys : c = req[q].case /\ k = req[q].run
      BY <1>7 DEF StartClaim, IInv, RequestOK, NamesRows, RunSteps
    <2>2. CASE cases' = cases
      BY <1>1, <1>3, <1>4, <2>2 DEF HandoverInv, HandoverReviewed, HandoverRead
    <2>3. CASE cases' = [cases EXCEPT ![c] = [status |-> "analyzing", run |-> k]]
      <3>1. cases'[c].status = "analyzing" /\ \A d \in Cases \ {c} : cases'[d] = cases[d]
        BY <2>3, CaseClaimed DEF IInv
      <3>2. \A p \in Requests : req[p].at \in Advancing /\ req[p].arg \in HandedOver =>
                                  req[p].case # c
        BY <1>7, <2>1 DEF StartsApart, StartClaim
      <3> QED BY <1>1, <1>3, <1>4, <3>1, <3>2
              DEF HandoverInv, HandoverReviewed, HandoverRead, HandedOver
    <2> QED BY <1>7, <2>1, <2>2, <2>3 DEF StartClaim
  <1> QED BY <1>5, <1>6, <1>7

(* A case is handed over on the approved review of its current run as soon *)
(* as no start_run of the case is at its commit between the load and the   *)
(* write of a handover (mark_client_ready, delivered): whatever else       *)
(* overlaps, the approval they check is still that of the current run.     *)
THEOREM HandoverNeedsNoStart ==
  Spec /\ []StartsApart => []HandoverReviewed
  <1>1. Init => HandoverInv
    BY DEF Init, PilotInit, HandoverInv, HandoverReviewed, HandoverRead, HandedOver, Idle, Asked
  <1>2. IInv /\ HandoverInv /\ StartsApart /\ [Next]_vars => HandoverInv'
    <2> SUFFICES ASSUME IInv, HandoverInv, StartsApart, [Next]_vars
                 PROVE  HandoverInv'
      OBVIOUS
    <2>1. CASE UNCHANGED vars
      BY <2>1 DEF vars, HandoverInv, HandoverReviewed, HandoverRead, CurrentApproved
    <2>2. ASSUME NEW e \in Escalations, ExpertWork(e)
          PROVE  HandoverInv'
      <3>1. UNCHANGED <<cases, runs, req>>
        BY <2>2, ExpertWorkKeeps DEF pilotVars
      <3> QED BY <3>1 DEF HandoverInv, HandoverReviewed, HandoverRead, CurrentApproved
    <2> QED BY <2>1, <2>2, HandoverStep DEF Next
  <1>3. HandoverInv => HandoverReviewed
    BY DEF HandoverInv
  <1> QED BY <1>1, <1>2, <1>3, Inductive, PTL DEF Spec

-----------------------------------------------------------------------------
(* What severe escalations need of all that: complete_run commits alone,   *)
(* and no severe escalation is stored between the count of a decision and  *)
(* the release of its case.                                                *)
SevereApart ==
  \A p, q \in Requests :
    /\ p # q
    /\ \/ req[p].at \in Completing /\ req[q].at = "complete"
       \/ req[p].at = "release" /\ Holding(q)
    => req[p].case # req[q].case

Analyzing(c) == cases[c].run # NoKey /\ runs[c][cases[c].run].status = "analyzing"

Completed(c) == cases[c].run # NoKey /\ runs[c][cases[c].run].status = "completed"

(* A severe escalation is the only one of its case and about a completed   *)
(* run, it keeps the case from being started again, and a case in expert   *)
(* review has it.                                                          *)
HeldRows(c) ==
  /\ \A e, f \in ActiveBlocking(c) : e = f
  /\ cases[c].status = "expert_review" => ActiveBlocking(c) # {}
  /\ ActiveBlocking(c) # {} =>
       /\ Completed(c)
       /\ cases[c].status \in {"expert_review", "client_ready", "delivered", "archived"}
  /\ Analyzing(c) => cases[c].status \notin Startable

HeldRead(q) ==
  LET c == req[q].case
      k == req[q].run
      e == req[q].esc
  IN  /\ req[q].at \in Completing => cases[c].run = k /\ runs[c][k].status = "analyzing"
      /\ req[q].at \in {"bill", "insert"} => Permitted(c, k) /\ caseLock[c] = q
      /\ req[q].at \in Deciding => esc[e].case = c
      /\ req[q].at = "release" => ActiveBlocking(c) \subseteq {e}
      /\ req[q].at = "resolve" => esc[e].kind \notin Blocking

HeldInv == (\A c \in Cases : HeldRows(c)) /\ \A q \in Requests : HeldRead(q)

(* What a step of request q makes of a case: only complete_run and a start *)
(* touch its run, only a new escalation holds it, and it moves elsewhere   *)
(* than to expert review and archived only when nothing holds it or by the *)
(* write of a transition.                                                  *)
HeldWrite(q, c) ==
  /\ HeldRows(c)'
  /\ \/ cases'[c] = cases[c] /\ SameReviews(c)
     \/ c = req[q].case /\ caseLock[c] \in {NoRequest, q}
  /\ \/ /\ cases'[c].run = cases[c].run
        /\ \A k \in Keys : runs'[c][k].status = runs[c][k].status
     \/ c = req[q].case /\ (req[q].at = "complete" \/ ~ Analyzing(c))
  /\ \/ ActiveBlocking(c)' \subseteq ActiveBlocking(c)
     \/ c = req[q].case /\ Holding(q) /\ cases'[c].status = "expert_review"
  /\ \/ cases'[c].status = cases[c].status
     \/ ActiveBlocking(c)' = {}
     \/ cases'[c].status \in {"expert_review", "archived"}
     \/ c = req[q].case /\ req[q].at = "write" /\ cases'[c].status = req[q].arg

HeldStep(q) == HeldRead(q)' /\ \A c \in Cases : HeldWrite(q, c)

LEMMA KeptHeld ==
  ASSUME IInv, NEW q, NEW c \in Cases, HeldRows(c), Kept(c)
  PROVE  HeldWrite(q, c)
  <1>1. cases[c].run \in Keys \cup {NoKey}
    BY DEF IInv, TypeOK, Case
  <1>2. Analyzing(c)' = Analyzing(c) /\ Completed(c)' = Completed(c)
    BY <1>1 DEF Kept, SameReviews, Analyzing, Completed
  <1> QED BY <1>2 DEF HeldWrite, HeldRows, Kept, SameReviews

LEMMA QuietHeld ==
  ASSUME IInv, HeldInv, NEW q, cases' = cases, esc' = esc, \A c \in Cases : SameReviews(c)
  PROVE  \A c \in Cases : HeldWrite(q, c)
  <1>1. \A c \in Cases : Kept(c)
    BY DEF Kept, ActiveBlocking
  <1> QED BY <1>1, KeptHeld DEF HeldInv

LEMMA AnsweredHeld ==
  ASSUME IInv, NEW q \in Requests, Answer(q)
  PROVE  HeldRead(q)'
  <1>1. req'[q] = Idle
    BY ReqTypes DEF IInv
  <1> QED BY <1>1 DEF HeldRead, Idle, Asked, Deciding

LEMMA AskHeld ==
  ASSUME IInv, HeldInv, NEW q \in Requests, Ask(q)
  PROVE  HeldStep(q)
  <1>1. cases' = cases /\ runs' = runs /\ esc' = esc
    BY DEF Ask, RouterBegin, ExpertBegin, ExpertDecides, StartRead, CompleteRead,
       PdfRead, ReviewRead, AdvanceRead, CreateRead, DecideLock, escVars
  <1>2. \A c \in Cases : HeldWrite(q, c)
    BY <1>1, QuietHeld DEF SameReviews
  <1>3. \A at, c, k, e, seen, arg : Begin(q, Asked(at, c, k, e, seen, arg)) =>
          /\ req'[q].at = at /\ req'[q].case = c /\ req'[q].run = k /\ req'[q].esc = e
    BY DEF IInv, TypeOK, Begin, Asked
  <1>4. ASSUME NEW c \in Cases, NEW k \in Keys, CompleteRead(q, c, k)
        PROVE  HeldRead(q)'
    <2>1. req'[q].at = "bind" /\ req'[q].case = c /\ req'[q].run = k
      BY <1>3, <1>4 DEF CompleteRead
    <2> QED BY <1>1, <1>4, <2>1 DEF CompleteRead, HeldRead, Deciding
  <1>5. ASSUME NEW e \in Escalations, NEW decision \in FinalDecision, DecideLock(q, e, decision)
        PROVE  HeldRead(q)'
    <2>1. /\ req'[q].at = IF decision = "BLOCK_CASE" THEN "block" ELSE "count"
          /\ req'[q].case = esc[e].case /\ req'[q].esc = e
      BY <1>3, <1>5 DEF DecideLock
    <2> QED BY <1>1, <2>1 DEF HeldRead, Deciding
  <1>6. CASE \/ \E c \in Cases, k \in Keys : StartRead(q, c, k) \/ PdfRead(q, c, k)
             \/ \E c \in Cases, k \in Keys, v \in Verdict : ReviewRead(q, c, k, v)
             \/ \E c \in Cases, t \in {"client_ready", "delivered", "archived"} :
                  AdvanceRead(q, c, t)
             \/ \E c \in Cases : ExpertBegin(q, c)
    <2>1. req'[q].at \in {"start", "render", "review", "check", "write", "lockCase"}
      BY <1>3, <1>6 DEF StartRead, PdfRead, ReviewRead, AdvanceRead, ExpertBegin, CreateRead
    <2>2. req'[q].at \notin Completing \cup {"bill", "insert"} \cup Deciding
      BY <2>1 DEF Deciding
    <2> QED BY <1>2, <2>2 DEF HeldRead, HeldStep, Deciding
  <1> QED BY <1>2, <1>4, <1>5, <1>6 DEF Ask, RouterBegin, ExpertDecides, HeldStep

LEMMA RouterReadingHeld ==
  ASSUME IInv, HeldInv, NEW q \in Requests, UNCHANGED escVars,
         CompleteBind(q) \/ CompletePublish(q) \/ PdfPublish(q) \/ AdvanceCheck(q)
  PROVE  HeldStep(q)
  <1>0. cases' = cases /\ runs' = runs /\ esc' = esc
    BY DEF CompleteBind, CompletePublish, PdfPublish, AdvanceCheck, escVars
  <1>1. \A c \in Cases : HeldWrite(q, c)
    BY <1>0, QuietHeld DEF SameReviews
  <1>2. HeldRead(q) /\ "produce" \in Steps /\ "complete" \in Steps
    BY DEF HeldInv, Steps
  <1>3. ASSUME NEW at \in {"produce", "complete"}, req[q].at \in Completing, Goto(q, at)
        PROVE  HeldRead(q)'
    <2>1. at \in Steps
      BY DEF Steps
    <2> QED BY <1>0, <1>2, <1>3, <2>1, ReadOn DEF HeldRead, Deciding
  <1>4. ASSUME NEW at \in {"artifact", "write"}, Goto(q, at)
        PROVE  HeldRead(q)'
    <2>1. at \in Steps
      BY DEF Steps
    <2>2. req'[q].at = at
      BY <1>4, <2>1, ReadOn
    <2> QED BY <2>2 DEF HeldRead, Deciding
  <1>5. HeldRead(q)'
    <2>1. CASE CompleteBind(q) \/ CompletePublish(q)
      BY <1>3, <2>1, AnsweredHeld DEF CompleteBind, CompletePublish
    <2>2. CASE PdfPublish(q) \/ AdvanceCheck(q)
      BY <1>4, <2>2, AnsweredHeld DEF PdfPublish, AdvanceCheck
    <2> QED BY <2>1, <2>2
  <1> QED BY <1>1, <1>5 DEF HeldStep

LEMMA ExpertReadingHeld ==
  ASSUME IInv, HeldInv, NEW q \in Requests,
         CreateLock(q) \/ CreateRefused(q) \/ CreateBill(q) \/ CreateConflict(q) \/ DecideCount(q)
  PROVE  HeldStep(q)
  <1>0. cases' = cases /\ runs' = runs /\ esc' = esc
    BY DEF CreateLock, CreateRefused, CreateBill, CreateConflict, DecideCount, escVars
  <1>1. \A c \in Cases : HeldWrite(q, c)
    BY <1>0, QuietHeld DEF SameReviews
  <1>2. HeldRead(q) /\ RequestOK(q) /\ TypeOK
    BY DEF HeldInv, IInv
  <1>3. ASSUME CreateLock(q)
        PROVE  HeldRead(q)'
    <2>1. "bill" \in Steps
      BY DEF Steps
    <2>2. req[q].case \in Cases
      BY <1>2, <1>3 DEF CreateLock, RequestOK, NamesRows, RunSteps
    <2>3. caseLock'[req[q].case] = q
      BY <1>2, <1>3, <2>2 DEF CreateLock, LockCase, TypeOK
    <2> QED BY <1>0, <1>3, <2>1, <2>3, ReadOn DEF CreateLock, Permitted, HeldRead, Deciding
  <1>4. ASSUME CreateBill(q)
        PROVE  HeldRead(q)'
    <2>1. /\ req'[q].at = "insert" /\ req'[q].case = req[q].case /\ req'[q].run = req[q].run
      BY <1>2, <1>4, BillRow
    <2> QED BY <1>0, <1>2, <1>4, <2>1 DEF CreateBill, Permitted, HeldRead, Deciding
  <1>5. ASSUME DecideCount(q)
        PROVE  HeldRead(q)'
    <2> DEFINE at == IF ActiveBlocking(req[q].case) \ {req[q].esc} = {}
                     THEN "release" ELSE "resolve"
    <2>1. PICK c \in Cases, e \in Escalations : c = req[q].case /\ e = req[q].esc
      BY <1>2, <1>5 DEF DecideCount, RequestOK, NamesRows, Deciding
    <2>2. at \in Steps /\ Goto(q, at)
      BY <1>5 DEF DecideCount, Steps
    <2>3. req'[q].at = at /\ req'[q].case = c /\ req'[q].esc = e
      BY <2>1, <2>2, ReadOn
    <2>4. ActiveBlocking(c)' = ActiveBlocking(c)
      BY <1>0 DEF ActiveBlocking
    <2>5. esc'[e].case = c /\ esc[e].status \in Active
      BY <1>0, <1>2, <1>5, <2>1
         DEF DecideCount, RequestOK, OwnsLocks, HeldRead, Deciding, Active
    <2>6. req'[q].at = "release" => ActiveBlocking(c)' \subseteq {e}
      BY <2>1, <2>3, <2>4
    <2>7. req'[q].at = "resolve" => esc'[e].kind \notin Blocking
      <3>1. \A f, g \in ActiveBlocking(c) : f = g
        BY DEF HeldInv, HeldRows
      <3> QED BY <1>0, <2>1, <2>3, <2>5, <3>1 DEF ActiveBlocking
    <2>8. req'[q].at \in {"release", "resolve"}
      BY <2>3
    <2> HIDE DEF at
    <2> QED BY <2>3, <2>5, <2>6, <2>7, <2>8 DEF HeldRead
  <1> QED BY <1>1, <1>3, <1>4, <1>5, AnsweredHeld DEF CreateRefused, CreateConflict, HeldStep

(* A commit that leaves the escalations alone. *)
LEMMA SameHolds ==
  ASSUME esc' = esc
  PROVE  \A c \in Cases : ActiveBlocking(c)' = ActiveBlocking(c)
  BY DEF ActiveBlocking

LEMMA StartHeld ==
  ASSUME IInv, HeldInv, NEW q \in Requests, StartClaim(q), UNCHANGED escVars
  PROVE  HeldStep(q)
  <1>0. PICK c \in Cases, k \in Keys : c = req[q].case /\ k = req[q].run
    BY DEF StartClaim, IInv, RequestOK, NamesRows, RunSteps
  <1>1. TypeOK /\ HeldRows(c) /\ esc' = esc /\ HeldRead(q)' /\ caseLock[c] = NoRequest
    BY <1>0, AnsweredHeld DEF IInv, HeldInv, escVars, StartClaim, CaseFree
  <1>2. CASE cases' = cases /\ runs' = runs
    BY <1>1, <1>2, QuietHeld DEF SameReviews, HeldStep
  <1>3. CASE /\ cases[c].status \in Startable
             /\ cases' = [cases EXCEPT ![c] = [status |-> "analyzing", run |-> k]]
             /\ SetRun(c, k, [NoRun EXCEPT !.status = "analyzing"])
    <2>1. /\ cases'[c].status = "analyzing" /\ cases'[c].run = k
          /\ \A d \in Cases \ {c} : cases'[d] = cases[d]
      BY <1>1, <1>3, CaseClaimed
    <2>2. runs'[c][k].status = "analyzing" /\ OnlyRun(c, k)
      BY <1>1, <1>3, RunStarted
    <2>3. \A d \in Cases \ {c} : Kept(d)
      BY <1>1, <2>1, <2>2, SameHolds DEF Kept, SameReviews, OnlyRun
    <2>4. ActiveBlocking(c) = {} /\ ~ Analyzing(c)
      BY <1>1, <1>3 DEF HeldRows, Startable
    <2>5. HeldRows(c)'
      BY <1>1, <2>1, <2>4, SameHolds DEF HeldRows, Startable
    <2>6. HeldWrite(q, c)
      BY <1>0, <1>1, <2>4, <2>5, SameHolds DEF HeldWrite
    <2> QED BY <1>1, <2>3, <2>6, KeptHeld DEF HeldInv, HeldStep
  <1> QED BY <1>0, <1>2, <1>3 DEF StartClaim

LEMMA CompleteHeld ==
  ASSUME IInv, HeldInv, NEW q \in Requests, CompleteCommit(q), UNCHANGED escVars
  PROVE  HeldStep(q)
  <1>0. PICK c \in Cases, k \in Keys : c = req[q].case /\ k = req[q].run
    BY DEF CompleteCommit, IInv, RequestOK, NamesRows, RunSteps
  <1>1. TypeOK /\ HeldRows(c) /\ esc' = esc /\ HeldRead(q)' /\ caseLock[c] = NoRequest
    BY <1>0, AnsweredHeld DEF IInv, HeldInv, escVars, CompleteCommit, CaseFree
  <1>2. cases[c].run = k /\ runs[c][k].status = "analyzing" /\ req[q].at = "complete"
    BY <1>0 DEF HeldInv, HeldRead, CompleteCommit
  <1>3. ActiveBlocking(c) = {} /\ cases[c].status # "expert_review"
    BY <1>1, <1>2 DEF HeldRows, Completed
  <1>4. /\ OnlyRun(c, k) /\ runs'[c][k].status = "completed"
    BY <1>0, <1>1, RunCompleted DEF CompleteCommit
  <1>5. /\ cases'[c].run = k /\ cases'[c].status \in {"operator_review", cases[c].status}
        /\ \A d \in Cases \ {c} : cases'[d] = cases[d]
    <2>1. CASE cases' = cases
      BY <1>2, <2>1
    <2>2. CASE SetStatus(c, "operator_review")
      <3>1. "operator_review" \in CaseStatus
        BY DEF CaseStatus
      <3>2. cases'[c].run = cases[c].run /\ cases'[c].status = "operator_review"
        BY <1>1, <2>2, <3>1, StatusSet
      <3>3. \A d \in Cases \ {c} : cases'[d] = cases[d]
        BY <1>1, <2>2, <3>1, OtherCases
      <3> QED BY <1>2, <3>2, <3>3
    <2> QED BY <1>0, <2>1, <2>2 DEF CompleteCommit
  <1>6. \A d \in Cases \ {c} : Kept(d)
    BY <1>1, <1>4, <1>5, SameHolds DEF Kept, SameReviews, OnlyRun
  <1>7. HeldRows(c)'
    BY <1>1, <1>3, <1>4, <1>5, SameHolds DEF HeldRows, Analyzing
  <1>8. HeldWrite(q, c)
    BY <1>0, <1>1, <1>2, <1>3, <1>7, SameHolds DEF HeldWrite
  <1> QED BY <1>1, <1>6, <1>8, KeptHeld DEF HeldInv, HeldStep

LEMMA RunWritesHeld ==
  ASSUME IInv, HeldInv, NEW q \in Requests, PdfCommit(q) \/ ReviewCommit(q), UNCHANGED escVars
  PROVE  HeldStep(q)
  <1>0. PICK c \in Cases, k \in Keys : c = req[q].case /\ k = req[q].run
    BY DEF PdfCommit, ReviewCommit, IInv, RequestOK, NamesRows, RunSteps
  <1>1. TypeOK /\ HeldRows(c) /\ esc' = esc /\ cases' = cases /\ HeldRead(q)'
    BY AnsweredHeld DEF IInv, HeldInv, escVars, PdfCommit, ReviewCommit
  <1>2. CASE \A d \in Cases : SameReviews(d)
    BY <1>1, <1>2, QuietHeld DEF HeldStep
  <1>3. CASE PdfCommit(q)
    <2>1. /\ OnlyRun(c, k) /\ runs'[c][k].status = runs[c][k].status
          /\ runs'[c][k].review = runs[c][k].review
      BY <1>0, <1>1, <1>3, RunBound DEF PdfCommit
    <2>2. \A d \in Cases : SameReviews(d)
      BY <2>1 DEF OnlyRun, SameReviews
    <2> QED BY <1>2, <2>2
  <1>4. CASE ReviewCommit(q) /\ runs[c][k].review = "none"
    <2>1. req[q].arg \in Verdict /\ caseLock[c] = NoRequest
      BY <1>0, <1>4 DEF ReviewCommit, CaseFree, IInv, RequestOK, NamesRows
    <2>2. OnlyRun(c, k) /\ runs'[c][k].status = runs[c][k].status
      BY <1>0, <1>1, <1>4, <2>1, RunReviewed DEF ReviewCommit
    <2>3. \A d \in Cases \ {c} : Kept(d)
      BY <1>1, <2>2, SameHolds DEF Kept, SameReviews, OnlyRun
    <2>4. \A l \in Keys : runs'[c][l].status = runs[c][l].status
      BY <2>2 DEF OnlyRun
    <2>5. cases[c].run \in Keys \cup {NoKey}
      BY <1>1 DEF TypeOK, Case
    <2>6. Analyzing(c)' = Analyzing(c) /\ Completed(c)' = Completed(c)
      BY <1>1, <2>4, <2>5 DEF Analyzing, Completed
    <2>7. HeldRows(c)'
      BY <1>1, <2>6, SameHolds DEF HeldRows
    <2>8. HeldWrite(q, c)
      BY <1>0, <1>1, <2>1, <2>4, <2>7, SameHolds DEF HeldWrite
    <2> QED BY <1>1, <2>3, <2>8, KeptHeld DEF HeldInv, HeldStep
  <1>5. CASE ReviewCommit(q) /\ runs[c][k].review # "none"
    BY <1>0, <1>2, <1>5 DEF ReviewCommit, SameReviews
  <1> QED BY <1>3, <1>4, <1>5

LEMMA AdvanceHeld ==
  ASSUME IInv, HeldInv, NEW q \in Requests, AdvanceWrite(q), UNCHANGED escVars
  PROVE  HeldStep(q)
  <1>0. PICK c \in Cases, s \in {"client_ready", "delivered", "archived"} :
          c = req[q].case /\ s = req[q].arg
    BY DEF AdvanceWrite, IInv, RequestOK, NamesRows
  <1>1. TypeOK /\ HeldRows(c) /\ runs' = runs /\ esc' = esc /\ HeldRead(q)'
    BY AnsweredHeld DEF IInv, HeldInv, escVars, AdvanceWrite
  <1>2. req[q].at = "write" /\ caseLock[c] = NoRequest /\ SetStatus(c, s) /\ s \in CaseStatus
    BY <1>0 DEF AdvanceWrite, CaseFree, CaseStatus
  <1>3. /\ cases'[c].run = cases[c].run /\ cases'[c].status = s
        /\ \A d \in Cases \ {c} : cases'[d] = cases[d]
    BY <1>1, <1>2, StatusSet, OtherCases
  <1>4. \A d \in Cases \ {c} : Kept(d)
    BY <1>1, <1>3, SameHolds DEF Kept, SameReviews
  <1>5. HeldRows(c)'
    BY <1>1, <1>3, SameHolds DEF HeldRows, Analyzing, Completed, Startable
  <1>6. HeldWrite(q, c)
    BY <1>0, <1>1, <1>2, <1>3, <1>5, SameHolds DEF HeldWrite
  <1> QED BY <1>1, <1>4, <1>6, KeptHeld DEF HeldInv, HeldStep

LEMMA InsertHeld ==
  ASSUME IInv, HeldInv, NEW q \in Requests, CreateInsert(q)
  PROVE  HeldStep(q)
  <1>0. PICK c \in Cases, k \in Keys, e \in Escalations, a \in Kind :
          c = req[q].case /\ k = req[q].run /\ e = req[q].esc /\ a = req[q].arg
    BY DEF CreateInsert, IInv, RequestOK, NamesRows, RunSteps
  <1>1. /\ TypeOK /\ HeldRows(c) /\ runs' = runs /\ HeldRead(q)'
        /\ req[q].at = "insert" /\ esc[e].status = "absent"
    BY <1>0, AnsweredHeld DEF IInv, HeldInv, CreateInsert
  <1>2. /\ cases[c].run = k /\ k # NoKey /\ cases[c].status = "operator_review"
        /\ runs[c][k].status = "completed" /\ caseLock[c] = q
    BY <1>0, <1>1, PilotAssumption DEF HeldInv, HeldRead, Permitted
  <1>3. ActiveBlocking(c) = {}
    BY <1>1, <1>2 DEF HeldRows
  <1>4. /\ esc'[e].case = c /\ esc'[e].kind = a /\ esc'[e].status \in Active
        /\ \A f \in Escalations \ {e} : esc'[f] = esc[f]
    BY <1>0, <1>1 DEF CreateInsert, SetEsc, TypeOK, Active
  <1>5. /\ \A d \in Cases \ {c} : ActiveBlocking(d)' = ActiveBlocking(d)
        /\ ActiveBlocking(c)' = IF a \in Blocking THEN {e} ELSE {}
    <2>1. /\ \A d \in Cases \ {c} : ActiveBlocking(d)' = ActiveBlocking(d)
          /\ ActiveBlocking(c)' = IF Hold(esc'[e]) THEN ActiveBlocking(c) \cup {e}
                                                   ELSE ActiveBlocking(c) \ {e}
      BY <1>1, <1>4, HoldWritten
    <2>2. Hold(esc'[e]) <=> a \in Blocking
      BY <1>4 DEF Hold
    <2> QED BY <1>3, <2>1, <2>2
  <1>6. CASE a \in Blocking
    <2>1. /\ cases'[c].run = k /\ cases'[c].status = "expert_review"
          /\ \A d \in Cases \ {c} : cases'[d] = cases[d]
      <3>1. SetStatus(c, "expert_review") /\ "expert_review" \in CaseStatus
        BY <1>0, <1>6 DEF CreateInsert, CaseStatus
      <3>2. cases'[c].run = cases[c].run /\ cases'[c].status = "expert_review"
        BY <1>1, <3>1, StatusSet
      <3>3. \A d \in Cases \ {c} : cases'[d] = cases[d]
        BY <1>1, <3>1, OtherCases
      <3> QED BY <1>2, <3>2, <3>3
    <2>2. \A d \in Cases \ {c} : Kept(d)
      BY <1>1, <1>5, <2>1 DEF Kept, SameReviews
    <2>3. HeldRows(c)'
      BY <1>1, <1>2, <1>5, <1>6, <2>1 DEF HeldRows, Analyzing, Completed, Startable
    <2>4. HeldWrite(q, c)
      BY <1>0, <1>1, <1>2, <1>6, <2>1, <2>3 DEF HeldWrite, Holding
    <2> QED BY <1>1, <2>2, <2>4, KeptHeld DEF HeldInv, HeldStep
  <1>7. CASE a \notin Blocking
    <2>1. cases' = cases
      BY <1>0, <1>7 DEF CreateInsert
    <2>2. \A d \in Cases : Kept(d)
      BY <1>1, <1>3, <1>5, <1>7, <2>1 DEF Kept, SameReviews
    <2> QED BY <1>1, <2>2, KeptHeld DEF HeldInv, HeldStep
  <1> QED BY <1>6, <1>7

LEMMA DecideHeld ==
  ASSUME IInv, HeldInv, NEW q \in Requests, BlockCase(q) \/ Resolve(q) \/ ReleaseCase(q)
  PROVE  HeldStep(q)
  <1>0. req[q].at \in Deciding
    BY DEF BlockCase, Resolve, ReleaseCase, Deciding
  <1>1. PICK c \in Cases, e \in Escalations : c = req[q].case /\ e = req[q].esc
    BY <1>0 DEF IInv, RequestOK, NamesRows
  <1>2. PICK st \in Final : CloseEsc(q, st)
    BY DEF BlockCase, Resolve, ReleaseCase, Final
  <1>3. TypeOK /\ HeldRows(c) /\ runs' = runs /\ HeldRead(q) /\ HeldRead(q)'
    BY <1>2, AnsweredHeld DEF IInv, HeldInv, CloseEsc
  <1>4. esc[e].case = c /\ esc[e] \in Escalation
    BY <1>0, <1>1, <1>3 DEF HeldRead, TypeOK
  <1>5. /\ esc'[e].case = c /\ esc'[e].status = st
        /\ \A f \in Escalations \ {e} : esc'[f] = esc[f]
    BY <1>1, <1>2, <1>3, <1>4 DEF CloseEsc, SetEsc, TypeOK, Escalation
  <1>6. /\ \A d \in Cases \ {c} : ActiveBlocking(d)' = ActiveBlocking(d)
        /\ ActiveBlocking(c)' = ActiveBlocking(c) \ {e}
    <2>1. ~ Hold(esc'[e])
      BY <1>5 DEF Hold, Active, Final
    <2> QED BY <1>4, <1>5, <2>1, HoldWritten
  <1>7. ASSUME NEW s \in {"operator_review", "archived"}, SetStatus(c, s),
               s = "operator_review" =>
                 cases[c].status = "expert_review" /\ ActiveBlocking(c) \subseteq {e},
               caseLock[c] = NoRequest
        PROVE  HeldStep(q)
    <2>1. s \in CaseStatus
      BY DEF CaseStatus
    <2>2. /\ cases'[c].run = cases[c].run /\ cases'[c].status = s
          /\ \A d \in Cases \ {c} : cases'[d] = cases[d]
      BY <1>3, <1>7, <2>1, StatusSet, OtherCases
    <2>3. \A d \in Cases \ {c} : Kept(d)
      BY <1>3, <1>6, <2>2 DEF Kept, SameReviews
    <2>4. s = "operator_review" => ActiveBlocking(c)' = {} /\ Completed(c)
      BY <1>3, <1>6, <1>7 DEF HeldRows
    <2>5. HeldRows(c)'
      BY <1>3, <1>6, <2>2, <2>4 DEF HeldRows, Analyzing, Completed, Startable
    <2>6. HeldWrite(q, c)
      BY <1>1, <1>3, <1>6, <1>7, <2>2, <2>4, <2>5 DEF HeldWrite
    <2> QED BY <1>3, <2>3, <2>6, KeptHeld DEF HeldInv, HeldStep
  <1>8. CASE BlockCase(q)
    BY <1>1, <1>7, <1>8 DEF BlockCase, CaseFree
  <1>9. CASE Resolve(q)
    <2>1. e \notin ActiveBlocking(c)
      BY <1>1, <1>3, <1>9 DEF Resolve, HeldRead, ActiveBlocking
    <2>2. \A d \in Cases : Kept(d)
      BY <1>3, <1>6, <1>9, <2>1 DEF Resolve, Kept, SameReviews
    <2> QED BY <1>3, <2>2, KeptHeld DEF HeldInv, HeldStep
  <1>10. CASE ReleaseCase(q)
    <2>1. ActiveBlocking(c) \subseteq {e} /\ caseLock[c] = NoRequest
      BY <1>1, <1>3, <1>10 DEF ReleaseCase, HeldRead, CaseFree
    <2>2. CASE cases[c].status = "expert_review"
      BY <1>1, <1>7, <1>10, <2>1, <2>2 DEF ReleaseCase
    <2>3. CASE cases[c].status # "expert_review"
      <3>1. cases' = cases
        BY <1>1, <1>10, <2>3 DEF ReleaseCase
      <3>2. \A d \in Cases \ {c} : Kept(d)
        BY <1>3, <1>6, <3>1 DEF Kept, SameReviews
      <3>3. HeldRows(c)'
        BY <1>3, <1>6, <2>1, <2>3, <3>1 DEF HeldRows, Analyzing, Completed
      <3>4. HeldWrite(q, c)
        BY <1>3, <1>6, <3>1, <3>3 DEF HeldWrite, SameReviews
      <3> QED BY <1>3, <3>2, <3>4, KeptHeld DEF HeldInv, HeldStep
    <2> QED BY <2>2, <2>3
  <1> QED BY <1>8, <1>9, <1>10

LEMMA RequestHeld ==
  ASSUME IInv, HeldInv, NEW q \in Requests,
         Ask(q) \/ Handle(q) \/ Crash(q) \/ DeadlockVictim(q)
  PROVE  HeldStep(q)
  <1>1. CASE Ask(q)
    BY <1>1, AskHeld
  <1>2. CASE RouterStep(q) /\ UNCHANGED escVars
    BY <1>2, RouterReadingHeld, StartHeld, CompleteHeld, RunWritesHeld, AdvanceHeld
       DEF RouterStep
  <1>3. CASE ExpertStep(q)
    BY <1>3, ExpertReadingHeld, InsertHeld, DecideHeld DEF ExpertStep
  <1>4. CASE Rollback(q) /\ ReleaseEsc(q)
    <2>1. cases' = cases /\ esc' = esc /\ \A c \in Cases : SameReviews(c)
      BY <1>4 DEF Rollback, ReleaseEsc, SameReviews
    <2>2. HeldRead(q)'
      BY <1>4, AnsweredHeld DEF Rollback
    <2> QED BY <2>1, <2>2, QuietHeld DEF HeldStep
  <1> QED BY <1>1, <1>2, <1>3, <1>4 DEF Handle, Crash, DeadlockVictim

(* What another request of the case has read is still so.                  *)
LEMMA OtherHeld ==
  ASSUME IInv, HeldInv, SevereApart, NEW q \in Requests, NEW p \in Requests \ {q},
         Ask(q) \/ Handle(q) \/ Crash(q) \/ DeadlockVictim(q),
         \A c \in Cases : HeldWrite(q, c)
  PROVE  HeldRead(p)'
  <1>0. HeldRead(p) /\ NamesRows(p) /\ req'[p] = req[p]
    BY RequestStep DEF HeldInv, IInv, RequestOK, History
  <1>1. CASE req[p].at \in Completing
    <2>1. PICK c \in Cases, k \in Keys : c = req[p].case /\ k = req[p].run
      BY <1>0, <1>1 DEF NamesRows, RunSteps
    <2>2. Analyzing(c)
      BY <1>0, <1>1, <2>1, PilotAssumption DEF HeldRead, Analyzing
    <2>3. ~ (c = req[q].case /\ req[q].at = "complete")
      BY <1>1, <2>1 DEF SevereApart
    <2>4. cases'[c].run = cases[c].run /\ runs'[c][k].status = runs[c][k].status
      BY <2>2, <2>3 DEF HeldWrite
    <2> QED BY <1>0, <1>1, <2>1, <2>4 DEF HeldRead, Deciding
  <1>2. CASE req[p].at \in {"bill", "insert"}
    <2>1. PICK c \in Cases, k \in Keys : c = req[p].case /\ k = req[p].run
      BY <1>0, <1>2 DEF NamesRows, RunSteps
    <2>2. caseLock[c] = p /\ Permitted(c, k)
      BY <1>0, <1>2, <2>1 DEF HeldRead
    <2>3. cases'[c] = cases[c] /\ SameReviews(c)
      BY <2>2, PilotAssumption DEF HeldWrite
    <2>4. caseLock'[c] = caseLock[c]
      BY <1>2, <2>1, CaseLockKept DEF LocksCase, HeldInv, HeldRead
    <2>5. Permitted(c, k)'
      BY <2>2, <2>3 DEF Permitted, SameReviews
    <2> QED BY <1>0, <1>2, <2>1, <2>2, <2>4, <2>5 DEF HeldRead, Deciding
  <1>3. CASE req[p].at \in Deciding
    <2>1. PICK c \in Cases, e \in Escalations : c = req[p].case /\ e = req[p].esc
      BY <1>0, <1>3 DEF NamesRows
    <2>2. esc'[e] = esc[e]
      BY <1>3, <2>1, LockedKept
    <2>3. req[p].at = "release" => ActiveBlocking(c)' \subseteq ActiveBlocking(c)
      BY <2>1 DEF SevereApart, HeldWrite
    <2> QED BY <1>0, <1>3, <2>1, <2>2, <2>3 DEF HeldRead, Deciding
  <1>4. CASE req[p].at \notin Completing \cup {"bill", "insert"} \cup Deciding
    BY <1>0, <1>4 DEF HeldRead, Deciding
  <1> QED BY <1>1, <1>2, <1>3, <1>4

LEMMA HeldInductive ==
  Spec /\ []SevereApart => []HeldInv
  <1>1. Init => HeldInv
    <2> SUFFICES ASSUME Init PROVE HeldInv
      OBVIOUS
    <2> USE DEF Init, PilotInit, EscInit
    <2>1. \A c \in Cases : ActiveBlocking(c) = {}
      BY DEF ActiveBlocking, NoEsc, Active
    <2>2. \A c \in Cases : HeldRows(c)
      BY <2>1 DEF HeldRows, Analyzing
    <2>3. \A q \in Requests : HeldRead(q)
      BY DEF HeldRead, Idle, Asked, Deciding
    <2> QED BY <2>2, <2>3 DEF HeldInv
  <1>2. IInv /\ HeldInv /\ SevereApart /\ [Next]_vars => HeldInv'
    <2> SUFFICES ASSUME IInv, HeldInv, SevereApart, [Next]_vars
                 PROVE  HeldInv'
      OBVIOUS
    <2>1. ASSUME NEW q \in Requests, Ask(q) \/ Handle(q) \/ Crash(q) \/ DeadlockVictim(q)
          PROVE  HeldInv'
      <3>1. HeldStep(q)
        BY <2>1, RequestHeld
      <3>2. \A p \in Requests \ {q} : HeldRead(p)'
        BY <2>1, <3>1, OtherHeld DEF HeldStep
      <3> QED BY <3>1, <3>2 DEF HeldStep, HeldWrite, HeldInv
    <2>2. ASSUME UNCHANGED <<cases, runs, caseLock, req>>,
                 \A e \in Escalations : esc'[e].case = esc[e].case /\ esc'[e].kind = esc[e].kind,
                 \A c \in Cases : ActiveBlocking(c)' = ActiveBlocking(c)
          PROVE  HeldInv'
      <3>1. \A c \in Cases : HeldRows(c)'
        BY <2>2 DEF HeldInv, HeldRows, Analyzing, Completed
      <3>2. ASSUME NEW q \in Requests
            PROVE  HeldRead(q)'
        <4>1. HeldRead(q) /\ NamesRows(q)
          BY DEF HeldInv, IInv, RequestOK
        <4>2. CASE req[q].at \in Deciding
          <5>1. PICK c \in Cases, e \in Escalations : c = req[q].case /\ e = req[q].esc
            BY <4>1, <4>2 DEF NamesRows
          <5>2. ActiveBlocking(c)' = ActiveBlocking(c) /\ esc'[e].case = esc[e].case
                /\ esc'[e].kind = esc[e].kind
            BY <2>2
          <5> QED BY <2>2, <4>1, <4>2, <5>1, <5>2 DEF HeldRead, Deciding
        <4>3. CASE req[q].at \notin Deciding
          BY <2>2, <4>1, <4>3 DEF HeldRead, Permitted, Deciding
        <4> QED BY <4>2, <4>3
      <3> QED BY <3>1, <3>2 DEF HeldInv
    <2>3. CASE UNCHANGED vars
      BY <2>2, <2>3 DEF vars, ActiveBlocking
    <2> QED BY <2>1, <2>2, <2>3, WorkKeepsHolds DEF Next
  <1> QED BY <1>1, <1>2, Inductive, PTL DEF Spec

(* A case in expert review has the escalation whose decision releases it   *)
(* (record_expert_decision) as soon as complete_run commits alone and no   *)
(* severe escalation is stored between the count of a decision and the     *)
(* release of its case, whatever else overlaps.                            *)
THEOREM ReleasableNeedsApart ==
  Spec /\ []SevereApart => []ExpertReviewReleasable
  <1>1. HeldInv => ExpertReviewReleasable
    BY DEF HeldInv, HeldRows, ExpertReviewReleasable
  <1> QED BY <1>1, HeldInductive, PTL

(* What the block of a handover needs beyond that: no severe escalation is *)
(* stored between the load and the write of a handover of its case.        *)
HandoversApart ==
  \A p, q \in Requests :
    req[p].at \in Advancing /\ req[p].arg \in HandedOver /\ Holding(q) =>
      req[p].case # req[q].case

(* A case with a severe escalation is in expert review or archived, and no *)
(* handover of it is under way.                                            *)
HeldBack(c) ==
  ActiveBlocking(c) # {} =>
    /\ cases[c].status \in {"expert_review", "archived"}
    /\ \A q \in Requests :
         req[q].at \in Advancing /\ req[q].arg \in HandedOver => req[q].case # c

LEMMA HeldBackStep ==
  ASSUME IInv, HeldInv, HandoversApart, \A c \in Cases : HeldBack(c), NEW q \in Requests,
         Ask(q) \/ Handle(q) \/ Crash(q) \/ DeadlockVictim(q)
  PROVE  \A c \in Cases : HeldBack(c)'
  <1>1. History(q) /\ \A c \in Cases : HeldWrite(q, c)
    BY RequestStep, RequestHeld DEF HeldStep
  <1>2. req'[q].at \in Advancing /\ req'[q].arg \in HandedOver =>
          \/ /\ req[q].at \in Advancing /\ req[q].arg \in HandedOver
             /\ req'[q].case = req[q].case
          \/ /\ cases[req'[q].case].status \notin {"expert_review", "archived"}
             /\ esc' = esc
    BY HandoverEntered DEF HandoverLoaded, HandoverChecked
  <1> SUFFICES ASSUME NEW c \in Cases, ActiveBlocking(c)' # {}
               PROVE  /\ cases'[c].status \in {"expert_review", "archived"}
                      /\ \A p \in Requests :
                           req'[p].at \in Advancing /\ req'[p].arg \in HandedOver =>
                             req'[p].case # c
    BY DEF HeldBack
  <1>3. CASE ActiveBlocking(c) # {}
    <2>1. /\ cases[c].status \in {"expert_review", "archived"}
          /\ \A p \in Requests :
               req[p].at \in Advancing /\ req[p].arg \in HandedOver => req[p].case # c
      BY <1>3 DEF HeldBack
    <2>2. ~ (c = req[q].case /\ req[q].at = "write") \/ req[q].arg = "archived"
      BY <2>1 DEF IInv, RequestOK, NamesRows, HandedOver
    <2>3. cases'[c].status \in {"expert_review", "archived"}
      BY <1>1, <2>1, <2>2 DEF HeldWrite
    <2> QED BY <1>1, <1>2, <2>1, <2>3 DEF History
  <1>4. CASE ActiveBlocking(c) = {}
    <2>1. c = req[q].case /\ Holding(q) /\ cases'[c].status = "expert_review"
      BY <1>1, <1>4 DEF HeldWrite
    <2>2. \A p \in Requests :
            req[p].at \in Advancing /\ req[p].arg \in HandedOver => req[p].case # c
      BY <2>1 DEF HandoversApart
    <2>3. esc' # esc
      BY <1>4 DEF ActiveBlocking
    <2> QED BY <1>1, <1>2, <2>1, <2>2, <2>3 DEF History
  <1> QED BY <1>3, <1>4

(* A severe escalation blocks client_ready and delivery of its case as     *)
(* soon as, beyond that, none is stored between the load and the write of  *)
(* a handover (mark_client_ready, delivered); new runs, reviews, PDFs and  *)
(* archiving may overlap in every way.                                     *)
THEOREM BlockNeedsApart ==
  Spec /\ []SevereApart /\ []HandoversApart => []SevereBlocksHandover
  <1> DEFINE AllHeldBack == \A c \in Cases : HeldBack(c)
  <1>1. Init => AllHeldBack
    BY DEF Init, PilotInit, EscInit, HeldBack, ActiveBlocking, NoEsc, Active
  <1>2. IInv /\ HeldInv /\ HandoversApart /\ AllHeldBack /\ [Next]_vars => AllHeldBack'
    <2> SUFFICES ASSUME IInv, HeldInv, HandoversApart, AllHeldBack, [Next]_vars
                 PROVE  AllHeldBack'
      OBVIOUS
    <2>1. ASSUME UNCHANGED <<cases, req>>,
                 \A c \in Cases : ActiveBlocking(c)' = ActiveBlocking(c)
          PROVE  AllHeldBack'
      BY <2>1 DEF HeldBack
    <2>2. CASE UNCHANGED vars
      BY <2>1, <2>2 DEF vars, ActiveBlocking
    <2> QED BY <2>1, <2>2, WorkKeepsHolds, HeldBackStep DEF Next
  <1>3. AllHeldBack => SevereBlocksHandover
    BY DEF HeldBack, SevereBlocksHandover, HandedOver
  <1> QED BY <1>1, <1>2, <1>3, HeldInductive, Inductive, PTL DEF Spec

-----------------------------------------------------------------------------
(* What the release of a case needs: no severe escalation is stored        *)
(* between the count of a decision and the release of its case.            *)
ReleasesApart ==
  \A p, q \in Requests :
    req[p].at = "release" /\ Holding(q) => req[p].case # req[q].case

Counted(q) == req[q].at = "release" => ActiveBlocking(req[q].case) \subseteq {req[q].esc}

LEMMA OnlyInsertHolds ==
  ASSUME IInv, NEW q \in Requests, NEW c \in Cases,
         Ask(q) \/ Handle(q) \/ Crash(q) \/ DeadlockVictim(q)
  PROVE  ActiveBlocking(c)' \subseteq ActiveBlocking(c) \/ (Holding(q) /\ c = req[q].case)
  <1>1. CASE esc' = esc
    BY <1>1, SameHolds
  <1>2. CASE CreateInsert(q)
    <2>1. /\ req[q].at = "insert" /\ req[q].esc \in Escalations
          /\ esc'[req[q].esc].case = req[q].case /\ esc'[req[q].esc].kind = req[q].arg
          /\ \A e \in Escalations \ {req[q].esc} : esc'[e] = esc[e]
      BY <1>2 DEF CreateInsert, SetEsc, IInv, TypeOK, RequestOK, NamesRows
    <2> QED BY <2>1 DEF ActiveBlocking, Holding
  <1>3. ASSUME NEW st \in Final, req[q].at \in Deciding, CloseEsc(q, st)
        PROVE  ActiveBlocking(c)' \subseteq ActiveBlocking(c)
    <2>1. /\ req[q].esc \in Escalations
          /\ \A e \in Escalations \ {req[q].esc} : esc'[e] = esc[e]
      BY <1>3, Closed
    <2>2. esc'[req[q].esc].status = st
      <3>1. esc \in [Escalations -> Escalation]
        BY DEF IInv, TypeOK
      <3> QED BY <1>3, <2>1, <3>1 DEF CloseEsc, SetEsc, Escalation
    <2> QED BY <2>1, <2>2 DEF ActiveBlocking, Active, Final
  <1>4. CASE ExpertStep(q)
    BY <1>1, <1>2, <1>3, <1>4
       DEF ExpertStep, CreateLock, CreateRefused, CreateBill, CreateConflict, BlockCase,
           DecideCount, Resolve, ReleaseCase, escVars, Deciding, Final
  <1>5. CASE \/ Ask(q)
             \/ RouterStep(q) /\ UNCHANGED <<escVars, faults>>
             \/ Crash(q)
             \/ DeadlockVictim(q)
    BY <1>1, <1>5 DEF Ask, ExpertBegin, ExpertDecides, CreateRead, DecideLock, Crash,
                      DeadlockVictim, ReleaseEsc, escVars
  <1> QED BY <1>4, <1>5 DEF Handle

(* Only the count of record_expert_decision leads a request to a release.  *)
LEMMA ReleaseEntered ==
  ASSUME IInv, NEW q \in Requests, req'[q].at = "release",
         Ask(q) \/ Handle(q) \/ Crash(q) \/ DeadlockVictim(q)
  PROVE  DecideCount(q)
  <1>1. ~ Answer(q)
    <2>1. Answer(q) => req'[q] = Idle
      BY ReqTypes DEF IInv
    <2> QED BY <2>1 DEF Idle, Asked
  <1>2. ASSUME NEW at \in Steps \ {"release"}, Goto(q, at)
        PROVE  FALSE
    BY <1>2, ReadOn
  <1>3. ~ Ask(q)
    <2>1. \A at, c, k, e, seen, arg : Begin(q, Asked(at, c, k, e, seen, arg)) => req'[q].at = at
      BY DEF IInv, TypeOK, Begin, Asked
    <2> QED BY <2>1 DEF Ask, RouterBegin, ExpertBegin, ExpertDecides, StartRead, CompleteRead,
                        PdfRead, ReviewRead, AdvanceRead, CreateRead, DecideLock
  <1>4. ~ CreateBill(q)
    BY BillRow DEF IInv
  <1>5. ~ RouterStep(q)
    BY <1>1, <1>2 DEF RouterStep, StartClaim, CompleteBind, CompletePublish, CompleteCommit,
                      PdfPublish, PdfCommit, ReviewCommit, AdvanceCheck, AdvanceWrite, Steps
  <1>6. ExpertStep(q) => DecideCount(q)
    BY <1>1, <1>2, <1>4 DEF ExpertStep, CreateLock, CreateRefused, CreateInsert, CreateConflict,
                            BlockCase, Resolve, ReleaseCase, CloseEsc, Steps
  <1> QED BY <1>1, <1>3, <1>5, <1>6 DEF Handle, Crash, DeadlockVictim, Rollback

LEMMA CountedStep ==
  ASSUME IInv, \A p \in Requests : Counted(p), ReleasesApart, NEW q \in Requests,
         Ask(q) \/ Handle(q) \/ Crash(q) \/ DeadlockVictim(q)
  PROVE  \A p \in Requests : Counted(p)'
  <1>1. Counted(q)'
    <2>1. SUFFICES ASSUME req'[q].at = "release"
                   PROVE  ActiveBlocking(req[q].case)' \subseteq {req[q].esc}
                          /\ req'[q].case = req[q].case /\ req'[q].esc = req[q].esc
      BY DEF Counted, ActiveBlocking
    <2>2. DecideCount(q)
      BY <2>1, ReleaseEntered
    <2> DEFINE rest == ActiveBlocking(req[q].case) \ {req[q].esc}
               at == IF rest = {} THEN "release" ELSE "resolve"
    <2>3. at \in Steps /\ Goto(q, at) /\ esc' = esc
      BY <2>2 DEF DecideCount, Steps, escVars
    <2>4. req'[q].at = at /\ req'[q].case = req[q].case /\ req'[q].esc = req[q].esc
      BY <2>3, ReadOn
    <2> QED BY <2>1, <2>3, <2>4 DEF ActiveBlocking
  <1>2. \A p \in Requests \ {q} : req'[p] = req[p]
    BY RequestStep DEF History
  <1>3. ASSUME NEW p \in Requests \ {q}
        PROVE  Counted(p)'
    <2>1. CASE req[p].at = "release"
      <3>1. PICK c \in Cases : c = req[p].case
        BY <2>1 DEF IInv, RequestOK, NamesRows, Deciding
      <3>2. ActiveBlocking(c)' \subseteq ActiveBlocking(c)
        BY <2>1, <3>1, OnlyInsertHolds DEF ReleasesApart
      <3> QED BY <1>2, <2>1, <3>1, <3>2 DEF Counted
    <2> QED BY <1>2, <2>1 DEF Counted
  <1> QED BY <1>1, <1>3

(* A final decision releases its case only when no other severe escalation *)
(* is open (record_expert_decision), as soon as none is stored between its *)
(* count and its release: that overlap is the only cause of a release too  *)
(* many.                                                                   *)
THEOREM ReleaseNeedsApart ==
  Spec /\ []ReleasesApart => ReleasedOnlyIfUnblocked
  <1> DEFINE AllCounted == \A q \in Requests : Counted(q)
  <1>1. Init => AllCounted
    BY DEF Init, PilotInit, Counted, Idle, Asked
  <1>2. IInv /\ ReleasesApart /\ AllCounted /\ [Next]_vars => AllCounted'
    <2> SUFFICES ASSUME IInv, ReleasesApart, AllCounted, [Next]_vars
                 PROVE  AllCounted'
      OBVIOUS
    <2>1. CASE UNCHANGED vars
      BY <2>1 DEF vars, Counted, ActiveBlocking
    <2>2. ASSUME NEW e \in Escalations, ExpertWork(e)
          PROVE  AllCounted'
      <3>1. req' = req /\ \A c \in Cases : ActiveBlocking(c)' = ActiveBlocking(c)
        BY <2>2, WorkKeepsHolds
      <3> QED BY <3>1 DEF Counted, IInv, RequestOK, NamesRows, Deciding
    <2> QED BY <2>1, <2>2, CountedStep DEF Next
  <1>3. AllCounted /\ [Next]_vars =>
          [\A q \in Requests :
             (ReleaseCase(q) /\ cases[req[q].case].status = "expert_review")
               => ActiveBlocking(req[q].case) \subseteq {req[q].esc}]_vars
    BY DEF Counted, ReleaseCase
  <1> QED BY <1>1, <1>2, <1>3, Inductive, PTL DEF Spec, ReleasedOnlyIfUnblocked

=============================================================================
