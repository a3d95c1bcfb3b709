--------------------------- MODULE DailyTenderRun ---------------------------
(***************************************************************************)
(* The daily tender run (src/src/modules/daily_tender_run): a run finds    *)
(* procurements, screens them, analyses a few, hands the reports to the    *)
(* manager and follows the manager's decisions.  Every stage commits, so   *)
(* that a run that died or waits is executed again from its rows.          *)
(*                                                                         *)
(* One process executes runs at a time.  The manager, the source of the    *)
(* procurements and the devices go on meanwhile.                           *)
(***************************************************************************)
EXTENDS MobilePush

CONSTANTS
  Days,          \* bound: the runs of one profile, by order of creation
  Procs,         \* registry numbers
  Urgent,        \* those whose deadline is less than 24 hours away
  NoPrint,       \* fingerprint of an item that does not exist
  MaxDeep,       \* DailyTenderProfile.max_deep_analysis
  Prints,        \* fingerprints of the source cards
  MaxDecisions,  \* bound: decisions of the manager on one procurement
  MaxFaults      \* bound: crashes, aborted dispatches and lost APNs answers

Runs == 1..Days

Items == Runs \X Procs

NoItem == <<0, 0>>

Actions == {"GO", "NO_GO", "DEFER"}

ItemNotices == Runs \X Procs \X {"REPORT_READY", "PROCUREMENT_CHANGED", "DEADLINE_RISK"}

ASSUME DailyAssumption ==
  /\ Days \in Nat /\ MaxDeep \in Nat /\ MaxFaults \in Nat
  /\ MaxDecisions \in Nat /\ NoPrint \notin Prints
  /\ IsFiniteSet(Procs) /\ Urgent \subseteq Procs
  /\ Notices = ItemNotices \cup (Procs \X (1..MaxDecisions) \X {"DEFERRED_DUE"})

VARIABLES
  run,       \* DailyTenderRun.status, "ABSENT" before the row
  born,      \* rank of the discovery that created the items of a run, 0 before
  status,    \* DailyTenderRunItem.status, "ABSENT" before the row
  print,     \* source_fingerprint of an item
  analysis,  \* analysis_run_id and analysis_status of an item
  bound,     \* the items with a deal_id
  step,      \* what the executing process does next
  cur,       \* the run it executes
  retry,     \* its retry_failed
  todo,      \* the items it has still to process, to advance
  item,      \* the item it processes
  notices,   \* the notices it has still to dispatch
  deals,     \* the procurements with a deal
  decision,  \* the manager's latest decision on a procurement
  faults     \* faults so far

itemVars == <<status, print, analysis, bound>>
execVars == <<step, cur, retry, todo, item, notices>>
managerVars == <<deals, decision>>
vars == <<run, born, itemVars, execVars, managerVars, faults, pushVars>>

-----------------------------------------------------------------------------
(* Rows *)

Waiting == {"WAITING_HUMAN", "WAITING_READINESS", "WAITING_SUBMISSION", "WAITING_OUTCOME"}

Ended == Waiting \cup {"COMPLETED", "COMPLETED_WITH_ERRORS"}

RunStatus == Ended \cup {"ABSENT", "PENDING", "RUNNING"}

Processable == {"SHORTLISTED", "PROCESSING"}

\* post_go.py _ACTIVE_STATUSES.
Active == {"MANAGER_READY", "DEFERRED", "DECIDED_NO_GO", "POST_DECISION", "READINESS_BLOCKED",
           "AWAITING_SUBMISSION_EVIDENCE", "AWAITING_OUTCOME_EVIDENCE", "POST_DECISION_FAILED"}

ItemStatus == Processable \cup Active \cup
  {"ABSENT", "DISCOVERED", "DUPLICATE", "SCREENED_OUT", "FAILED", "OUTCOME_RECORDED"}

Reused == {"MANAGER_READY", "SCREENED_OUT", "DUPLICATE"}

ItemsOf(r) == {i \in Items : i[1] = r /\ status[i] # "ABSENT"}

WithStatus(r, S) == {i \in ItemsOf(r) : status[i] \in S}

Undecided == [n |-> 0, action |-> "NONE"]

Steps == {"idle", "start", "discover", "screen", "retry", "pick", "intake", "bind",
          "analyze", "incomplete", "summarize", "advance", "go", "notify", "deferred"}

-----------------------------------------------------------------------------
Init ==
  /\ run = [r \in Runs |-> "ABSENT"] /\ born = [r \in Runs |-> 0]
  /\ status = [i \in Items |-> "ABSENT"]
  /\ print = [i \in Items |-> NoPrint]
  /\ analysis = [i \in Items |-> "none"]
  /\ bound = {}
  /\ step = "idle" /\ cur = 0 /\ retry = FALSE
  /\ todo = {} /\ item = NoItem /\ notices = {}
  /\ deals = {}
  /\ decision = [p \in Procs |-> Undecided]
  /\ faults = 0
  /\ PushInit

-----------------------------------------------------------------------------
(* Execution: a run is created or taken up again *)

Begin(r, f) ==
  /\ run' = [run EXCEPT ![r] = "RUNNING"]
  /\ step' = IF ItemsOf(r) = {} THEN "discover" ELSE "screen"
  /\ cur' = r /\ retry' = f
  /\ UNCHANGED <<born, itemVars, todo, item, notices, managerVars, faults, pushVars>>

\* create_daily_tender_run, with and without run_now.
CreateRun(r, f) ==
  /\ step = "idle" /\ run[r] = "ABSENT" /\ \A s \in 1..(r - 1) : run[s] # "ABSENT"
  /\ run' = [run EXCEPT ![r] = "PENDING"]
  /\ \/ step' = "start" /\ cur' = r /\ retry' = f
     \/ UNCHANGED <<step, cur, retry>>
  /\ UNCHANGED <<born, itemVars, todo, item, notices, managerVars, faults, pushVars>>

StartCreated == step = "start" /\ Begin(cur, retry)

(* Variant: the runs that wait for the manager are left to the operator. *)
CliResumeEvidence(r, f) ==
  /\ step = "idle" /\ run[r] \in (Waiting \ {"WAITING_HUMAN"}) \cup {"COMPLETED_WITH_ERRORS"}
  /\ Begin(r, f)

\* The scheduled command takes up what waits; it leaves PENDING and RUNNING.
CliResume(r, f) ==
  /\ step = "idle" /\ run[r] \in Waiting \cup {"COMPLETED_WITH_ERRORS"}
  /\ Begin(r, f)

\* The operator may take up any run.
ApiResume(r, f) ==
  /\ step = "idle" /\ run[r] # "ABSENT" /\ (run[r] = "COMPLETED" => f)
  /\ Begin(r, f)

-----------------------------------------------------------------------------
(* Discovery and screening *)

Earlier(r) == {s \in Runs \ {r} : born[s] > 0 /\ (born[r] > 0 => born[s] < born[r])}

\* The rows of other runs for a procurement, and the latest of them.
PreviousItems(r, p) == {<<s, p>> : s \in {s \in Earlier(r) : status[<<s, p>>] # "ABSENT"}}

IsPrevious(i, r, p) == /\ i \in PreviousItems(r, p)
                       /\ \A j \in PreviousItems(r, p) : born[j[1]] <= born[i[1]]

(* Variant: the fingerprints are not compared. *)
UnchangedAnyCard(r, p, card) == \E i \in PreviousItems(r, p) :
  /\ IsPrevious(i, r, p)
  /\ status[i] \in Reused \/ analysis[i] = "completed"

Unchanged(r, p, card) == \E i \in PreviousItems(r, p) :
  /\ IsPrevious(i, r, p)
  /\ print[i] = card
  /\ status[i] \in Reused \/ analysis[i] = "completed"

\* changed_since_previous, which the discovery stores.
Changed(i) == \E j \in PreviousItems(i[1], i[2]) :
                IsPrevious(j, i[1], i[2]) /\ print[j] # print[i]

NextBirth == 1 + Cardinality({s \in Runs : born[s] > 0})

\* The searches that failed contribute nothing; a card is as it was when it
\* was found last, or not.
Discover == \E found \in SUBSET Procs : \E card \in [found -> Prints] :
  LET new == {cur} \X found IN
  /\ step = "discover"
  /\ status' = [i \in Items |->
       IF i \notin new THEN status[i]
       ELSE IF Unchanged(cur, i[2], card[i[2]]) THEN "DUPLICATE" ELSE "DISCOVERED"]
  /\ print' = [i \in Items |-> IF i \in new THEN card[i[2]] ELSE print[i]]
  /\ born' = [born EXCEPT ![cur] = IF found = {} THEN @ ELSE NextBirth]
  /\ step' = "screen"
  /\ UNCHANGED <<run, analysis, bound, cur, retry, todo, item, notices, managerVars,
                 faults, pushVars>>

Reserved(r) == {i \in ItemsOf(r) :
                  status[i] \in {"PROCESSING", "MANAGER_READY"} \/ analysis[i] # "none"}

(* Variant: the shortlist is cut before this screening is flushed to it. *)
SlotsUnflushed(r) == MaxDeep + Cardinality(WithStatus(r, {"DISCOVERED"}))

\* How many items may be on the shortlist after a screening.
Slots(r) == LET free == MaxDeep - Cardinality(Reserved(r))
            IN IF free < 0 THEN 0 ELSE free

\* keep: the best of the shortlist, as many as there are slots.
Cut(shortlist, keep, slots) ==
  /\ keep \subseteq shortlist
  /\ Cardinality(keep) = IF Cardinality(shortlist) < slots
                         THEN Cardinality(shortlist) ELSE slots

Screen ==
  LET fresh == WithStatus(cur, {"DISCOVERED"}) IN
  \E in \in SUBSET fresh :
    LET shortlist == in \cup WithStatus(cur, {"SHORTLISTED"}) IN
    \E keep \in SUBSET shortlist :
      /\ step = "screen"
      /\ Cut(shortlist, keep, Slots(cur))
      /\ status' = [i \in Items |-> IF i \in keep THEN "SHORTLISTED"
                                    ELSE IF i \in fresh \cup shortlist THEN "SCREENED_OUT"
                                    ELSE status[i]]
      /\ step' = "retry"
      /\ UNCHANGED <<run, born, print, analysis, bound, cur, retry, todo, item, notices,
                     managerVars, faults, pushVars>>

(* Variant: failures after the decision are retried like the others. *)
RetryAnyFailure ==
  /\ step = "retry"
  /\ LET again == IF retry THEN WithStatus(cur, {"FAILED", "POST_DECISION_FAILED"}) ELSE {}
     IN /\ status' = [i \in Items |-> IF i \in again THEN "SHORTLISTED" ELSE status[i]]
        /\ todo' = again \cup WithStatus(cur, Processable)
  /\ step' = "pick"
  /\ UNCHANGED <<run, born, print, analysis, bound, cur, retry, item, notices, managerVars,
                 faults, pushVars>>

\* The failed items go back to the shortlist, if asked; then the candidates
\* are read.
RetryFailed ==
  /\ step = "retry"
  /\ LET again == IF retry THEN WithStatus(cur, {"FAILED"}) ELSE {}
     IN /\ status' = [i \in Items |-> IF i \in again THEN "SHORTLISTED" ELSE status[i]]
        /\ todo' = again \cup WithStatus(cur, Processable)
  /\ step' = "pick"
  /\ UNCHANGED <<run, born, print, analysis, bound, cur, retry, item, notices, managerVars,
                 faults, pushVars>>

-----------------------------------------------------------------------------
(* Processing of one item: acquisition, analysis and report *)

SetStatus(i, s) == status' = [status EXCEPT ![i] = s]

GoOn(s) == /\ step' = s
           /\ UNCHANGED <<cur, retry, todo, item, notices>>

Leave(s) == /\ step' = s /\ item' = NoItem
            /\ UNCHANGED <<cur, retry, todo, notices>>

Pick == \E i \in todo :
  /\ step = "pick"
  /\ SetStatus(i, "PROCESSING")
  /\ item' = i /\ todo' = todo \ {i}
  /\ step' = IF i \in bound THEN "analyze" ELSE "intake"
  /\ UNCHANGED <<run, born, print, analysis, bound, cur, retry, notices, managerVars,
                 faults, pushVars>>

\* create_tender_intake commits; it finds the deal of a known procurement.
IntakeDeal ==
  /\ step = "intake" /\ GoOn("bind")
  /\ deals' = deals \cup {item[2]}
  /\ UNCHANGED <<run, born, itemVars, decision, faults, pushVars>>

BindDeal ==
  /\ step = "bind" /\ GoOn("analyze")
  /\ bound' = bound \cup {item}
  /\ UNCHANGED <<run, born, status, print, analysis, managerVars, faults, pushVars>>

\* Ingestion, preparation and analysis; the result is committed before it
\* is looked at.
Analyze == \E a \in {"incomplete", "completed"} :
  /\ step = "analyze" /\ GoOn(IF a = "completed" THEN "summarize" ELSE "incomplete")
  /\ analysis' = [analysis EXCEPT ![item] = a]
  /\ UNCHANGED <<run, born, status, print, bound, managerVars, faults, pushVars>>

Summarize ==
  /\ step = "summarize" /\ Leave("pick")
  /\ SetStatus(item, "MANAGER_READY")
  /\ UNCHANGED <<run, born, print, analysis, bound, managerVars, faults, pushVars>>

(* Variant: the failure is rolled back and not recorded. *)
ItemFailsSilently ==
  /\ step \in {"intake", "bind", "analyze", "incomplete", "summarize"}
  /\ Leave("pick")
  /\ UNCHANGED <<run, born, itemVars, managerVars, faults, pushVars>>

\* One procurement fails: its step is rolled back and the failure recorded.
ItemFails ==
  /\ step \in {"intake", "bind", "analyze", "incomplete", "summarize"}
  /\ Leave("pick")
  /\ SetStatus(item, "FAILED")
  /\ UNCHANGED <<run, born, print, analysis, bound, managerVars, faults, pushVars>>

-----------------------------------------------------------------------------
(* The manager's decisions, applied *)

Decided(i) == i \in bound /\ decision[i[2]].action # "NONE"

\* advance_post_decision_items reads its items when the last one is processed.
AdvanceBegin ==
  /\ step = "pick" /\ todo = {}
  /\ step' = "advance" /\ todo' = WithStatus(cur, Active)
  /\ UNCHANGED <<run, born, itemVars, cur, retry, item, notices, managerVars, faults, pushVars>>

Take(i) == /\ step = "advance" /\ i \in todo
           /\ todo' = todo \ {i}
           /\ UNCHANGED <<run, born, print, analysis, bound, cur, retry, notices,
                          managerVars, faults, pushVars>>

SkipUndecided == \E i \in todo : Take(i) /\ ~Decided(i) /\ UNCHANGED <<step, item, status>>

(* Variant: the decision is written where the status belongs. *)
ApplyStopAsIs == \E i \in todo :
  /\ Take(i) /\ Decided(i) /\ UNCHANGED <<step, item>>
  /\ decision[i[2]].action # "GO" /\ SetStatus(i, decision[i[2]].action)

ApplyStop == \E i \in todo :
  /\ Take(i) /\ Decided(i) /\ UNCHANGED <<step, item>>
  /\ \/ decision[i[2]].action = "DEFER" /\ SetStatus(i, "DEFERRED")
     \/ decision[i[2]].action = "NO_GO" /\ SetStatus(i, "DECIDED_NO_GO")

ApplyGo == \E i \in todo :
  /\ Take(i) /\ Decided(i) /\ decision[i[2]].action = "GO"
  /\ SetStatus(i, "POST_DECISION") /\ step' = "go" /\ item' = i

\* How far _advance_go gets: the readiness, submission and outcome records
\* of the deal are others' work and may say anything.
Evidenced == {"READINESS_BLOCKED", "AWAITING_SUBMISSION_EVIDENCE",
              "AWAITING_OUTCOME_EVIDENCE", "OUTCOME_RECORDED"}

AdvanceGo == \E s \in Evidenced :
  /\ step = "go" /\ Leave("advance")
  /\ SetStatus(item, s)
  /\ UNCHANGED <<run, born, print, analysis, bound, managerVars, faults, pushVars>>

AdvanceFails ==
  /\ step = "go" /\ Leave("advance")
  /\ SetStatus(item, "POST_DECISION_FAILED")
  /\ UNCHANGED <<run, born, print, analysis, bound, managerVars, faults, pushVars>>

-----------------------------------------------------------------------------
(* The end of an execution: the status of the run and the notifications *)

Some(r, S) == WithStatus(r, S) # {}

Outcome(r) ==
  IF Some(r, {"MANAGER_READY", "DEFERRED"}) THEN "WAITING_HUMAN"
  ELSE IF Some(r, {"READINESS_BLOCKED"}) THEN "WAITING_READINESS"
  ELSE IF Some(r, {"AWAITING_SUBMISSION_EVIDENCE"}) THEN "WAITING_SUBMISSION"
  ELSE IF Some(r, {"AWAITING_OUTCOME_EVIDENCE"}) THEN "WAITING_OUTCOME"
  ELSE IF Some(r, {"FAILED", "POST_DECISION_FAILED"}) THEN "COMPLETED_WITH_ERRORS"
  ELSE "COMPLETED"

NoticesOf(i) == {<<i[1], i[2], "REPORT_READY">>}
  \cup (IF Changed(i) THEN {<<i[1], i[2], "PROCUREMENT_CHANGED">>} ELSE {})
  \cup (IF i[2] \in Urgent THEN {<<i[1], i[2], "DEADLINE_RISK">>} ELSE {})

Finish ==
  /\ step = "advance" /\ todo = {}
  /\ run' = [run EXCEPT ![cur] = Outcome(cur)]
  /\ step' = "notify"
  /\ notices' = UNION {NoticesOf(i) : i \in WithStatus(cur, {"MANAGER_READY"}) \cap bound}
  /\ UNCHANGED <<born, itemVars, cur, retry, todo, item, managerVars, faults, pushVars>>

Notify == \E n \in notices :
  /\ step \in {"notify", "deferred"}
  /\ BeginDispatch(n)
  /\ notices' = notices \ {n}
  /\ UNCHANGED <<run, born, itemVars, step, cur, retry, todo, item, managerVars, faults>>

Deferred == {<<p, decision[p].n, "DEFERRED_DUE">> : p \in {p \in Procs : decision[p].action = "DEFER"}}

\* Some of the deferred decisions are due by now.
NotifyDeferred == \E due \in SUBSET Deferred :
  /\ step = "notify" /\ notices = {} /\ ~Dispatching
  /\ step' = "deferred" /\ notices' = due
  /\ UNCHANGED <<run, born, itemVars, cur, retry, todo, item, managerVars, faults, pushVars>>

Reset == /\ step' = "idle" /\ cur' = 0 /\ retry' = FALSE
         /\ todo' = {} /\ item' = NoItem /\ notices' = {}

Done ==
  /\ step = "deferred" /\ notices = {} /\ ~Dispatching
  /\ Reset
  /\ UNCHANGED <<run, born, itemVars, managerVars, faults, pushVars>>

-----------------------------------------------------------------------------
(* Dispatches of the run, faults, and the world around it *)

Fault == faults < MaxFaults /\ faults' = faults + 1

Push == /\ UNCHANGED <<run, born, itemVars, execVars, managerVars>>
        /\ \/ /\ \E d \in Devices : SendOk(d) \/ SendFails(d) \/ SendRefused(d)
              /\ UNCHANGED faults
           \/ \E d \in Devices : SendLost(d) /\ Fault
           \/ CommitDispatch /\ UNCHANGED faults

\* The exception is caught: the next notice is tried, or, for the deferred
\* decisions, the others are dropped.
PushAborts == /\ AbortDispatch /\ Fault
              /\ notices' = IF step = "deferred" THEN {} ELSE notices
              /\ UNCHANGED <<run, born, itemVars, step, cur, retry, todo, item, managerVars>>

\* The process dies: what it had committed stays.
Crash == /\ step # "idle" /\ Fault
         /\ Reset
         /\ dispatch' = NoDispatch
         /\ UNCHANGED <<run, born, itemVars, managerVars, enabled, sent, accepted>>

\* record_mobile_decision and record_portfolio_decision.
Decide(p, a) ==
  /\ p \in deals /\ decision[p].n < MaxDecisions
  /\ decision' = [decision EXCEPT ![p] = [n |-> @.n + 1, action |-> a]]
  /\ UNCHANGED <<run, born, itemVars, execVars, deals, faults, pushVars>>

World == \/ \E p \in Procs, a \in Actions : Decide(p, a)
         \/ /\ \E d \in Devices : RegisterDevice(d) \/ RevokeDevice(d)
            /\ UNCHANGED <<run, born, itemVars, execVars, managerVars, faults>>

ProcessItem == \/ Pick \/ IntakeDeal \/ BindDeal \/ Analyze \/ Summarize \/ ItemFails

ApplyDecisions == \/ AdvanceBegin \/ SkipUndecided \/ ApplyStop \/ ApplyGo
                  \/ AdvanceGo \/ AdvanceFails

\* The next step of the executing process.
Execute == \/ StartCreated \/ Discover \/ Screen \/ RetryFailed
           \/ ProcessItem \/ ApplyDecisions
           \/ Finish \/ Notify \/ NotifyDeferred \/ Done
           \/ Push

Next == \/ \E r \in Runs, f \in BOOLEAN : CreateRun(r, f) \/ CliResume(r, f) \/ ApiResume(r, f)
        \/ Execute \/ PushAborts \/ Crash \/ World

Spec == Init /\ [][Next]_vars

\* The scheduled command takes up every waiting run, day after day, and a
\* process that executes a run goes on.
Fairness == /\ WF_vars(Execute)
            /\ \A r \in Runs : SF_vars(CliResume(r, FALSE))

FairSpec == Spec /\ Fairness

-----------------------------------------------------------------------------
(* Properties *)

TypeOK ==
  /\ run \in [Runs -> RunStatus] /\ born \in [Runs -> 0..Days]
  /\ status \in [Items -> ItemStatus]
  /\ print \in [Items -> Prints \cup {NoPrint}]
  /\ analysis \in [Items -> {"none", "incomplete", "completed"}]
  /\ bound \subseteq Items
  /\ step \in Steps /\ cur \in 0..Days /\ retry \in BOOLEAN
  /\ todo \subseteq Items /\ item \in Items \cup {NoItem} /\ notices \subseteq Notices
  /\ deals \subseteq Procs
  /\ decision \in [Procs -> [n: 0..MaxDecisions, action: Actions \cup {"NONE"}]]
  /\ faults \in 0..MaxFaults
  /\ PushTypeOK

Screened == Processable \cup Active \cup {"FAILED", "OUTCOME_RECORDED"}

\* No more items of a run pass its screening than the profile allows, however
\* often it is executed again (_screen: the slots that the items of earlier
\* executions have taken are subtracted).
CapKept == \A r \in Runs : Cardinality(WithStatus(r, Screened)) <= MaxDeep

Unsettled == Processable \cup {"DISCOVERED", "POST_DECISION"}

\* A run that has ended has dealt with each of its items, by a report, a
\* decision or a recorded failure, and its status is the one its items call
\* for (execute_daily_tender_run: failures are isolated and recorded).
EndedIsSettled == \A r \in Runs : run[r] \in Ended =>
                    ~Some(r, Unsettled) /\ run[r] = Outcome(r)

\* Whoever is passed over as a duplicate was screened out or analysed with the
\* same card: a changed procurement, or one whose earlier item failed before
\* its analysis, is looked at again (_discover).
DuplicateIsKnown == \A i \in Items : status[i] = "DUPLICATE" =>
  \E j \in Items : /\ j[2] = i[2] /\ print[j] = print[i]
                   /\ status[j] = "SCREENED_OUT" \/ analysis[j] # "none"

Reported == Active \cup {"OUTCOME_RECORDED"}

\* A report stands: whatever is retried or resumed, no step takes an item that
\* has one back to the analysis, to a failure of it or off the shortlist
\* (candidates and failed items are selected by status).
ReportStands == [][\A i \in Items : status[i] \in Reported => status'[i] \in Reported]_vars

\* A device gets a notice again only after a fault: a SENT row keeps a later
\* execution from sending it, a crash or a lost answer costs one repetition
\* (dispatch_mobile_push_event commits once, after it has sent).
NotifiedOncePerFault == \A x \in Deliveries : accepted[x] <= 1 + faults

\* The row says RUNNING and no process executes the run: no scheduled command
\* takes it up, only the operator does.
Orphaned(r) == run[r] = "RUNNING" /\ cur # r

Behind(i) == /\ Decided(i)
             /\ \/ status[i] = "MANAGER_READY"
                \/ status[i] = "DEFERRED" /\ decision[i[2]].action # "DEFER"

\* A decision on a report is applied to it, unless the run is orphaned
\* (resume_pending_daily_tender_runs: the waiting runs).
DecisionApplied == \A i \in Items : Behind(i) ~> (~Behind(i) \/ Orphaned(i[1]))
=============================================================================
