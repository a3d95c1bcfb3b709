------------------------- MODULE DailyTenderRunProofs -------------------------
(***************************************************************************)
(* Theorems about DailyTenderRun, for every set of procurements, devices   *)
(* and fingerprints, every number of runs, of analyses a profile allows,   *)
(* of decisions and of faults.                                             *)
(***************************************************************************)
EXTENDS DailyTenderRun, FiniteSetTheorems, TLAPS

ItemSteps == {"intake", "bind", "analyze", "incomplete", "summarize"}

\* The steps of an execution that has committed RUNNING and not its end.
Busy == {"discover", "screen", "retry", "pick", "advance", "go"} \cup ItemSteps

AfterScreening == {"retry", "pick", "advance", "go"} \cup ItemSteps

(* Where the executing process is.                                         *)
Positioned ==
  /\ step \in Busy => cur \in Runs /\ run[cur] = "RUNNING"
  /\ step = "start" => cur \in Runs
  /\ step = "discover" => ItemsOf(cur) = {} /\ born[cur] = 0
  /\ step \in AfterScreening => ~Some(cur, {"DISCOVERED"})

(* What it has still to do is all that is left to do.                      *)
Agenda ==
  /\ step = "pick" => WithStatus(cur, Processable) = todo
  /\ step \in ItemSteps =>
       /\ WithStatus(cur, Processable) = todo \cup {item}
       /\ item \notin todo /\ item \in Items /\ status[item] = "PROCESSING"
  /\ step \in {"advance", "go"} => ~Some(cur, Processable)
  /\ step = "advance" =>
       /\ todo \subseteq WithStatus(cur, Active)
       /\ WithStatus(cur, {"POST_DECISION"}) \subseteq todo
  /\ step = "go" =>
       /\ todo \subseteq WithStatus(cur, Active)
       /\ WithStatus(cur, {"POST_DECISION"}) \subseteq todo \cup {item}
       /\ item \notin todo /\ item \in Items /\ item[1] = cur
       /\ status[item] = "POST_DECISION"

(* A run that is not screened yet has nothing but findings; one that found *)
(* nothing has not been ranked.                                            *)
Unscreened ==
  \A r \in Runs :
    /\ ItemsOf(r) = {} => born[r] = 0
    /\ Some(r, {"DISCOVERED"}) => \A i \in ItemsOf(r) : status[i] \in {"DISCOVERED", "DUPLICATE"}

(* Reports rest on an analysis, what follows a decision on a decision.     *)
Grounded ==
  /\ \A i \in Items : status[i] \in Reported => analysis[i] # "none"
  /\ \A i \in Items : status[i] = "ABSENT" => analysis[i] = "none"
  /\ \A i \in Items : status[i] = "POST_DECISION" => Decided(i)
  /\ \A p \in Procs : decision[p].action # "NONE" => decision[p].n > 0
  /\ step = "summarize" => analysis[item] # "none"

(* What APNs took is recorded, about to be, or accounted for by a fault.   *)
Recorded(x) == \/ x \in sent
               \/ Dispatching /\ x[1] = dispatch.notice /\ x[2] \in dispatch.served

Accounted ==
  /\ \A x \in Deliveries : accepted[x] <= IF Recorded(x) THEN 1 + faults ELSE faults
  /\ Dispatching => \A d \in dispatch.todo : ~Recorded(<<dispatch.notice, d>>)

IInv == /\ TypeOK /\ Positioned /\ Agenda /\ Unscreened /\ Grounded /\ Accounted
        /\ EndedIsSettled /\ DuplicateIsKnown /\ CapKept

-----------------------------------------------------------------------------
(* The initial state *)

LEMMA NoItemsYet ==
  ASSUME \A i \in Items : status[i] = "ABSENT", NEW r, NEW S
  PROVE  ItemsOf(r) = {} /\ WithStatus(r, S) = {} /\ ~Some(r, S)
  BY DEF ItemsOf, WithStatus, Some

LEMMA InitIInv == Init => IInv
  <1> SUFFICES ASSUME Init PROVE IInv
    OBVIOUS
  <1> USE DailyAssumption
  <1>1. TypeOK
    <2>1. /\ run \in [Runs -> RunStatus] /\ born \in [Runs -> 0..Days]
          /\ status \in [Items -> ItemStatus]
      BY DEF Init, RunStatus, ItemStatus
    <2>2. /\ decision \in [Procs -> [n: 0..MaxDecisions, action: Actions \cup {"NONE"}]]
          /\ faults \in 0..MaxFaults /\ step \in Steps /\ cur \in 0..Days
      BY DEF Init, Undecided, Steps
    <2>3. PushTypeOK
      BY DEF Init, PushInit, PushTypeOK
    <2>4. QED
      BY <2>1, <2>2, <2>3 DEF Init, TypeOK
  <1>2. /\ \A r \in Runs : ItemsOf(r) = {} /\ \A S : WithStatus(r, S) = {} /\ ~Some(r, S)
        /\ \A i \in Items : status[i] = "ABSENT" /\ analysis[i] = "none"
    BY NoItemsYet DEF Init
  <1>3. Positioned /\ Agenda
    BY DEF Init, Positioned, Agenda, Busy, AfterScreening, ItemSteps
  <1>4. Unscreened
    BY <1>2 DEF Init, Unscreened
  <1>5. Grounded /\ DuplicateIsKnown
    BY <1>2 DEF Init, Grounded, DuplicateIsKnown, Reported, Active, Undecided
  <1>6. Accounted
    BY DEF Init, PushInit, Accounted, Recorded, Dispatching, NoDispatch
  <1>7. EndedIsSettled
    BY DEF Init, EndedIsSettled, Ended, Waiting
  <1>8. CapKept
    <2>1. Cardinality({}) = 0 /\ MaxDeep \in Nat
      BY FS_EmptySet
    <2>2. \A r \in Runs : WithStatus(r, Screened) = {}
      BY <1>2
    <2>3. \A r \in Runs : Cardinality(WithStatus(r, Screened)) = 0
      BY <2>1, <2>2
    <2>4. QED
      BY <2>1, <2>3 DEF CapKept
  <1>9. QED
    BY <1>1, <1>3, <1>4, <1>5, <1>6, <1>7, <1>8 DEF IInv

-----------------------------------------------------------------------------
(* What happens to an item *)

(* How a step may change the status of an item.                            *)
Change(i) ==
  \/ step = "discover" /\ status[i] = "ABSENT" /\ status'[i] \in {"DISCOVERED", "DUPLICATE"}
  \/ /\ step = "screen" /\ status[i] \in {"DISCOVERED", "SHORTLISTED"}
     /\ status'[i] \in {"SHORTLISTED", "SCREENED_OUT"}
  \/ step = "retry" /\ status[i] = "FAILED" /\ status'[i] = "SHORTLISTED"
  \/ /\ step \in {"pick"} \cup ItemSteps
     /\ status[i] \in Processable
     /\ \/ status'[i] \in {"PROCESSING", "FAILED"}
        \/ status'[i] = "MANAGER_READY" /\ analysis[i] # "none"
  \/ /\ step \in {"advance", "go"} /\ status[i] \in Active
     /\ status'[i] \in Reported /\ (status'[i] = "POST_DECISION" => Decided(i))

(* Only the items of the run in execution change.                          *)
OnlyChanges == \A i \in Items : status'[i] = status[i] \/ (i[1] = cur /\ Change(i))

LEMMA ItemsFound ==
  ASSUME NEW i \in Items, NEW S, "ABSENT" \notin S
  PROVE  i \in WithStatus(cur, S) <=> i[1] = cur /\ status[i] \in S
  BY DEF WithStatus, ItemsOf

LEMMA OneItem ==
  ASSUME TypeOK, NEW i \in Items, NEW s, SetStatus(i, s)
  PROVE  status'[i] = s /\ \A j \in Items \ {i} : status'[j] = status[j]
  BY DEF SetStatus, TypeOK

LEMMA Changes ==
  ASSUME IInv, Next
  PROVE  OnlyChanges
  <1>0. TypeOK /\ Positioned /\ Agenda /\ Grounded
    BY DEF IInv
  <1>1. CASE status' = status
    BY <1>1 DEF OnlyChanges
  <1>2. CASE Discover
    <2>1. step = "discover" /\ ItemsOf(cur) = {} /\ cur \in Runs
      BY <1>0, <1>2 DEF Discover, Positioned, Busy
    <2>2. \A i \in Items : \/ status'[i] = status[i]
                           \/ i[1] = cur /\ status'[i] \in {"DISCOVERED", "DUPLICATE"}
      BY <1>2, <2>1 DEF Discover, Items
    <2>3. \A i \in Items : i[1] = cur => status[i] = "ABSENT"
      BY <2>1 DEF ItemsOf
    <2>4. QED
      BY <2>1, <2>2, <2>3 DEF OnlyChanges, Change
  <1>3. CASE Screen
    <2>1. step = "screen" /\ \A i \in Items :
            \/ status'[i] = status[i]
            \/ /\ i \in WithStatus(cur, {"DISCOVERED"}) \cup WithStatus(cur, {"SHORTLISTED"})
               /\ status'[i] \in {"SHORTLISTED", "SCREENED_OUT"}
      BY <1>3 DEF Screen
    <2>2. QED
      BY <2>1, ItemsFound DEF OnlyChanges, Change
  <1>4. CASE RetryFailed
    <2>1. step = "retry" /\ \A i \in Items :
            \/ status'[i] = status[i]
            \/ i \in WithStatus(cur, {"FAILED"}) /\ status'[i] = "SHORTLISTED"
      BY <1>4 DEF RetryFailed
    <2>2. QED
      BY <2>1, ItemsFound DEF OnlyChanges, Change
  <1>5. CASE Pick
    <2>1. PICK i \in todo : SetStatus(i, "PROCESSING") /\ step = "pick"
      BY <1>5 DEF Pick
    <2>2. i \in Items /\ i[1] = cur /\ status[i] \in Processable
      BY <1>0, <2>1 DEF Agenda, WithStatus, ItemsOf
    <2>3. QED
      BY <1>0, <2>1, <2>2, OneItem DEF OnlyChanges, Change
  <1>6. CASE Summarize \/ ItemFails
    <2>1. step \in ItemSteps
      BY <1>6 DEF Summarize, ItemFails, ItemSteps
    <2>2. item \in Items /\ item[1] = cur /\ status[item] = "PROCESSING"
      BY <1>0, <2>1 DEF Agenda, WithStatus, ItemsOf
    <2>3. \/ SetStatus(item, "FAILED")
          \/ SetStatus(item, "MANAGER_READY") /\ analysis[item] # "none"
      BY <1>0, <1>6 DEF Summarize, ItemFails, Grounded
    <2>4. QED
      BY <1>0, <2>1, <2>2, <2>3, OneItem DEF OnlyChanges, Change, Processable
  <1>7. CASE ApplyStop \/ ApplyGo
    <2>1. PICK i \in todo : /\ step = "advance" /\ Decided(i)
                            /\ \/ SetStatus(i, "DEFERRED") \/ SetStatus(i, "DECIDED_NO_GO")
                               \/ SetStatus(i, "POST_DECISION")
      BY <1>7 DEF ApplyStop, ApplyGo, Take
    <2>2. i \in Items /\ i[1] = cur /\ status[i] \in Active
      BY <1>0, <2>1 DEF Agenda, WithStatus, ItemsOf
    <2>3. {"DEFERRED", "DECIDED_NO_GO", "POST_DECISION"} \subseteq Reported
      BY DEF Reported, Active
    <2>4. QED
      BY <1>0, <2>1, <2>2, <2>3, OneItem DEF OnlyChanges, Change
  <1>8. CASE AdvanceGo \/ AdvanceFails
    <2>1. step = "go" /\ \E s \in Evidenced \cup {"POST_DECISION_FAILED"} : SetStatus(item, s)
      BY <1>8 DEF AdvanceGo, AdvanceFails
    <2>2. item \in Items /\ item[1] = cur /\ status[item] \in Active
      BY <1>0, <2>1 DEF Agenda, Active
    <2>3. /\ Evidenced \cup {"POST_DECISION_FAILED"} \subseteq Reported
          /\ "POST_DECISION" \notin Evidenced
      BY DEF Reported, Active, Evidenced
    <2>4. QED
      BY <1>0, <2>1, <2>2, <2>3, OneItem DEF OnlyChanges, Change
  <1>9. QED
    BY <1>1, <1>2, <1>3, <1>4, <1>5, <1>6, <1>7, <1>8
    DEF Next, Execute, ProcessItem, ApplyDecisions, World, Push, PushAborts, Crash, Decide,
        CreateRun, CliResume, ApiResume, Begin, StartCreated, IntakeDeal, BindDeal, Analyze,
        AdvanceBegin, SkipUndecided, Finish, Notify, NotifyDeferred, Done, itemVars

LEMMA ReportsStay ==
  ASSUME OnlyChanges, NEW i \in Items, status[i] \in Reported
  PROVE  status'[i] \in Reported
  <1>1. status[i] \notin {"ABSENT", "DISCOVERED", "SHORTLISTED", "FAILED", "PROCESSING"}
    BY DEF Reported, Active
  <1>2. QED
    BY <1>1 DEF OnlyChanges, Change, Processable

-----------------------------------------------------------------------------
(* Types *)

RunTyped == run' \in [Runs -> RunStatus] /\ born' \in [Runs -> 0..Days]

ItemTyped == /\ status' \in [Items -> ItemStatus]
             /\ print' \in [Items -> Prints \cup {NoPrint}]
             /\ analysis' \in [Items -> {"none", "incomplete", "completed"}]
             /\ bound' \subseteq Items

ExecTyped == /\ step' \in Steps /\ cur' \in 0..Days /\ retry' \in BOOLEAN
             /\ todo' \subseteq Items /\ item' \in Items \cup {NoItem}

ManagerTyped ==
  /\ deals' \subseteq Procs
  /\ decision' \in [Procs -> [n: 0..MaxDecisions, action: Actions \cup {"NONE"}]]
  /\ faults' \in 0..MaxFaults

(* The runs that have found something are fewer than the runs. *)
LEMMA NextBirthTyped ==
  ASSUME TypeOK, cur \in Runs, born[cur] = 0
  PROVE  NextBirth \in 1..Days
  <1> DEFINE Found == {s \in Runs : born[s] > 0}
  <1>1. IsFiniteSet(Runs) /\ Cardinality(Runs) = Days
    BY DailyAssumption, FS_Interval DEF Runs
  <1>2. IsFiniteSet(Runs \ {cur}) /\ Cardinality(Runs \ {cur}) = Days - 1
    BY <1>1, FS_RemoveElement
  <1>3. Found \in SUBSET (Runs \ {cur})
    OBVIOUS
  <1>4. /\ Cardinality(Found) <= Days - 1
        /\ IsFiniteSet(Found)
    BY <1>2, <1>3, FS_Subset
  <1>5. Cardinality(Found) \in Nat
    BY <1>4, FS_CardinalityType
  <1> HIDE DEF Found
  <1>6. 1 + Cardinality(Found) \in 1..Days
    BY <1>4, <1>5, DailyAssumption
  <1>7. QED
    BY <1>6 DEF NextBirth, Found

LEMMA RunTypes ==
  ASSUME IInv, Next
  PROVE  RunTyped
  <1>0. TypeOK /\ Positioned
    BY DEF IInv
  <1>1. CASE UNCHANGED <<run, born>>
    BY <1>0, <1>1 DEF RunTyped, TypeOK
  <1>2. ASSUME NEW r \in Runs, NEW s \in RunStatus, run' = [run EXCEPT ![r] = s], born' = born
        PROVE  RunTyped
    BY <1>0, <1>2 DEF RunTyped, TypeOK
  <1>3. {"PENDING", "RUNNING"} \subseteq RunStatus /\ \A r : Outcome(r) \in RunStatus
    BY DEF RunStatus, Outcome, Ended, Waiting
  <1>4. CASE \E r \in Runs, f \in BOOLEAN : CreateRun(r, f) \/ CliResume(r, f) \/ ApiResume(r, f)
    BY <1>2, <1>3, <1>4 DEF CreateRun, CliResume, ApiResume, Begin
  <1>5. CASE StartCreated
    BY <1>0, <1>2, <1>3, <1>5 DEF StartCreated, Begin, Positioned
  <1>6. CASE Finish
    BY <1>0, <1>2, <1>3, <1>6 DEF Finish, Positioned, Busy
  <1>7. CASE Discover
    <2>1. cur \in Runs /\ born[cur] = 0
      BY <1>0, <1>7 DEF Discover, Positioned, Busy
    <2>2. NextBirth \in 0..Days
      BY <1>0, <2>1, NextBirthTyped, DailyAssumption
    <2>3. run' = run /\ (born' = born \/ born' = [born EXCEPT ![cur] = NextBirth])
      <3>1. PICK found \in SUBSET Procs :
              /\ born' = [born EXCEPT ![cur] = IF found = {} THEN @ ELSE NextBirth]
              /\ run' = run
        BY <1>7 DEF Discover
      <3>2. CASE found = {}
        <4>1. born' = [born EXCEPT ![cur] = born[cur]]
          BY <3>1, <3>2
        <4>2. QED
          BY <1>0, <3>1, <4>1 DEF TypeOK
      <3>3. CASE found # {}
        BY <3>1, <3>3
      <3>4. QED
        BY <3>2, <3>3
    <2>4. QED
      BY <1>0, <2>2, <2>3 DEF RunTyped, TypeOK
  <1>8. QED
    BY <1>1, <1>4, <1>5, <1>6, <1>7
    DEF Next, Execute, ProcessItem, ApplyDecisions, World, Push, PushAborts, Crash, Decide,
        Screen, RetryFailed, Pick, IntakeDeal, BindDeal, Analyze, Summarize, ItemFails,
        AdvanceBegin, SkipUndecided, ApplyStop, ApplyGo, AdvanceGo, AdvanceFails, Take,
        Notify, NotifyDeferred, Done

LEMMA ItemTypes ==
  ASSUME IInv, Next
  PROVE  ItemTyped
  <1>0. TypeOK /\ OnlyChanges /\ Agenda
    BY Changes DEF IInv
  <1>1. status' \in [Items -> ItemStatus]
    <2>1. status' = [i \in Items |-> status'[i]]
      <3>1. CASE status' = status
        BY <1>0, <3>1 DEF TypeOK
      <3>2. CASE \E i, s : SetStatus(i, s)
        BY <1>0, <3>2 DEF TypeOK, SetStatus
      <3>3. CASE Discover \/ Screen \/ RetryFailed
        BY <3>3 DEF Discover, Screen, RetryFailed
      <3>4. QED
        BY <3>1, <3>2, <3>3
        DEF Next, Execute, ProcessItem, ApplyDecisions, World, Push, PushAborts, Crash, Decide,
            CreateRun, CliResume, ApiResume, Begin, StartCreated, Pick, IntakeDeal, BindDeal,
            Analyze, Summarize, ItemFails, AdvanceBegin, SkipUndecided, ApplyStop, ApplyGo,
            AdvanceGo, AdvanceFails, Finish, Notify, NotifyDeferred, Done, itemVars
    <2>2. /\ {"DISCOVERED", "DUPLICATE", "SHORTLISTED", "SCREENED_OUT", "FAILED",
              "PROCESSING", "MANAGER_READY"} \subseteq ItemStatus
          /\ Reported \subseteq ItemStatus
      BY DEF ItemStatus, Reported, Processable, Active
    <2>3. \A i \in Items : status'[i] \in ItemStatus
      BY <1>0, <2>2 DEF OnlyChanges, Change, TypeOK
    <2>4. QED
      BY <2>1, <2>3
  <1>2. print' \in [Items -> Prints \cup {NoPrint}]
    <2>1. CASE print' = print
      BY <1>0, <2>1 DEF TypeOK
    <2>2. CASE Discover
      BY <1>0, <2>2 DEF Discover, TypeOK, Items
    <2>3. QED
      BY <2>1, <2>2
      DEF Next, Execute, ProcessItem, ApplyDecisions, World, Push, PushAborts, Crash, Decide,
          CreateRun, CliResume, ApiResume, Begin, StartCreated, Screen, RetryFailed, Pick,
          IntakeDeal, BindDeal, Analyze, Summarize, ItemFails, AdvanceBegin, SkipUndecided,
          ApplyStop, ApplyGo, AdvanceGo, AdvanceFails, Take, Finish, Notify, NotifyDeferred,
          Done, itemVars
  <1>3. analysis' \in [Items -> {"none", "incomplete", "completed"}] /\ bound' \subseteq Items
    <2>1. CASE UNCHANGED <<analysis, bound>>
      BY <1>0, <2>1 DEF TypeOK
    <2>2. CASE Analyze
      BY <1>0, <2>2 DEF Analyze, TypeOK
    <2>3. CASE BindDeal
      BY <1>0, <2>3 DEF BindDeal, TypeOK, Agenda, ItemSteps
    <2>4. QED
      BY <2>1, <2>2, <2>3
      DEF Next, Execute, ProcessItem, ApplyDecisions, World, Push, PushAborts, Crash, Decide,
          CreateRun, CliResume, ApiResume, Begin, StartCreated, Discover, Screen, RetryFailed,
          Pick, IntakeDeal, Summarize, ItemFails, AdvanceBegin, SkipUndecided, ApplyStop,
          ApplyGo, AdvanceGo, AdvanceFails, Take, Finish, Notify, NotifyDeferred, Done, itemVars
  <1>4. QED
    BY <1>1, <1>2, <1>3 DEF ItemTyped

LEMMA ExecTypes ==
  ASSUME IInv, Next
  PROVE  ExecTyped
  <1>0. TypeOK /\ Positioned /\ Agenda
    BY DEF IInv
  <1>1. \A r, S : WithStatus(r, S) \subseteq Items
    BY DEF WithStatus, ItemsOf
  <1>2. cur' \in 0..Days /\ retry' \in BOOLEAN
    <2>1. \/ UNCHANGED <<cur, retry>>
          \/ cur' = 0 /\ retry' = FALSE
          \/ \E r \in Runs, f \in BOOLEAN : cur' = r /\ retry' = f
      <3>1. CASE \E r \in Runs, f \in BOOLEAN : CreateRun(r, f) \/ CliResume(r, f) \/ ApiResume(r, f)
        BY <3>1 DEF CreateRun, CliResume, ApiResume, Begin
      <3>2. CASE StartCreated \/ Discover \/ Screen \/ RetryFailed
        BY <3>2 DEF StartCreated, Begin, Discover, Screen, RetryFailed
      <3>3. CASE ProcessItem
        BY <3>3 DEF ProcessItem, Pick, IntakeDeal, BindDeal, Analyze, Summarize, ItemFails,
                    GoOn, Leave
      <3>4. CASE ApplyDecisions
        BY <3>4 DEF ApplyDecisions, AdvanceBegin, SkipUndecided, ApplyStop, ApplyGo, AdvanceGo,
                    AdvanceFails, Take, GoOn, Leave
      <3>5. CASE Finish \/ Notify \/ NotifyDeferred \/ Done \/ Crash
        BY <3>5 DEF Finish, Notify, NotifyDeferred, Done, Crash, Reset, GoOn
      <3>6. CASE Push \/ PushAborts \/ World
        BY <3>6 DEF Push, PushAborts, World, Decide, execVars
      <3>7. QED
        BY <3>1, <3>2, <3>3, <3>4, <3>5, <3>6 DEF Next, Execute
    <2>2. Runs \subseteq 0..Days /\ 0 \in 0..Days
      BY DailyAssumption DEF Runs
    <2>3. QED
      BY <1>0, <2>1, <2>2 DEF TypeOK
  <1>3. step' \in Steps
    <2>1. \/ step' = step
          \/ step' \in {"idle", "start", "discover", "screen", "retry", "pick", "intake", "bind",
               "analyze", "incomplete", "summarize", "advance", "go", "notify", "deferred"}
      BY
      DEF Next, Execute, ProcessItem, ApplyDecisions, World, Push, PushAborts, Crash, Decide,
          CreateRun, CliResume, ApiResume, Begin, StartCreated, Discover, Screen, RetryFailed,
          Pick, IntakeDeal, BindDeal, Analyze, Summarize, ItemFails, AdvanceBegin,
          SkipUndecided, ApplyStop, ApplyGo, AdvanceGo, AdvanceFails, Take, Finish, Notify,
          NotifyDeferred, Done, Reset, GoOn, Leave, execVars
    <2>2. QED
      BY <1>0, <2>1 DEF TypeOK, Steps
  <1>4. todo' \subseteq Items
    <2>1. CASE todo' \subseteq todo
      BY <1>0, <2>1 DEF TypeOK
    <2>2. CASE RetryFailed
      BY <1>1, <2>2 DEF RetryFailed
    <2>3. CASE AdvanceBegin
      BY <1>1, <2>3 DEF AdvanceBegin
    <2>4. QED
      BY <2>1, <2>2, <2>3
      DEF Next, Execute, ProcessItem, ApplyDecisions, World, Push, PushAborts, Crash, Decide,
          CreateRun, CliResume, ApiResume, Begin, StartCreated, Discover, Screen,
          Pick, IntakeDeal, BindDeal, Analyze, Summarize, ItemFails, SkipUndecided, ApplyStop,
          ApplyGo, AdvanceGo, AdvanceFails, Take, Finish, Notify, NotifyDeferred, Done, Reset,
          GoOn, Leave, execVars
  <1>5. item' \in Items \cup {NoItem}
    <2>1. item' = item \/ item' = NoItem \/ item' \in todo
      BY
      DEF Next, Execute, ProcessItem, ApplyDecisions, World, Push, PushAborts, Crash, Decide,
          CreateRun, CliResume, ApiResume, Begin, StartCreated, Discover, Screen, RetryFailed,
          Pick, IntakeDeal, BindDeal, Analyze, Summarize, ItemFails, AdvanceBegin,
          SkipUndecided, ApplyStop, ApplyGo, AdvanceGo, AdvanceFails, Take, Finish, Notify,
          NotifyDeferred, Done, Reset, GoOn, Leave, execVars
    <2>2. QED
      BY <1>0, <2>1 DEF TypeOK
  <1>6. QED
    BY <1>2, <1>3, <1>4, <1>5 DEF ExecTyped

LEMMA NoticeTypes ==
  ASSUME IInv, Next
  PROVE  notices' \subseteq Notices
  <1>0. TypeOK /\ Grounded
    BY DEF IInv
  <1>1. CASE notices' \subseteq notices
    BY <1>0, <1>1 DEF TypeOK
  <1>2. CASE Finish
    <2>1. \A i \in Items : NoticesOf(i) \subseteq ItemNotices
      BY DEF NoticesOf, ItemNotices, Items
    <2>2. notices' \subseteq ItemNotices
      BY <1>2, <2>1 DEF Finish, WithStatus, ItemsOf
    <2>3. QED
      BY <2>2, DailyAssumption
  <1>3. CASE NotifyDeferred
    <2>1. ASSUME NEW p \in Procs, decision[p].action = "DEFER"
          PROVE  decision[p].n \in 1..MaxDecisions
      BY <1>0, <2>1, DailyAssumption DEF TypeOK, Grounded
    <2>2. Deferred \subseteq Procs \X (1..MaxDecisions) \X {"DEFERRED_DUE"}
      BY <2>1 DEF Deferred
    <2>3. QED
      BY <1>3, <2>2, DailyAssumption DEF NotifyDeferred
  <1>4. QED
    BY <1>1, <1>2, <1>3
    DEF Next, Execute, ProcessItem, ApplyDecisions, World, Push, PushAborts, Crash, Decide,
        CreateRun, CliResume, ApiResume, Begin, StartCreated, Discover, Screen, RetryFailed,
        Pick, IntakeDeal, BindDeal, Analyze, Summarize, ItemFails, AdvanceBegin, SkipUndecided,
        ApplyStop, ApplyGo, AdvanceGo, AdvanceFails, Take, Notify, Done, Reset, GoOn, Leave,
        execVars

(* Decisions are only added, and a deal stays. *)
LEMMA ManagerTypes ==
  ASSUME IInv, Next
  PROVE  /\ ManagerTyped
         /\ \A p \in Procs : /\ decision[p].action # "NONE" => decision'[p].action # "NONE"
                             /\ decision'[p].action # "NONE" => decision'[p].n > 0
         /\ bound \subseteq bound'
  <1>0. TypeOK /\ Grounded /\ Agenda
    BY DEF IInv
  <1>1. faults' \in 0..MaxFaults
    <2>1. faults' = faults \/ Fault
      BY
      DEF Next, Execute, ProcessItem, ApplyDecisions, World, Push, PushAborts, Crash, Decide,
          CreateRun, CliResume, ApiResume, Begin, StartCreated, Discover, Screen, RetryFailed,
          Pick, IntakeDeal, BindDeal, Analyze, Summarize, ItemFails, AdvanceBegin,
          SkipUndecided, ApplyStop, ApplyGo, AdvanceGo, AdvanceFails, Take, Finish, Notify,
          NotifyDeferred, Done
    <2>2. QED
      BY <1>0, <2>1, DailyAssumption DEF Fault, TypeOK
  <1>2. bound \subseteq bound' /\ deals' \subseteq Procs
    <2>1. CASE IntakeDeal
      BY <1>0, <2>1 DEF IntakeDeal, TypeOK, Agenda, ItemSteps, Items, itemVars
    <2>2. CASE bound \subseteq bound' /\ deals' = deals
      BY <1>0, <2>2 DEF TypeOK
    <2>3. QED
      BY <2>1, <2>2
      DEF Next, Execute, ProcessItem, ApplyDecisions, World, Push, PushAborts, Crash, Decide,
          CreateRun, CliResume, ApiResume, Begin, StartCreated, Discover, Screen, RetryFailed,
          Pick, BindDeal, Analyze, Summarize, ItemFails, AdvanceBegin, SkipUndecided,
          ApplyStop, ApplyGo, AdvanceGo, AdvanceFails, Take, Finish, Notify, NotifyDeferred,
          Done, itemVars, managerVars
  <1>3. /\ decision' \in [Procs -> [n: 0..MaxDecisions, action: Actions \cup {"NONE"}]]
        /\ \A p \in Procs : /\ decision[p].action # "NONE" => decision'[p].action # "NONE"
                            /\ decision'[p].action # "NONE" => decision'[p].n > 0
    <2>1. CASE decision' = decision
      BY <1>0, <2>1 DEF TypeOK, Grounded
    <2>2. ASSUME NEW p \in Procs, NEW a \in Actions, Decide(p, a)
          PROVE  /\ decision' \in [Procs -> [n: 0..MaxDecisions, action: Actions \cup {"NONE"}]]
                 /\ \A o \in Procs : /\ decision[o].action # "NONE" => decision'[o].action # "NONE"
                                     /\ decision'[o].action # "NONE" => decision'[o].n > 0
      <3> DEFINE new == [n |-> decision[p].n + 1, action |-> a]
      <3>1. decision' = [decision EXCEPT ![p] = new]
        BY <2>2 DEF Decide
      <3>2. new.n \in 0..MaxDecisions /\ new.n > 0 /\ new.action = a
        BY <1>0, <2>2, DailyAssumption DEF Decide, TypeOK
      <3>3. new \in [n: 0..MaxDecisions, action: Actions \cup {"NONE"}]
        BY <3>2
      <3>4. a # "NONE"
        BY DEF Actions
      <3> HIDE DEF new
      <3>5. QED
        BY <1>0, <3>1, <3>2, <3>3, <3>4 DEF TypeOK, Grounded
    <2>3. QED
      BY <2>1, <2>2
      DEF Next, Execute, ProcessItem, ApplyDecisions, World, Push, PushAborts, Crash,
          CreateRun, CliResume, ApiResume, Begin, StartCreated, Discover, Screen, RetryFailed,
          Pick, IntakeDeal, BindDeal, Analyze, Summarize, ItemFails, AdvanceBegin,
          SkipUndecided, ApplyStop, ApplyGo, AdvanceGo, AdvanceFails, Take, Finish, Notify,
          NotifyDeferred, Done, managerVars
  <1>4. QED
    BY <1>1, <1>2, <1>3 DEF ManagerTyped

-----------------------------------------------------------------------------
(* The notifications *)

LEMMA RealDispatch ==
  /\ \A x \in Dispatch : x # NoDispatch
  /\ TypeOK /\ Dispatching => dispatch \in Dispatch
  <1>1. ASSUME NEW x \in Dispatch PROVE x # NoDispatch
    <2>1. "notice" \in DOMAIN x /\ "notice" \notin DOMAIN NoDispatch
      BY DEF Dispatch, NoDispatch
    <2>2. QED
      BY <2>1
  <1>2. QED
    BY <1>1 DEF TypeOK, PushTypeOK, Dispatching

(* A device is served, or not, and is no longer to be served. *)
LEMMA Sends ==
  ASSUME TypeOK, Dispatching, NEW d \in dispatch.todo
  PROVE  /\ [dispatch EXCEPT !.todo = @ \ {d}] \in Dispatch
         /\ [dispatch EXCEPT !.todo = @ \ {d}, !.served = @ \cup {d}] \in Dispatch
         /\ [dispatch EXCEPT !.todo = @ \ {d}, !.refused = @ \cup {d}] \in Dispatch
         /\ d \in Devices /\ dispatch.notice \in Notices
         /\ <<dispatch.notice, d>> \in Deliveries
         /\ Accepted(d) \in [Deliveries -> Nat]
         /\ \A x \in Deliveries : Accepted(d)[x] =
              IF x = <<dispatch.notice, d>> THEN accepted[x] + 1 ELSE accepted[x]
  <1>1. dispatch \in Dispatch
    BY RealDispatch
  <1>2. d \in Devices /\ dispatch.notice \in Notices /\ <<dispatch.notice, d>> \in Deliveries
    BY <1>1 DEF Dispatch, Deliveries
  <1>3. /\ Accepted(d) \in [Deliveries -> Nat]
        /\ \A x \in Deliveries : Accepted(d)[x] =
              IF x = <<dispatch.notice, d>> THEN accepted[x] + 1 ELSE accepted[x]
    BY <1>2 DEF Accepted, TypeOK, PushTypeOK
  <1>4. QED
    BY <1>1, <1>2, <1>3 DEF Dispatch

LEMMA PushStep ==
  ASSUME IInv, Next
  PROVE  PushTypeOK' /\ Accounted'
  <1>0. TypeOK /\ PushTypeOK /\ Accounted /\ faults \in Nat
    BY DailyAssumption DEF IInv, TypeOK
  <1>a. \A x \in Deliveries : accepted[x] \in Nat /\ accepted[x] <= 1 + faults
    BY <1>0 DEF PushTypeOK, Accounted
  <1>1. CASE UNCHANGED <<sent, accepted, dispatch, faults>> /\ enabled' \subseteq Devices
    BY <1>0, <1>1 DEF PushTypeOK, Accounted, Recorded, Dispatching
  <1>2. ASSUME NEW n \in Notices, BeginDispatch(n), faults' = faults
        PROVE  PushTypeOK' /\ Accounted'
    <2>1. dispatch' \in Dispatch
      BY <1>0, <1>2 DEF BeginDispatch, Dispatch, Addressed, PushTypeOK
    <2>2. /\ dispatch'.notice = n /\ dispatch'.served = {}
          /\ \A d \in dispatch'.todo : <<n, d>> \notin sent
      BY <1>2 DEF BeginDispatch, Addressed
    <2>3. \A x : Recorded(x)' <=> x \in sent
      BY <1>2, <2>2 DEF Recorded, BeginDispatch
    <2>4. \A x : Recorded(x) <=> x \in sent
      BY <1>2 DEF Recorded, BeginDispatch
    <2>5. QED
      BY <1>0, <1>2, <2>1, <2>2, <2>3, <2>4 DEF BeginDispatch, PushTypeOK, Accounted
  <1>3. ASSUME NEW d \in Devices, SendOk(d), faults' = faults
        PROVE  PushTypeOK' /\ Accounted'
    <2>1. /\ dispatch' \in Dispatch /\ accepted' \in [Deliveries -> Nat]
          /\ \A x \in Deliveries : accepted'[x] =
               IF x = <<dispatch.notice, d>> THEN accepted[x] + 1 ELSE accepted[x]
      BY <1>0, <1>3, Sends DEF SendOk
    <2>2. /\ dispatch'.notice = dispatch.notice /\ dispatch'.todo = dispatch.todo \ {d}
          /\ dispatch'.served = dispatch.served \cup {d} /\ Dispatching' /\ Dispatching
          /\ dispatch \in Dispatch /\ sent' = sent /\ enabled' = enabled
          /\ d \in dispatch.todo
      BY <1>0, <1>3, <2>1, RealDispatch DEF SendOk, Dispatch, Dispatching
    <2>3. \A x \in Deliveries : Recorded(x)' <=> Recorded(x) \/ x = <<dispatch.notice, d>>
      BY <2>2 DEF Recorded, Deliveries
    <2>4. ASSUME NEW x \in Deliveries
          PROVE  accepted'[x] <= IF Recorded(x)' THEN 1 + faults ELSE faults
      BY <1>0, <1>a, <2>1, <2>2, <2>3 DEF Accounted
    <2>5. ASSUME NEW e \in dispatch'.todo PROVE ~Recorded(<<dispatch.notice, e>>)'
      BY <1>0, <2>2 DEF Accounted, Recorded
    <2>6. QED
      BY <1>0, <1>3, <2>1, <2>2, <2>4, <2>5 DEF PushTypeOK, Accounted
  <1>4. ASSUME NEW d \in Devices, SendFails(d) \/ SendRefused(d), faults' = faults
        PROVE  PushTypeOK' /\ Accounted'
    <2>1. dispatch' \in Dispatch
      BY <1>0, <1>4, Sends DEF SendFails, SendRefused
    <2>2. /\ dispatch'.notice = dispatch.notice /\ dispatch'.todo = dispatch.todo \ {d}
          /\ dispatch'.served = dispatch.served /\ Dispatching' /\ Dispatching
          /\ sent' = sent /\ enabled' = enabled /\ accepted' = accepted
      BY <1>0, <1>4, <2>1, RealDispatch DEF SendFails, SendRefused, Dispatch, Dispatching
    <2>3. \A x : Recorded(x)' <=> Recorded(x)
      BY <2>2 DEF Recorded
    <2>4. QED
      BY <1>0, <1>4, <2>1, <2>2, <2>3 DEF PushTypeOK, Accounted
  <1>5. ASSUME NEW d \in Devices, SendLost(d), Fault
        PROVE  PushTypeOK' /\ Accounted'
    <2>1. /\ dispatch' \in Dispatch /\ accepted' \in [Deliveries -> Nat]
          /\ \A x \in Deliveries : accepted'[x] =
               IF x = <<dispatch.notice, d>> THEN accepted[x] + 1 ELSE accepted[x]
      BY <1>0, <1>5, Sends DEF SendLost
    <2>2. /\ dispatch'.notice = dispatch.notice /\ dispatch'.todo = dispatch.todo \ {d}
          /\ dispatch'.served = dispatch.served /\ Dispatching' /\ Dispatching
          /\ sent' = sent /\ enabled' = enabled /\ d \in dispatch.todo
      BY <1>0, <1>5, <2>1, RealDispatch DEF SendLost, Dispatch, Dispatching
    <2>3. \A x : Recorded(x)' <=> Recorded(x)
      BY <2>2 DEF Recorded
    <2>4. ASSUME NEW x \in Deliveries
          PROVE  accepted'[x] <= IF Recorded(x)' THEN 1 + faults' ELSE faults'
      BY <1>0, <1>5, <1>a, <2>1, <2>2, <2>3 DEF Accounted, Fault
    <2>5. ASSUME NEW e \in dispatch'.todo PROVE ~Recorded(<<dispatch.notice, e>>)'
      BY <1>0, <2>2, <2>3 DEF Accounted
    <2>6. QED
      BY <1>0, <2>1, <2>2, <2>4, <2>5 DEF PushTypeOK, Accounted
  <1>6. ASSUME CommitDispatch, faults' = faults
        PROVE  PushTypeOK' /\ Accounted'
    <2>1. dispatch \in Dispatch /\ Dispatching /\ ~Dispatching'
      BY <1>0, <1>6, RealDispatch DEF CommitDispatch, Dispatching
    <2>2. sent' \subseteq Deliveries /\ enabled' \subseteq Devices /\ accepted' = accepted
      BY <1>0, <1>6, <2>1 DEF CommitDispatch, Dispatch, Deliveries, PushTypeOK
    <2>3. \A x \in Deliveries : Recorded(x) <=> Recorded(x)'
      BY <1>6, <2>1 DEF CommitDispatch, Recorded, Deliveries
    <2>4. QED
      BY <1>0, <1>6, <2>1, <2>2, <2>3 DEF CommitDispatch, PushTypeOK, Accounted
  <1>7. ASSUME dispatch' = NoDispatch, UNCHANGED <<enabled, sent, accepted>>, Fault
        PROVE  PushTypeOK' /\ Accounted'
    <2>1. ~Dispatching' /\ \A x : Recorded(x)' => Recorded(x)
      BY <1>7 DEF Dispatching, Recorded
    <2>2. faults' = faults + 1
      BY <1>7 DEF Fault
    <2>3. QED
      BY <1>0, <1>7, <1>a, <2>1, <2>2 DEF PushTypeOK, Accounted
  <1>8. CASE Notify
    BY <1>0, <1>2, <1>8 DEF Notify, TypeOK
  <1>9. CASE Push
    BY <1>3, <1>4, <1>5, <1>6, <1>9 DEF Push
  <1>10. CASE PushAborts
    BY <1>7, <1>10 DEF PushAborts, AbortDispatch
  <1>11. CASE Crash
    BY <1>7, <1>11 DEF Crash
  <1>12. CASE World
    <2>1. UNCHANGED <<sent, accepted, dispatch, faults>> /\ enabled' \subseteq Devices
      BY <1>0, <1>12 DEF World, Decide, RegisterDevice, RevokeDevice, PushTypeOK, pushVars
    <2>2. QED
      BY <1>1, <2>1
  <1>13. CASE UNCHANGED <<pushVars, faults>>
    <2>1. UNCHANGED <<sent, accepted, dispatch, faults>> /\ enabled' \subseteq Devices
      BY <1>0, <1>13 DEF pushVars, PushTypeOK
    <2>2. QED
      BY <1>1, <2>1
  <1>14. QED
    BY <1>8, <1>9, <1>10, <1>11, <1>12, <1>13
    DEF Next, Execute, ProcessItem, ApplyDecisions, CreateRun, CliResume, ApiResume, Begin,
        StartCreated, Discover, Screen, RetryFailed, Pick, IntakeDeal, BindDeal, Analyze,
        Summarize, ItemFails, AdvanceBegin, SkipUndecided, ApplyStop, ApplyGo, AdvanceGo,
        AdvanceFails, Take, Finish, NotifyDeferred, Done

-----------------------------------------------------------------------------
(* The executing process *)

LEMMA PositionedStep ==
  ASSUME IInv, Next
  PROVE  Positioned'
  <1>0. TypeOK /\ Positioned /\ OnlyChanges /\ Unscreened
    BY Changes DEF IInv
  <1>a. /\ "start" \notin Busy /\ AfterScreening \subseteq Busy /\ "idle" \notin Busy
        /\ "notify" \notin Busy /\ "deferred" \notin Busy
        /\ "discover" \notin AfterScreening /\ "screen" \notin AfterScreening
    BY DEF Busy, AfterScreening, ItemSteps
  <1>1. ASSUME NEW r \in Runs, NEW f, Begin(r, f) PROVE Positioned'
    <2>1. step' \in {"discover", "screen"} /\ cur' = r /\ run'[r] = "RUNNING"
      BY <1>0, <1>1 DEF Begin, TypeOK
    <2>2. step' = "discover" => ItemsOf(r) = {} /\ born[r] = 0
      BY <1>0, <1>1 DEF Begin, Unscreened
    <2>3. ItemsOf(r)' = ItemsOf(r) /\ born' = born
      BY <1>1 DEF Begin, ItemsOf, itemVars
    <2>4. QED
      BY <1>a, <2>1, <2>2, <2>3 DEF Positioned, ItemsOf
  <1>2. ASSUME NEW r \in Runs, NEW f, CreateRun(r, f) PROVE Positioned'
    <2>1. (step' = "start" /\ cur' = r) \/ step' = "idle"
      BY <1>2 DEF CreateRun
    <2>2. QED
      BY <1>a, <2>1 DEF Positioned
  <1>3. CASE step' \in {"idle", "notify", "deferred"}
    BY <1>a, <1>3 DEF Positioned
  <1>4. CASE Discover
    BY <1>0, <1>a, <1>4 DEF Discover, Positioned, Busy
  <1>5. CASE Screen
    <2>1. \A i \in Items : i[1] = cur => status'[i] # "DISCOVERED"
      <3>1. ASSUME NEW i \in Items, i[1] = cur PROVE status'[i] # "DISCOVERED"
        <4>1. CASE status[i] = "DISCOVERED"
          <5>1. i \in WithStatus(cur, {"DISCOVERED"})
            BY <3>1, <4>1, ItemsFound
          <5>2. QED
            BY <1>5, <5>1 DEF Screen
        <4>2. CASE status[i] # "DISCOVERED"
          BY <1>5, <4>2 DEF Screen
        <4>3. QED
          BY <4>1, <4>2
      <3>2. QED
        BY <3>1
    <2>2. step' = "retry" /\ cur' = cur /\ run' = run /\ step \in Busy
      BY <1>5 DEF Screen, Busy
    <2>3. ~Some(cur, {"DISCOVERED"})'
      BY <2>1, <2>2 DEF Some, WithStatus, ItemsOf
    <2>4. QED
      BY <1>0, <2>2, <2>3 DEF Positioned
  <1>6. CASE step \in AfterScreening /\ step' \in AfterScreening /\ UNCHANGED <<run, cur>>
    <2>1. \A i \in Items : status'[i] = "DISCOVERED" => status[i] = "DISCOVERED"
      BY <1>0, <1>a, <1>6 DEF OnlyChanges, Change, Reported, Active
    <2>2. \A i \in Items : i[1] = cur => status[i] # "DISCOVERED"
      BY <1>0, <1>6, ItemsFound DEF Positioned, Some
    <2>3. ~Some(cur, {"DISCOVERED"})'
      BY <1>6, <2>1, <2>2 DEF Some, WithStatus, ItemsOf
    <2>4. QED
      BY <1>0, <1>a, <1>6, <2>3 DEF Positioned
  <1>7. CASE UNCHANGED <<step, cur, run, status, born>>
    BY <1>0, <1>7 DEF Positioned, Some, WithStatus, ItemsOf
  <1>8. CASE RetryFailed \/ ProcessItem \/ ApplyDecisions
    <2>1. /\ step \in AfterScreening /\ UNCHANGED <<run, cur>>
          /\ step' = step \/ step' \in {"pick", "advance", "go"} \cup ItemSteps
      BY <1>8
      DEF RetryFailed, ProcessItem, ApplyDecisions, Pick, IntakeDeal, BindDeal, Analyze,
          Summarize, ItemFails, AdvanceBegin, SkipUndecided, ApplyStop, ApplyGo, AdvanceGo,
          AdvanceFails, Take, GoOn, Leave, AfterScreening, ItemSteps
    <2>2. QED
      BY <1>6, <2>1 DEF AfterScreening
  <1>9. CASE Notify \/ Push \/ PushAborts \/ World
    BY <1>7, <1>9 DEF Notify, Push, PushAborts, World, Decide, execVars, itemVars
  <1>10. CASE Finish \/ NotifyDeferred \/ Done \/ Crash
    BY <1>3, <1>10 DEF Finish, NotifyDeferred, Done, Crash, Reset
  <1>11. QED
    BY <1>0, <1>1, <1>2, <1>4, <1>5, <1>8, <1>9, <1>10
    DEF Next, Execute, CliResume, ApiResume, StartCreated, Positioned

LEMMA AgendaStep ==
  ASSUME IInv, Next
  PROVE  Agenda'
  <1>0. TypeOK /\ Positioned /\ Agenda /\ Grounded
    BY DEF IInv
  <1> DEFINE With(S) == {i \in Items : i[1] = cur /\ status[i] \in S}
             WithNew(S) == {i \in Items : i[1] = cur /\ status'[i] \in S}
  <1>a. /\ \A S : "ABSENT" \notin S => WithStatus(cur, S) = With(S)
        /\ cur' = cur => \A S : "ABSENT" \notin S => WithStatus(cur, S)' = WithNew(S)
    BY DEF WithStatus, ItemsOf
  <1>b. /\ "ABSENT" \notin Processable /\ "ABSENT" \notin Active
        /\ "POST_DECISION" \in Active /\ Active \cap Processable = {}
    BY DEF Processable, Active
  <1>1. CASE step' \in {"idle", "start", "discover", "screen", "retry", "notify", "deferred"}
    BY <1>1 DEF Agenda, ItemSteps
  <1>2. CASE UNCHANGED <<step, cur, todo, item, status>>
    BY <1>0, <1>2 DEF Agenda, Some, WithStatus, ItemsOf
  <1>3. CASE RetryFailed
    <2>1. PICK again \in SUBSET With({"FAILED"}) :
            /\ \A i \in Items : status'[i] = IF i \in again THEN "SHORTLISTED" ELSE status[i]
            /\ todo' = again \cup With(Processable)
      BY <1>0, <1>3, <1>a, <1>b DEF RetryFailed
    <2>2. step' = "pick" /\ cur' = cur
      BY <1>3 DEF RetryFailed
    <2>3. WithNew(Processable) = todo'
      BY <2>1 DEF Processable
    <2>4. QED
      BY <1>a, <1>b, <2>2, <2>3 DEF Agenda, ItemSteps
  <1>4. CASE Pick
    <2>1. PICK i \in todo : /\ SetStatus(i, "PROCESSING") /\ item' = i /\ todo' = todo \ {i}
                            /\ step' \in {"analyze", "intake"} /\ step = "pick" /\ cur' = cur
      BY <1>4 DEF Pick
    <2>2. With(Processable) = todo /\ i \in Items
      BY <1>0, <1>a, <1>b, <2>1 DEF Agenda
    <2>3. status'[i] = "PROCESSING" /\ \A j \in Items \ {i} : status'[j] = status[j]
      BY <1>0, <2>1, <2>2, OneItem
    <2>4. WithNew(Processable) = todo' \cup {i} /\ i \notin todo'
      BY <2>1, <2>2, <2>3 DEF Processable
    <2>5. QED
      BY <1>a, <1>b, <2>1, <2>2, <2>3, <2>4 DEF Agenda, ItemSteps
  <1>5. CASE step \in ItemSteps /\ step' \in ItemSteps /\ UNCHANGED <<cur, todo, item, status>>
    BY <1>0, <1>5 DEF Agenda, ItemSteps, WithStatus, ItemsOf
  <1>6. CASE Summarize \/ ItemFails
    <2>1. PICK s \in {"FAILED", "MANAGER_READY"} : SetStatus(item, s)
      BY <1>6 DEF Summarize, ItemFails
    <2>2. step \in ItemSteps /\ step' = "pick" /\ cur' = cur /\ todo' = todo
      BY <1>6 DEF Summarize, ItemFails, Leave, ItemSteps
    <2>3. item \in Items /\ item \notin todo /\ With(Processable) = todo \cup {item}
      BY <1>0, <1>a, <1>b, <2>2 DEF Agenda
    <2>4. status'[item] = s /\ \A j \in Items \ {item} : status'[j] = status[j]
      BY <1>0, <2>1, <2>3, OneItem
    <2>5. WithNew(Processable) = todo'
      BY <2>2, <2>3, <2>4 DEF Processable
    <2>6. QED
      BY <1>a, <1>b, <2>2, <2>5 DEF Agenda, ItemSteps
  <1>7. CASE AdvanceBegin
    <2>1. /\ step = "pick" /\ todo = {} /\ step' = "advance" /\ cur' = cur
          /\ status' = status /\ todo' = With(Active)
      BY <1>7, <1>a, <1>b DEF AdvanceBegin, itemVars
    <2>2. With(Processable) = {}
      BY <1>0, <1>a, <1>b, <2>1 DEF Agenda
    <2>3. /\ WithNew(Processable) = {} /\ todo' = WithNew(Active)
          /\ WithNew({"POST_DECISION"}) \subseteq todo'
      BY <1>b, <2>1, <2>2
    <2>4. QED
      BY <1>a, <1>b, <2>1, <2>3 DEF Agenda, ItemSteps, Some
  <1>8. CASE SkipUndecided \/ ApplyStop \/ ApplyGo
    <2>1. PICK i \in todo :
            /\ step = "advance" /\ todo' = todo \ {i} /\ cur' = cur
            /\ \/ ~Decided(i) /\ status' = status /\ step' = step
               \/ step' = step /\ \E s \in {"DEFERRED", "DECIDED_NO_GO"} : SetStatus(i, s)
               \/ step' = "go" /\ item' = i /\ SetStatus(i, "POST_DECISION")
      BY <1>8 DEF SkipUndecided, ApplyStop, ApplyGo, Take
    <2>2. /\ With(Processable) = {} /\ todo \subseteq With(Active)
          /\ With({"POST_DECISION"}) \subseteq todo
      BY <1>0, <1>a, <1>b, <2>1 DEF Agenda, Some
    <2>3. i \in Items /\ i[1] = cur /\ \A j \in Items \ {i} : status'[j] = status[j]
      BY <1>0, <2>1, <2>2, OneItem
    <2>4. status'[i] \in Active
      BY <1>0, <2>1, <2>2, <2>3, OneItem DEF Active
    <2>5. WithNew(Processable) = {} /\ todo' \subseteq WithNew(Active)
      BY <1>b, <2>1, <2>2, <2>3, <2>4
    <2>6. CASE step' = "advance"
      <3>1. status'[i] # "POST_DECISION"
        BY <1>0, <2>1, <2>3, <2>6, OneItem DEF Grounded
      <3>2. WithNew({"POST_DECISION"}) \subseteq todo'
        BY <2>1, <2>2, <2>3, <3>1
      <3>3. QED
        BY <1>a, <1>b, <2>1, <2>5, <2>6, <3>2 DEF Agenda, ItemSteps, Some
    <2>7. CASE step' = "go"
      <3>1. item' = i /\ status'[i] = "POST_DECISION"
        BY <1>0, <2>1, <2>3, <2>7, OneItem
      <3>2. WithNew({"POST_DECISION"}) \subseteq todo' \cup {i}
        BY <2>1, <2>2, <2>3
      <3>3. QED
        BY <1>a, <1>b, <2>1, <2>3, <2>5, <2>7, <3>1, <3>2 DEF Agenda, ItemSteps, Some
    <2>8. QED
      BY <2>1, <2>6, <2>7
  <1>9. CASE AdvanceGo \/ AdvanceFails
    <2>1. PICK s \in Evidenced \cup {"POST_DECISION_FAILED"} : SetStatus(item, s)
      BY <1>9 DEF AdvanceGo, AdvanceFails
    <2>2. step = "go" /\ step' = "advance" /\ cur' = cur /\ todo' = todo
      BY <1>9 DEF AdvanceGo, AdvanceFails, Leave
    <2>3. /\ item \in Items /\ item \notin todo /\ With(Processable) = {}
          /\ todo \subseteq With(Active) /\ With({"POST_DECISION"}) \subseteq todo \cup {item}
      BY <1>0, <1>a, <1>b, <2>2 DEF Agenda, Some
    <2>4. status'[item] = s /\ \A j \in Items \ {item} : status'[j] = status[j]
      BY <1>0, <2>1, <2>3, OneItem
    <2>5. s \notin Processable /\ s # "POST_DECISION"
      BY DEF Evidenced, Processable
    <2>6. /\ WithNew(Processable) = {} /\ todo' \subseteq WithNew(Active)
          /\ WithNew({"POST_DECISION"}) \subseteq todo'
      BY <2>2, <2>3, <2>4, <2>5
    <2>7. QED
      BY <1>a, <1>b, <2>2, <2>6 DEF Agenda, ItemSteps, Some
  <1>10. CASE IntakeDeal \/ BindDeal \/ Analyze
    BY <1>5, <1>10 DEF IntakeDeal, BindDeal, Analyze, GoOn, itemVars, ItemSteps
  <1>11. CASE Notify \/ Push \/ PushAborts \/ World
    BY <1>2, <1>11 DEF Notify, Push, PushAborts, World, Decide, execVars, itemVars
  <1>12. CASE \/ \E r \in Runs, f \in BOOLEAN : CreateRun(r, f) \/ CliResume(r, f) \/ ApiResume(r, f)
              \/ StartCreated \/ Discover \/ Screen \/ Finish \/ NotifyDeferred \/ Done \/ Crash
    BY <1>1, <1>12
    DEF CreateRun, CliResume, ApiResume, Begin, StartCreated, Discover, Screen, Finish,
        NotifyDeferred, Done, Crash, Reset
  <1>13. QED
    BY <1>3, <1>4, <1>6, <1>7, <1>8, <1>9, <1>10, <1>11, <1>12
    DEF Next, Execute, ProcessItem, ApplyDecisions

-----------------------------------------------------------------------------
(* The items and what they rest on *)

(* A row stays, and a process that executes nothing changes none. *)
LEMMA Rows ==
  ASSUME IInv, Next
  PROVE  /\ \A i \in Items : status[i] # "ABSENT" => status'[i] # "ABSENT"
         /\ step \notin Busy => \A i \in Items : status'[i] = status[i]
         /\ \A i \in Items : status'[i] = status[i] \/ i[1] = cur
  <1>1. OnlyChanges
    BY Changes
  <1>2. "ABSENT" \notin Reported
    BY DEF Reported, Active
  <1>3. QED
    BY <1>1, <1>2 DEF OnlyChanges, Change, Busy

LEMMA UnscreenedStep ==
  ASSUME IInv, Next
  PROVE  Unscreened'
  <1>0. TypeOK /\ Positioned /\ Unscreened /\ OnlyChanges /\ Positioned'
    BY Changes, PositionedStep DEF IInv
  <1>1. ASSUME NEW r \in Runs, ItemsOf(r)' = {} PROVE born'[r] = 0
    <2>1. ItemsOf(r) = {}
      BY <1>1, Rows DEF ItemsOf
    <2>2. CASE Discover
      <3>1. PICK found \in SUBSET Procs :
              /\ \A i \in {cur} \X found : i \in Items => status'[i] # "ABSENT"
              /\ born' = [born EXCEPT ![cur] = IF found = {} THEN @ ELSE NextBirth]
        BY <2>2 DEF Discover
      <3>2. r = cur => found = {}
        <4>1. SUFFICES ASSUME r = cur, NEW p \in found PROVE FALSE
          OBVIOUS
        <4>2. <<cur, p>> \in Items /\ <<cur, p>> \in {cur} \X found
          BY <4>1 DEF Items
        <4>3. QED
          BY <1>1, <3>1, <4>1, <4>2 DEF ItemsOf
      <3>3. QED
        BY <1>0, <2>1, <3>1, <3>2 DEF Unscreened, TypeOK
    <2>3. CASE born' = born
      BY <1>0, <2>1, <2>3 DEF Unscreened
    <2>4. QED
      BY <2>2, <2>3
      DEF Next, Execute, ProcessItem, ApplyDecisions, World, Push, PushAborts, Crash, Decide,
          CreateRun, CliResume, ApiResume, Begin, StartCreated, Screen, RetryFailed, Pick,
          IntakeDeal, BindDeal, Analyze, Summarize, ItemFails, AdvanceBegin, SkipUndecided,
          ApplyStop, ApplyGo, AdvanceGo, AdvanceFails, Take, Finish, Notify, NotifyDeferred, Done
  <1>2. ASSUME NEW r \in Runs, Some(r, {"DISCOVERED"})'
        PROVE  \A i \in ItemsOf(r)' : status'[i] \in {"DISCOVERED", "DUPLICATE"}
    <2>1. PICK d \in Items : d[1] = r /\ status'[d] = "DISCOVERED"
      BY <1>2 DEF Some, WithStatus, ItemsOf
    <2>2. CASE \A i \in Items : i[1] = r => status'[i] = status[i]
      <3>1. Some(r, {"DISCOVERED"})
        BY <2>1, <2>2 DEF Some, WithStatus, ItemsOf
      <3>2. QED
        BY <1>0, <2>2, <3>1 DEF Unscreened, ItemsOf
    <2>3. CASE r = cur /\ step = "discover"
      BY <1>0, <2>3 DEF OnlyChanges, Change, Positioned, ItemsOf, ItemSteps
    <2>4. CASE r = cur /\ step = "screen"
      <3>1. Screen => ~Some(cur, {"DISCOVERED"})'
        BY <1>0 DEF Screen, Positioned, AfterScreening
      <3>2. ~Screen => status' = status
        BY <2>4
        DEF Next, Execute, ProcessItem, ApplyDecisions, World, Push, PushAborts, Crash, Decide,
            CreateRun, CliResume, ApiResume, StartCreated, Discover, RetryFailed,
            Pick, IntakeDeal, BindDeal, Analyze, Summarize, ItemFails, AdvanceBegin,
            SkipUndecided, ApplyStop, ApplyGo, AdvanceGo, AdvanceFails, Take, Finish, Notify,
            NotifyDeferred, Done, itemVars
      <3>3. Screen => cur' = cur
        BY DEF Screen
      <3>4. QED
        BY <1>2, <2>2, <2>4, <3>1, <3>2, <3>3
    <2>5. CASE r = cur /\ step \in AfterScreening
      <3>1. status[d] # "DISCOVERED"
        BY <1>0, <2>1, <2>5, ItemsFound DEF Positioned, Some
      <3>2. QED
        BY <1>0, <2>1, <2>5, <3>1
        DEF OnlyChanges, Change, AfterScreening, ItemSteps, Reported, Active
    <2>6. QED
      BY <2>2, <2>3, <2>4, <2>5, Rows DEF Busy, AfterScreening
  <1>3. QED
    BY <1>1, <1>2 DEF Unscreened

(* An analysis is committed and stays, and so does the card of an item. *)
LEMMA Analyses ==
  ASSUME IInv, Next
  PROVE  /\ \A i \in Items : analysis[i] # "none" => analysis'[i] # "none"
         /\ \A i \in Items : analysis'[i] = analysis[i] \/ status'[i] # "ABSENT"
         /\ \A i \in Items : status[i] # "ABSENT" => print'[i] = print[i]
  <1>0. TypeOK /\ Agenda /\ Positioned
    BY DEF IInv
  <1>1. CASE Analyze
    <2>1. item \in Items /\ status[item] = "PROCESSING" /\ UNCHANGED <<status, print>>
      BY <1>0, <1>1 DEF Analyze, Agenda, ItemSteps
    <2>2. PICK a \in {"incomplete", "completed"} : analysis' = [analysis EXCEPT ![item] = a]
      BY <1>1 DEF Analyze
    <2>3. QED
      BY <1>0, <2>1, <2>2 DEF TypeOK
  <1>2. CASE Discover
    <2>1. ItemsOf(cur) = {} /\ analysis' = analysis
      BY <1>0, <1>2 DEF Discover, Positioned
    <2>2. \A i \in Items : print'[i] = print[i] \/ i[1] = cur
      BY <1>2 DEF Discover
    <2>3. QED
      BY <2>1, <2>2 DEF ItemsOf
  <1>3. CASE UNCHANGED <<analysis, print>>
    BY <1>3
  <1>4. QED
    BY <1>1, <1>2, <1>3
    DEF Next, Execute, ProcessItem, ApplyDecisions, World, Push, PushAborts, Crash, Decide,
        CreateRun, CliResume, ApiResume, Begin, StartCreated, Screen, RetryFailed, Pick,
        IntakeDeal, BindDeal, Summarize, ItemFails, AdvanceBegin, SkipUndecided, ApplyStop,
        ApplyGo, AdvanceGo, AdvanceFails, Take, Finish, Notify, NotifyDeferred, Done, itemVars

LEMMA GroundedStep ==
  ASSUME IInv, Next
  PROVE  Grounded'
  <1>0. TypeOK /\ Grounded /\ OnlyChanges /\ Agenda
    BY Changes DEF IInv
  <1>a. {"DISCOVERED", "DUPLICATE", "SHORTLISTED", "SCREENED_OUT", "PROCESSING", "FAILED"}
          \cap Reported = {}
    BY DEF Reported, Active
  <1>1. ASSUME NEW i \in Items, status'[i] \in Reported PROVE analysis'[i] # "none"
    <2>1. status[i] \in Reported \/ analysis[i] # "none"
      BY <1>0, <1>1, <1>a DEF OnlyChanges, Change, Reported
    <2>2. QED
      BY <1>0, <2>1, Analyses DEF Grounded
  <1>2. ASSUME NEW i \in Items, status'[i] = "ABSENT" PROVE analysis'[i] = "none"
    BY <1>0, <1>2, Rows, Analyses DEF Grounded
  <1>3. ASSUME NEW i \in Items, status'[i] = "POST_DECISION" PROVE Decided(i)'
    <2>1. Decided(i)
      BY <1>0, <1>3 DEF OnlyChanges, Change, Grounded, Processable, ItemSteps
    <2>2. i[2] \in Procs
      BY DEF Items
    <2>3. QED
      BY <2>1, <2>2, ManagerTypes DEF Decided
  <1>4. \A p \in Procs : decision'[p].action # "NONE" => decision'[p].n > 0
    BY ManagerTypes
  <1>5. step' = "summarize" => analysis'[item'] # "none"
    <2>1. CASE Analyze
      <3>1. item \in Items /\ item' = item
        BY <1>0, <2>1 DEF Analyze, Agenda, ItemSteps, GoOn
      <3>2. QED
        BY <1>0, <2>1, <3>1 DEF Analyze, TypeOK
    <2>2. CASE UNCHANGED <<step, item, analysis>>
      BY <1>0, <2>2 DEF Grounded
    <2>3. CASE step' # "summarize"
      BY <2>3
    <2>4. QED
      BY <2>1, <2>2, <2>3
      DEF Next, Execute, ProcessItem, ApplyDecisions, World, Push, PushAborts, Crash, Decide,
          CreateRun, CliResume, ApiResume, Begin, StartCreated, Discover, Screen, RetryFailed,
          Pick, IntakeDeal, BindDeal, Summarize, ItemFails, AdvanceBegin, SkipUndecided,
          ApplyStop, ApplyGo, AdvanceGo, AdvanceFails, Take, Finish, Notify, NotifyDeferred,
          Done, Reset, GoOn, Leave, itemVars, execVars
  <1>6. QED
    BY <1>1, <1>2, <1>3, <1>4, <1>5 DEF Grounded

-----------------------------------------------------------------------------
(* What the runs promise *)

LEMMA SettledStep ==
  ASSUME IInv, Next
  PROVE  EndedIsSettled'
  <1>0. TypeOK /\ Positioned /\ Agenda /\ EndedIsSettled
    BY DEF IInv
  <1> SUFFICES ASSUME NEW r \in Runs, run'[r] \in Ended
               PROVE  ~Some(r, Unsettled)' /\ run'[r] = Outcome(r)'
    BY DEF EndedIsSettled
  <1>1. CASE Finish
    <2>1. /\ step = "advance" /\ todo = {} /\ status' = status
          /\ run' = [run EXCEPT ![cur] = Outcome(cur)]
      BY <1>1 DEF Finish, itemVars
    <2>2. \A s, S : Some(s, S)' <=> Some(s, S)
      BY <2>1 DEF Some, WithStatus, ItemsOf
    <2>3. Outcome(r)' = Outcome(r)
      BY <2>2 DEF Outcome
    <2>4. CASE r = cur
      <3>1. /\ ~Some(cur, {"DISCOVERED"}) /\ ~Some(cur, Processable)
            /\ ~Some(cur, {"POST_DECISION"})
        BY <1>0, <2>1 DEF Positioned, AfterScreening, Agenda, Some
      <3>2. ~Some(cur, Unsettled)
        BY <3>1 DEF Some, WithStatus, Unsettled
      <3>3. QED
        BY <1>0, <2>1, <2>2, <2>3, <2>4, <3>2 DEF TypeOK
    <2>5. CASE r # cur
      BY <1>0, <2>1, <2>2, <2>3, <2>5 DEF EndedIsSettled, TypeOK
    <2>6. QED
      BY <2>4, <2>5
  <1>2. CASE ~Finish
    <2>1. run[r] \in Ended /\ run'[r] = run[r]
      <3>1. /\ "PENDING" \notin Ended /\ "RUNNING" \notin Ended
        BY DEF Ended, Waiting
      <3>2. \/ run' = run
            \/ \E s \in Runs, v \in {"PENDING", "RUNNING"} : run' = [run EXCEPT ![s] = v]
        BY <1>0, <1>2
        DEF Next, Execute, ProcessItem, ApplyDecisions, World, Push, PushAborts, Crash, Decide,
            CreateRun, CliResume, ApiResume, Begin, StartCreated, Discover, Screen, RetryFailed,
            Pick, IntakeDeal, BindDeal, Analyze, Summarize, ItemFails, AdvanceBegin,
            SkipUndecided, ApplyStop, ApplyGo, AdvanceGo, AdvanceFails, Take, Notify,
            NotifyDeferred, Done, Positioned
      <3>3. QED
        BY <1>0, <3>1, <3>2 DEF TypeOK
    <2>2. \A i \in Items : i[1] = r => status'[i] = status[i]
      BY <1>0, <2>1, Rows DEF Positioned, Ended, Waiting
    <2>3. \A S : WithStatus(r, S)' = WithStatus(r, S)
      BY <2>2 DEF WithStatus, ItemsOf
    <2>4. \A S : Some(r, S)' <=> Some(r, S)
      BY <2>3 DEF Some
    <2>5. Outcome(r)' = Outcome(r)
      BY <2>4 DEF Outcome
    <2>6. QED
      BY <1>0, <2>1, <2>4, <2>5 DEF EndedIsSettled
  <1>3. QED
    BY <1>1, <1>2

Known(i, j) == /\ j[2] = i[2] /\ print[j] = print[i]
               /\ status[j] = "SCREENED_OUT" \/ analysis[j] # "none"

LEMMA DuplicateStep ==
  ASSUME IInv, Next
  PROVE  DuplicateIsKnown'
  <1>0. TypeOK /\ Positioned /\ Grounded /\ DuplicateIsKnown /\ OnlyChanges
    BY Changes DEF IInv
  <1>1. ASSUME NEW j \in Items, status[j] = "SCREENED_OUT" \/ analysis[j] # "none"
        PROVE  /\ status'[j] = "SCREENED_OUT" \/ analysis'[j] # "none"
               /\ print'[j] = print[j]
    <2>1. status[j] # "ABSENT"
      BY <1>0, <1>1 DEF Grounded
    <2>2. status[j] = "SCREENED_OUT" => status'[j] = "SCREENED_OUT"
      BY <1>0 DEF OnlyChanges, Change, Processable, Active
    <2>3. QED
      BY <1>1, <2>1, <2>2, Analyses
  <1>2. ASSUME NEW i \in Items, NEW j \in Items, Known(i, j), print'[i] = print[i]
        PROVE  Known(i, j)'
    BY <1>1, <1>2 DEF Known
  <1>3. ASSUME NEW i \in Items, status[i] = "DUPLICATE" PROVE \E j \in Items : Known(i, j)'
    <2>1. PICK j \in Items : Known(i, j)
      BY <1>0, <1>3 DEF DuplicateIsKnown, Known
    <2>2. print'[i] = print[i]
      BY <1>3, Analyses
    <2>3. QED
      BY <1>2, <2>1, <2>2
  <1>4. ASSUME NEW i \in Items, Discover, i[1] = cur, status'[i] = "DUPLICATE", status[i] = "ABSENT"
        PROVE  \E j \in Items : Known(i, j)'
    <2>0. PICK found \in SUBSET Procs : \E card \in [found -> Prints] :
            /\ status' = [k \in Items |->
                 IF k \notin {cur} \X found THEN status[k]
                 ELSE IF Unchanged(cur, k[2], card[k[2]]) THEN "DUPLICATE" ELSE "DISCOVERED"]
            /\ print' = [k \in Items |-> IF k \in {cur} \X found THEN card[k[2]] ELSE print[k]]
      BY <1>4 DEF Discover
    <2>1. PICK card \in [found -> Prints] :
            /\ status' = [k \in Items |->
                 IF k \notin {cur} \X found THEN status[k]
                 ELSE IF Unchanged(cur, k[2], card[k[2]]) THEN "DUPLICATE" ELSE "DISCOVERED"]
            /\ print' = [k \in Items |-> IF k \in {cur} \X found THEN card[k[2]] ELSE print[k]]
      BY <2>0
    <2>2. /\ i \in {cur} \X found /\ Unchanged(cur, i[2], card[i[2]])
          /\ print'[i] = card[i[2]]
      BY <1>4, <2>1
    <2>3. PICK j \in PreviousItems(cur, i[2]) :
            print[j] = card[i[2]] /\ (status[j] \in Reused \/ analysis[j] = "completed")
      BY <2>2 DEF Unchanged
    <2>4. j \in Items /\ j[2] = i[2]
      <3>1. PICK s \in Runs : j = <<s, i[2]>>
        BY DEF PreviousItems, Earlier
      <3>2. i[2] \in Procs
        BY DEF Items
      <3>3. QED
        BY <3>1, <3>2 DEF Items
    <2>5. PICK k \in Items : k[2] = i[2] /\ print[k] = card[i[2]]
                             /\ (status[k] = "SCREENED_OUT" \/ analysis[k] # "none")
      <3>1. CASE analysis[j] = "completed"
        BY <2>3, <2>4, <3>1
      <3>2. CASE status[j] = "SCREENED_OUT"
        BY <2>3, <2>4, <3>2
      <3>3. CASE status[j] = "MANAGER_READY"
        BY <1>0, <2>3, <2>4, <3>3 DEF Grounded, Reported, Active
      <3>4. CASE status[j] = "DUPLICATE"
        BY <1>0, <2>3, <2>4, <3>4 DEF DuplicateIsKnown
      <3>5. QED
        BY <2>3, <3>1, <3>2, <3>3, <3>4 DEF Reused
    <2>6. QED
      BY <1>1, <2>2, <2>5 DEF Known
  <1>5. ASSUME NEW i \in Items, status'[i] = "DUPLICATE" PROVE \E j \in Items : Known(i, j)'
    <2>1. \/ status[i] = "DUPLICATE"
          \/ step = "discover" /\ status[i] = "ABSENT" /\ i[1] = cur
      BY <1>0, <1>5 DEF OnlyChanges, Change, Reported, Active
    <2>2. CASE Discover
      BY <1>3, <1>4, <1>5, <2>1, <2>2
    <2>3. CASE status' = status
      BY <1>3, <1>5, <2>3
    <2>4. CASE status[i] # "DUPLICATE"
      <3>1. step = "discover"
        BY <2>1, <2>4
      <3>2. Discover \/ status' = status
        BY <3>1
        DEF Next, Execute, ProcessItem, ApplyDecisions, World, Push, PushAborts, Crash, Decide,
            CreateRun, CliResume, ApiResume, StartCreated, Screen, RetryFailed, Pick,
            IntakeDeal, BindDeal, Analyze, Summarize, ItemFails, AdvanceBegin, SkipUndecided,
            ApplyStop, ApplyGo, AdvanceGo, AdvanceFails, Take, Finish, Notify, NotifyDeferred,
            Done, itemVars
      <3>3. QED
        BY <2>2, <2>3, <3>2
    <2>5. QED
      BY <1>3, <2>4
  <1>6. QED
    BY <1>5 DEF DuplicateIsKnown, Known

LEMMA FinitelyMany ==
  /\ IsFiniteSet(Items)
  /\ \A S \in SUBSET Items : IsFiniteSet(S) /\ Cardinality(S) \in Nat
  <1>1. IsFiniteSet(Runs) /\ IsFiniteSet(Procs)
    BY DailyAssumption, FS_Interval DEF Runs
  <1>2. IsFiniteSet(Items)
    BY <1>1, FS_Product DEF Items
  <1>3. QED
    BY <1>2, FS_Subset, FS_CardinalityType

(* The screening keeps no more than the profile allows. *)
LEMMA CapScreen ==
  ASSUME IInv, Screen
  PROVE  Cardinality(WithStatus(cur, Screened)') <= MaxDeep
  <1>0. TypeOK /\ Positioned /\ Unscreened /\ CapKept /\ cur \in Runs /\ MaxDeep \in Nat
    BY DailyAssumption DEF IInv, Screen, Positioned, Busy
  <1> DEFINE fresh == WithStatus(cur, {"DISCOVERED"})
             short == WithStatus(cur, {"SHORTLISTED"})
             Kept(in, keep) ==
               /\ Cut(in \cup short, keep, Slots(cur))
               /\ \A i \in Items : status'[i] = IF i \in keep THEN "SHORTLISTED"
                    ELSE IF i \in fresh \cup (in \cup short) THEN "SCREENED_OUT"
                    ELSE status[i]
               /\ cur' = cur
  <1>s. PICK in \in SUBSET fresh : \E keep \in SUBSET (in \cup short) :
          /\ Cut(in \cup short, keep, Slots(cur))
          /\ status' = [i \in Items |-> IF i \in keep THEN "SHORTLISTED"
                                        ELSE IF i \in fresh \cup (in \cup short) THEN "SCREENED_OUT"
                                        ELSE status[i]]
          /\ cur' = cur
    BY DEF Screen
  <1>k. PICK keep \in SUBSET (in \cup short) : Kept(in, keep)
    <2> HIDE DEF fresh, short
    <2>1. QED
      BY <1>s
  <1>1. keep \in SUBSET Items /\ in \in SUBSET fresh /\ Kept(in, keep)
    BY <1>k DEF WithStatus, ItemsOf
  <1>2. keep \subseteq in \cup short
    BY <1>1 DEF Cut
  <1>3. \A i \in Items : i \in WithStatus(cur, Screened)' <=> i[1] = cur /\ status'[i] \in Screened
    BY <1>1 DEF WithStatus, ItemsOf, Screened, Processable, Active
  <1>4. "SHORTLISTED" \in Screened /\ "ABSENT" \notin Screened
        /\ {"SCREENED_OUT", "DISCOVERED", "DUPLICATE"} \cap Screened = {}
    BY DEF Screened, Processable, Active
  <1>5. CASE fresh = {}
    <2>1. WithStatus(cur, Screened)' \subseteq WithStatus(cur, Screened)
      <3>1. SUFFICES ASSUME NEW i \in Items, i[1] = cur, status'[i] \in Screened
                     PROVE  i \in WithStatus(cur, Screened)
        BY <1>3 DEF WithStatus, ItemsOf
      <3>2. i \in short \/ status'[i] = status[i]
        BY <1>1, <1>2, <1>4, <1>5, <3>1
      <3>3. QED
        BY <1>4, <3>1, <3>2 DEF WithStatus, ItemsOf
    <2>2. Cardinality(WithStatus(cur, Screened)) <= MaxDeep
      BY <1>0 DEF CapKept
    <2>3. WithStatus(cur, Screened) \in SUBSET Items
      BY DEF WithStatus, ItemsOf
    <2>4. /\ Cardinality(WithStatus(cur, Screened)') <= Cardinality(WithStatus(cur, Screened))
          /\ IsFiniteSet(WithStatus(cur, Screened)')
      BY <2>1, <2>3, FinitelyMany, FS_Subset
    <2>5. Cardinality(WithStatus(cur, Screened)') \in Nat
      BY <2>4, FS_CardinalityType
    <2>6. QED
      BY <1>0, <2>2, <2>3, <2>4, <2>5, FinitelyMany
  <1>6. CASE fresh # {}
    <2>1. \A i \in ItemsOf(cur) : status[i] \in {"DISCOVERED", "DUPLICATE"}
      BY <1>0, <1>6 DEF Unscreened, Some
    <2>2. WithStatus(cur, Screened)' \subseteq keep
      <3>1. SUFFICES ASSUME NEW i \in Items, i[1] = cur, status'[i] \in Screened
                     PROVE  i \in keep
        BY <1>3 DEF WithStatus, ItemsOf
      <3>2. status[i] \in {"ABSENT", "DISCOVERED", "DUPLICATE"}
        BY <2>1, <3>1 DEF ItemsOf
      <3>3. QED
        BY <1>1, <1>4, <3>1, <3>2
    <2>3. Cardinality(keep) <= Slots(cur)
      <3>1. in \cup short \in SUBSET Items
        BY <1>1 DEF WithStatus, ItemsOf
      <3>2. Cardinality(in \cup short) \in Nat
        BY <3>1, FinitelyMany
      <3>3. Reserved(cur) \in SUBSET Items
        BY DEF Reserved, ItemsOf
      <3>4. Cardinality(Reserved(cur)) \in Nat
        BY <3>3, FinitelyMany
      <3>5. Slots(cur) \in Nat
        BY <1>0, <3>4 DEF Slots
      <3>6. Cardinality(keep) = IF Cardinality(in \cup short) < Slots(cur)
                                THEN Cardinality(in \cup short) ELSE Slots(cur)
        BY <1>1 DEF Cut
      <3>7. QED
        BY <3>2, <3>5, <3>6
    <2>4. Slots(cur) \in Nat /\ Slots(cur) <= MaxDeep
      <3>1. Reserved(cur) \in SUBSET Items
        BY DEF Reserved, ItemsOf
      <3>2. Cardinality(Reserved(cur)) \in Nat
        BY <3>1, FinitelyMany
      <3>3. QED
        BY <1>0, <3>2 DEF Slots
    <2>5. /\ IsFiniteSet(keep) /\ Cardinality(keep) \in Nat
          /\ Cardinality(WithStatus(cur, Screened)') <= Cardinality(keep)
          /\ IsFiniteSet(WithStatus(cur, Screened)')
      BY <1>1, <2>2, FinitelyMany, FS_Subset
    <2>6. Cardinality(WithStatus(cur, Screened)') \in Nat
      BY <2>5, FS_CardinalityType
    <2>7. QED
      BY <1>0, <2>3, <2>4, <2>5, <2>6
  <1>7. QED
    BY <1>5, <1>6

LEMMA CapStep ==
  ASSUME IInv, Next
  PROVE  CapKept'
  <1>0. TypeOK /\ CapKept /\ OnlyChanges /\ MaxDeep \in Nat
    BY Changes, DailyAssumption DEF IInv
  <1> SUFFICES ASSUME NEW r \in Runs PROVE Cardinality(WithStatus(r, Screened)') <= MaxDeep
    BY DEF CapKept
  <1>1. CASE WithStatus(r, Screened)' \subseteq WithStatus(r, Screened)
    <2>1. Cardinality(WithStatus(r, Screened)) <= MaxDeep
      BY <1>0 DEF CapKept
    <2>2. WithStatus(r, Screened) \in SUBSET Items
      BY DEF WithStatus, ItemsOf
    <2>3. /\ Cardinality(WithStatus(r, Screened)') <= Cardinality(WithStatus(r, Screened))
          /\ IsFiniteSet(WithStatus(r, Screened)')
      BY <1>1, <2>2, FinitelyMany, FS_Subset
    <2>4. Cardinality(WithStatus(r, Screened)') \in Nat
      BY <2>3, FS_CardinalityType
    <2>5. QED
      BY <1>0, <2>1, <2>2, <2>3, <2>4, FinitelyMany
  <1>2. CASE Screen /\ r = cur
    <2>1. cur' = cur
      BY <1>2 DEF Screen
    <2>2. QED
      BY <1>2, <2>1, CapScreen
  <1>3. CASE ~(Screen /\ r = cur)
    <2>1. ASSUME NEW i \in Items, i[1] = r, status'[i] \in Screened
          PROVE  status[i] \in Screened
      <3>1. CASE status'[i] = status[i]
        BY <2>1, <3>1
      <3>2. CASE i[1] = cur /\ Change(i) /\ step # "screen"
        <4>1. {"DISCOVERED", "DUPLICATE"} \cap Screened = {} /\ "FAILED" \in Screened
              /\ Processable \subseteq Screened /\ Active \subseteq Screened
          BY DEF Screened, Processable, Active
        <4>2. QED
          BY <2>1, <3>2, <4>1 DEF Change
      <3>3. CASE i[1] = cur /\ step = "screen"
        <4>1. ~Screen
          BY <1>3, <2>1, <3>3
        <4>2. status' = status
          BY <3>3, <4>1
          DEF Next, Execute, ProcessItem, ApplyDecisions, World, Push, PushAborts, Crash, Decide,
              CreateRun, CliResume, ApiResume, StartCreated, Discover, RetryFailed, Pick,
              IntakeDeal, BindDeal, Analyze, Summarize, ItemFails, AdvanceBegin,
              SkipUndecided, ApplyStop, ApplyGo, AdvanceGo, AdvanceFails, Take, Finish, Notify,
              NotifyDeferred, Done, itemVars
        <4>3. QED
          BY <2>1, <4>2
      <3>4. QED
        BY <1>0, <3>1, <3>2, <3>3 DEF OnlyChanges
    <2>2. "ABSENT" \notin Screened
      BY DEF Screened, Processable, Active
    <2>3. WithStatus(r, Screened)' \subseteq WithStatus(r, Screened)
      BY <2>1, <2>2 DEF WithStatus, ItemsOf
    <2>4. QED
      BY <1>1, <2>3
  <1>4. QED
    BY <1>2, <1>3

-----------------------------------------------------------------------------
(* Theorems *)

LEMMA StepIInv ==
  ASSUME IInv, [Next]_vars
  PROVE  IInv'
  <1>1. CASE Next
    <2>1. TypeOK'
      BY <1>1, RunTypes, ItemTypes, ExecTypes, NoticeTypes, ManagerTypes, PushStep
      DEF TypeOK, RunTyped, ItemTyped, ExecTyped, ManagerTyped
    <2>2. QED
      BY <1>1, <2>1, PositionedStep, AgendaStep, UnscreenedStep, GroundedStep, PushStep,
         SettledStep, DuplicateStep, CapStep
      DEF IInv
  <1>2. CASE UNCHANGED vars
    <2>1. TypeOK' /\ Accounted'
      BY <1>2
      DEF IInv, vars, itemVars, execVars, managerVars, pushVars, TypeOK, PushTypeOK, Accounted,
          Recorded, Dispatching
    <2>2. Positioned' /\ Agenda' /\ Unscreened' /\ Grounded'
      BY <1>2
      DEF IInv, vars, itemVars, execVars, managerVars, Positioned, Agenda, Unscreened,
          Grounded, Some, WithStatus, ItemsOf, Decided
    <2>3. EndedIsSettled' /\ DuplicateIsKnown' /\ CapKept'
      <3>1. \A r, S : /\ WithStatus(r, S)' = WithStatus(r, S)
                      /\ Some(r, S)' <=> Some(r, S)
        BY <1>2 DEF vars, itemVars, Some, WithStatus, ItemsOf
      <3>2. \A r : Outcome(r)' = Outcome(r)
        BY <3>1 DEF Outcome
      <3>3. QED
        BY <1>2, <3>1, <3>2
        DEF IInv, vars, itemVars, EndedIsSettled, DuplicateIsKnown, CapKept
    <2>4. QED
      BY <2>1, <2>2, <2>3 DEF IInv
  <1>3. QED
    BY <1>1, <1>2

(* The invariant of every step of an execution, of its crashes and of the  *)
(* world around it (execute_daily_tender_run).                             *)
THEOREM Inductive == Spec => []IInv
  BY InitIInv, StepIInv, PTL DEF Spec

(* Every row and every local of the execution keeps its type.              *)
THEOREM TypeCorrect == Spec => []TypeOK
  <1>1. IInv => TypeOK
    BY DEF IInv
  <1>2. QED
    BY <1>1, Inductive, PTL

(* However often a run is executed, no more of its items pass the          *)
(* screening than the profile allows (_screen).                            *)
THEOREM CapHolds == Spec => []CapKept
  <1>1. IInv => CapKept
    BY DEF IInv
  <1>2. QED
    BY <1>1, Inductive, PTL

(* A run that has ended has dealt with each of its items, whatever crashed *)
(* on the way (execute_daily_tender_run).                                  *)
THEOREM Settled == Spec => []EndedIsSettled
  <1>1. IInv => EndedIsSettled
    BY DEF IInv
  <1>2. QED
    BY <1>1, Inductive, PTL

(* Whoever is passed over was screened out or analysed with the same card  *)
(* (_discover).                                                            *)
THEOREM DuplicatesKnown == Spec => []DuplicateIsKnown
  <1>1. IInv => DuplicateIsKnown
    BY DEF IInv
  <1>2. QED
    BY <1>1, Inductive, PTL

(* A device gets a notice once, and once more for each fault               *)
(* (dispatch_mobile_push_event).                                           *)
THEOREM NotifiedOnce == Spec => []NotifiedOncePerFault
  <1>1. IInv => NotifiedOncePerFault
    <2> SUFFICES ASSUME IInv, NEW x \in Deliveries PROVE accepted[x] <= 1 + faults
      BY DEF NotifiedOncePerFault
    <2>1. accepted[x] \in Nat /\ faults \in Nat
      BY DailyAssumption DEF IInv, TypeOK, PushTypeOK
    <2>2. QED
      BY <2>1 DEF IInv, Accounted
  <1>2. QED
    BY <1>1, Inductive, PTL

(* No step takes an item with a report back to its analysis (Pick,         *)
(* RetryFailed and the screening select by status).                        *)
THEOREM ReportsStand == Spec => ReportStands
  <1> DEFINE Stands == \A i \in Items : status[i] \in Reported => status'[i] \in Reported
  <1>1. IInv /\ [Next]_vars => [Stands]_vars
    BY Changes, ReportsStay
  <1>2. QED
    BY <1>1, Inductive, PTL DEF Spec, ReportStands

=============================================================================
