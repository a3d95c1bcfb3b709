-------------------------- MODULE SaasAccessProofs --------------------------
(***************************************************************************)
(* Theorems about SaasAccess, for every set of requests and invitations,   *)
(* every quota and number of seats, every bound on months, tokens and      *)
(* requests that die.                                                      *)
(***************************************************************************)
EXTENDS SaasAccess, FiniteSetTheorems, TLAPS

(* Whoever decides on what it has counted holds the tenant, and the count  *)
(* is still right.                                                         *)
CountsHeld ==
  \A q \in Requests :
    /\ at[q] \in {"charging", "issuing"} => holder = q
    /\ at[q] = "charging" => seen[q] = used[mon[q]]
    /\ at[q] = "issuing" => seen[q] = Cardinality(ActiveMembers)

(* An invitation that is being redeemed is not consumed, and one request   *)
(* redeems it; a token that is being replaced is live, and one request     *)
(* replaces it.                                                            *)
RowsHeld ==
  \A q \in Requests :
    /\ at[q] = "redeeming" => invite[inv[q]] \in {"pending", "expired"}
    /\ at[q] = "rotating" => tok[q] \in live
    /\ at[q] \in {"rotate", "logout"} => tok[q] \in Tokens
    /\ at[q] \in {"revoke", "revoking"} => member[inv[q]] # "none"
    /\ \A p \in Requests :
         /\ at[q] = "redeeming" /\ at[p] = "redeeming" /\ inv[p] = inv[q] => p = q
         /\ at[q] = "rotating" /\ at[p] = "rotating" /\ tok[p] = tok[q] => p = q

(* Nothing has come yet of an invitation that is not consumed.             *)
Unused ==
  \A i \in Invites :
    /\ invite[i] # "consumed" =>
         /\ redemptions[i] = 0 /\ member[i] = "none" /\ i \notin overdue
         /\ \A t \in live : bearer[t] # i
    /\ redemptions[i] <= 1

(* Every request on its way to a token will find one within the bound.     *)
TokensLeft == lastToken + Cardinality(Minting) <= MaxTokens

IInv == TypeOK /\ CountsHeld /\ RowsHeld /\ Unused /\ TokensLeft /\ OneLiveToken

-----------------------------------------------------------------------------
(* The sets that are counted are finite. *)
LEMMA CountsFinite ==
  /\ IsFiniteSet(ActiveMembers) /\ Cardinality(ActiveMembers) \in Nat
  /\ IsFiniteSet(PendingInvites) /\ Cardinality(PendingInvites) \in Nat
  /\ IsFiniteSet(Minting) /\ Cardinality(Minting) \in Nat
  /\ \A m \in Months : IsFiniteSet(InWork(m)) /\ Cardinality(InWork(m)) \in Nat
  <1>1. ActiveMembers \in SUBSET Invites /\ PendingInvites \in SUBSET Invites
    BY DEF ActiveMembers, PendingInvites
  <1>2. Minting \in SUBSET Requests /\ \A m \in Months : InWork(m) \in SUBSET Requests
    BY DEF Minting, InWork
  <1>3. IsFiniteSet(Invites) /\ IsFiniteSet(Requests)
    BY AccessAssumption, QuotaAssumption
  <1>4. QED
    BY <1>1, <1>2, <1>3, FS_Subset, FS_CardinalityType

LEMMA InitIInv == Init => IInv
  <1> SUFFICES ASSUME Init PROVE IInv
    OBVIOUS
  <1> USE QuotaAssumption, AccessAssumption DEF Init, QuotaInit
  <1>1. TypeOK
    BY DEF TypeOK, QuotaTypeOK, Months, Tokens, Places
  <1>2. CountsHeld /\ RowsHeld /\ Unused /\ OneLiveToken
    BY DEF CountsHeld, RowsHeld, Unused, OneLiveToken
  <1>3. TokensLeft
    <2>1. Minting = {}
      BY DEF Minting
    <2>2. QED
      BY <2>1, FS_EmptySet DEF TokensLeft
  <1>4. QED
    BY <1>1, <1>2, <1>3 DEF IInv

(* A request on its way to a token finds an unused one. *)
LEMMA RoomForToken ==
  ASSUME IInv, NEW q \in Requests, at[q] \in {"redeem", "redeeming", "rotate", "rotating"}
  PROVE  lastToken + 1 \in Tokens
  <1>1. q \in Minting
    BY DEF Minting
  <1>2. Cardinality(Minting) > 0
    BY <1>1, CountsFinite, FS_EmptySet
  <1>3. QED
    BY <1>2, CountsFinite, AccessAssumption DEF IInv, TokensLeft, TypeOK, Tokens

-----------------------------------------------------------------------------
(* Types *)

(* Where the requests are and what they hold in memory. *)
RequestsTyped == /\ at' \in [Requests -> Places]
                 /\ mon' \in [Requests -> Months]
                 /\ seen' \in [Requests -> Nat]

ArgsTyped == inv' \in [Requests -> Invites] /\ tok' \in [Requests -> 0..MaxTokens]

LEMMA Moves ==
  ASSUME TypeOK, NEW q \in Requests, NEW place \in Places, Goto(q, place)
  PROVE  at' \in [Requests -> Places]
  BY DEF Goto, TypeOK

LEMMA Answers ==
  ASSUME TypeOK, NEW q \in Requests, Answer(q)
  PROVE  RequestsTyped
  <1>1. "idle" \in Places /\ 1 \in Months
    BY QuotaAssumption DEF Places, Months
  <1>2. at' \in [Requests -> Places]
    BY <1>1, Moves DEF Answer
  <1>3. QED
    BY <1>1, <1>2 DEF Answer, RequestsTyped, TypeOK, QuotaTypeOK

LEMMA EndsTyped ==
  ASSUME TypeOK, NEW q \in Requests, Ends(q)
  PROVE  RequestsTyped /\ ArgsTyped
  <1>1. RequestsTyped
    BY Answers DEF Ends
  <1>2. ArgsTyped
    BY AccessAssumption DEF Ends, ArgsTyped, TypeOK
  <1>3. QED
    BY <1>1, <1>2

(* A counter of the months goes up. *)
LEMMA Counted ==
  ASSUME NEW f \in [Months -> Nat], NEW m \in Months
  PROVE  Count(f, m) \in [Months -> Nat]
  BY DEF Count

LEMMA QuotaTypes ==
  ASSUME IInv, NEW q \in Requests, QuotaStep(q)
  PROVE  TypeOK'
  <1> DEFINE Rest == /\ lifecycle' = lifecycle /\ month' = month
                     /\ memberVars' = memberVars /\ tokenVars' = tokenVars
                     /\ inv' = inv /\ tok' = tok /\ faults' = faults
             Quota == /\ used' \in [Months -> 0..Limit] /\ done' \in [Months -> Nat]
                      /\ leaked' \in [Months -> Nat] /\ wrong' \in [Months -> Nat]
             Lock == holder' \in Requests \cup {NoRequest}
  <1>0. TypeOK
    BY DEF IInv
  <1>a. Rest
    BY DEF QuotaStep, quotaVars, ChargeLock, ChargeRefused, ChargeCommit, ChargeExhausted,
           WorkDone, WorkFails, Refund
  <1>b. Lock
    BY <1>0 DEF QuotaStep, TypeOK, QuotaTypeOK, ChargeLock, ChargeRefused, ChargeCommit,
                ChargeExhausted, WorkDone, WorkFails, Refund
  <1>c. mon[q] \in Months /\ month \in Months /\ seen[q] \in Nat /\ used[month] \in 0..Limit
    BY <1>0 DEF TypeOK, QuotaTypeOK
  <1>d. {"idle", "charging", "work", "refund"} \subseteq Places
    BY DEF Places
  <1>1. RequestsTyped /\ Quota
    <2>1. CASE ChargeLock(q)
      <3>1. RequestsTyped
        BY <1>0, <2>1, <1>c, <1>d, QuotaAssumption
        DEF ChargeLock, Goto, RequestsTyped, TypeOK, QuotaTypeOK
      <3>2. Quota
        BY <1>0, <2>1 DEF ChargeLock, TypeOK, QuotaTypeOK
      <3>3. QED
        BY <3>1, <3>2
    <2>2. CASE ChargeRefused(q)
      BY <1>0, <2>2, Answers DEF ChargeRefused, quotaVars, TypeOK, QuotaTypeOK
    <2>3. CASE ChargeCommit(q)
      <3>1. RequestsTyped
        BY <1>0, <2>3, <1>d DEF ChargeCommit, Goto, RequestsTyped, TypeOK, QuotaTypeOK
      <3>2. seen[q] + 1 \in 0..Limit
        BY <2>3, <1>c, QuotaAssumption DEF ChargeCommit
      <3>3. Quota
        BY <1>0, <2>3, <3>2 DEF ChargeCommit, TypeOK, QuotaTypeOK
      <3>4. QED
        BY <3>1, <3>3
    <2>4. CASE ChargeExhausted(q)
      BY <1>0, <2>4, Answers DEF ChargeExhausted, quotaVars, TypeOK, QuotaTypeOK
    <2>5. CASE WorkDone(q)
      <3>1. done' \in [Months -> Nat]
        BY <1>0, <2>5, <1>c, Counted DEF WorkDone, TypeOK, QuotaTypeOK
      <3>2. QED
        BY <1>0, <2>5, <3>1, Answers DEF WorkDone, TypeOK, QuotaTypeOK
    <2>6. CASE WorkFails(q)
      BY <1>0, <2>6, <1>d DEF WorkFails, Goto, quotaVars, RequestsTyped, TypeOK, QuotaTypeOK
    <2>7. CASE Refund(q)
      <3>1. RequestsTyped
        BY <1>0, <2>7, Answers DEF Refund
      <3>2. used' \in [Months -> 0..Limit]
        BY <1>0, <2>7, <1>c, QuotaAssumption DEF Refund, TypeOK, QuotaTypeOK
      <3>3. leaked' \in [Months -> Nat]
        BY <1>0, <2>7, <1>c, Counted DEF Refund, TypeOK, QuotaTypeOK
      <3>4. wrong' \in [Months -> Nat] /\ done' \in [Months -> Nat]
        BY <1>0, <2>7, <1>c, Counted DEF Refund, TypeOK, QuotaTypeOK
      <3>5. QED
        BY <3>1, <3>2, <3>3, <3>4
    <2>8. QED
      BY <2>1, <2>2, <2>3, <2>4, <2>5, <2>6, <2>7 DEF QuotaStep
  <1>2. QED
    BY <1>0, <1>1, <1>a, <1>b
    DEF TypeOK, QuotaTypeOK, RequestsTyped, memberVars, tokenVars

MembersTyped == /\ invite' \in [Invites -> {"none", "pending", "expired", "consumed"}]
                /\ member' \in [Invites -> {"none", "active", "revoked"}]
                /\ redemptions' \in [Invites -> Nat]
                /\ overdue' \subseteq Invites

TokensTyped == /\ bearer' \in [Tokens -> Invites]
               /\ live' \subseteq 1..lastToken'
               /\ lastToken' \in 0..MaxTokens

(* What mints a token keeps the types of the tokens. *)
LEMMA MintTyped ==
  ASSUME TypeOK, lastToken + 1 \in Tokens, NEW m \in Invites, Mint(m),
         live' \subseteq live \cup {lastToken + 1}
  PROVE  TokensTyped
  <1>1. lastToken' \in 0..MaxTokens
    BY AccessAssumption DEF TypeOK, Mint, Tokens
  <1>2. bearer' \in [Tokens -> Invites]
    BY DEF TypeOK, Mint
  <1>3. live' \subseteq 1..lastToken'
    BY AccessAssumption DEF TypeOK, Mint
  <1>4. QED
    BY <1>1, <1>2, <1>3 DEF TokensTyped

LEMMA AccessTypes ==
  ASSUME IInv, NEW q \in Requests, AccessStep(q)
  PROVE  TypeOK'
  <1>0. TypeOK
    BY DEF IInv
  <1>a. UNCHANGED quotaVars /\ faults' = faults
    BY DEF AccessStep, IssueLock, IssueRefused, IssueCommit, IssueExceeded, RedeemLock,
           RedeemRefused, RedeemCommit, RotateLock, RotateRefused, RotateCommit, Logout,
           RevokeRead, RevokeCommit
  <1>b. holder' \in Requests \cup {NoRequest}
    BY <1>0
    DEF TypeOK, QuotaTypeOK, AccessStep, IssueLock, IssueRefused, IssueCommit, IssueExceeded,
        RedeemLock, RedeemRefused, RedeemCommit, RotateLock, RotateRefused, RotateCommit,
        Logout, RevokeRead, RevokeCommit
  <1>d. {"issuing", "redeeming", "rotating", "revoking"} \subseteq Places
    BY DEF Places
  <1>1. RequestsTyped /\ ArgsTyped
    <2>1. CASE Ends(q)
      BY <1>0, <2>1, EndsTyped
    <2>2. CASE IssueLock(q)
      <3>1. Cardinality(ActiveMembers) \in Nat
        BY CountsFinite
      <3>2. QED
        BY <1>0, <1>d, <2>2, <3>1
        DEF IssueLock, Goto, RequestsTyped, ArgsTyped, TypeOK, QuotaTypeOK
    <2>3. CASE RedeemLock(q)
      BY <1>0, <1>d, <2>3 DEF RedeemLock, Goto, RequestsTyped, ArgsTyped, TypeOK, QuotaTypeOK
    <2>4. CASE RotateLock(q)
      BY <1>0, <1>d, <2>4 DEF RotateLock, Goto, RequestsTyped, ArgsTyped, TypeOK, QuotaTypeOK
    <2>5. CASE RevokeRead(q)
      <3>1. lastToken \in Nat
        BY <1>0, AccessAssumption DEF TypeOK
      <3>2. QED
        BY <1>0, <1>d, <2>5, <3>1
        DEF RevokeRead, Goto, RequestsTyped, ArgsTyped, TypeOK, QuotaTypeOK
    <2>6. QED
      BY <2>1, <2>2, <2>3, <2>4, <2>5
      DEF AccessStep, IssueRefused, IssueCommit, IssueExceeded, RedeemRefused, RedeemCommit,
          RotateRefused, RotateCommit, Logout, RevokeCommit
  <1>2. MembersTyped
    <2>1. CASE UNCHANGED memberVars
      BY <1>0, <2>1 DEF memberVars, MembersTyped, TypeOK
    <2>2. CASE IssueCommit(q)
      BY <1>0, <2>2 DEF IssueCommit, MembersTyped, TypeOK
    <2>3. CASE RedeemCommit(q)
      BY <1>0, <2>3 DEF RedeemCommit, MembersTyped, TypeOK
    <2>4. CASE RevokeCommit(q)
      BY <1>0, <2>4 DEF RevokeCommit, MembersTyped, TypeOK
    <2>5. QED
      BY <2>1, <2>2, <2>3, <2>4
      DEF AccessStep, IssueLock, IssueRefused, IssueExceeded, RedeemLock, RedeemRefused,
          RotateLock, RotateRefused, RotateCommit, Logout, RevokeRead
  <1>3. TokensTyped
    <2>1. CASE UNCHANGED tokenVars
      BY <1>0, <2>1 DEF tokenVars, TokensTyped, TypeOK
    <2>2. CASE RedeemCommit(q)
      <3>1. lastToken + 1 \in Tokens
        BY <2>2, RoomForToken DEF RedeemCommit
      <3>2. inv[q] \in Invites
        BY <1>0 DEF TypeOK
      <3>3. QED
        BY <1>0, <2>2, <3>1, <3>2, MintTyped DEF RedeemCommit
    <2>3. CASE RotateCommit(q)
      <3>1. lastToken + 1 \in Tokens
        BY <2>3, RoomForToken DEF RotateCommit
      <3>2. tok[q] \in Tokens
        BY <1>0, <2>3, AccessAssumption DEF RotateCommit, IInv, RowsHeld, TypeOK, Tokens
      <3>3. bearer[tok[q]] \in Invites
        BY <1>0, <3>2 DEF TypeOK
      <3>4. QED
        BY <1>0, <2>3, <3>1, <3>3, MintTyped DEF RotateCommit
    <2>4. CASE live' \subseteq live /\ bearer' = bearer /\ lastToken' = lastToken
      BY <1>0, <2>4 DEF TokensTyped, TypeOK
    <2>5. QED
      BY <2>1, <2>2, <2>3, <2>4
      DEF AccessStep, IssueLock, IssueRefused, IssueCommit, IssueExceeded, RedeemLock,
          RedeemRefused, RotateLock, RotateRefused, Logout, RevokeRead, RevokeCommit
  <1>4. QED
    BY <1>0, <1>1, <1>2, <1>3, <1>a, <1>b
    DEF TypeOK, QuotaTypeOK, RequestsTyped, ArgsTyped, MembersTyped, TokensTyped, quotaVars

LEMMA BeginTypes ==
  ASSUME IInv, NEW q \in Requests, Begin(q)
  PROVE  TypeOK'
  <1>0. TypeOK
    BY DEF IInv
  <1>a. UNCHANGED <<quotaVars, holder, mon, seen, memberVars, tokenVars, faults>>
    BY DEF Begin, BeginSpend, BeginIssue, BeginOwnToken, BeginRevoke, BeginRedeem, Enter
  <1>b. {"charge", "issue", "rotate", "logout", "revoke", "redeem"} \subseteq Places
    BY DEF Places
  <1>1. at' \in [Requests -> Places]
    BY <1>0, <1>b, Moves
    DEF Begin, BeginSpend, BeginIssue, BeginOwnToken, BeginRevoke, BeginRedeem, Enter
  <1>2. ArgsTyped
    <2>1. Tokens \subseteq 0..MaxTokens
      BY AccessAssumption DEF Tokens
    <2>2. \/ inv' = inv
          \/ \E i \in Invites : inv' = [inv EXCEPT ![q] = i]
      BY DEF Begin, BeginSpend, BeginIssue, BeginOwnToken, BeginRevoke, BeginRedeem
    <2>3. \/ tok' = tok
          \/ \E t \in Tokens : tok' = [tok EXCEPT ![q] = t]
      BY DEF Begin, BeginSpend, BeginIssue, BeginOwnToken, BeginRevoke, BeginRedeem
    <2>4. QED
      BY <1>0, <2>1, <2>2, <2>3 DEF TypeOK, ArgsTyped
  <1>3. QED
    BY <1>0, <1>1, <1>2, <1>a
    DEF TypeOK, QuotaTypeOK, ArgsTyped, quotaVars, memberVars, tokenVars

LEMMA CrashTypes ==
  ASSUME IInv, NEW q \in Requests, Crash(q)
  PROVE  TypeOK'
  <1>0. TypeOK
    BY DEF IInv
  <1>1. RequestsTyped /\ ArgsTyped
    BY <1>0, EndsTyped DEF Crash
  <1>2. leaked' \in [Months -> Nat]
    BY <1>0, Counted DEF Crash, LeakUnit, TypeOK, QuotaTypeOK
  <1>3. faults' \in 0..MaxFaults /\ holder' \in Requests \cup {NoRequest}
    BY <1>0, AccessAssumption DEF Crash, TypeOK, QuotaTypeOK
  <1>4. QED
    BY <1>0, <1>1, <1>2, <1>3
    DEF Crash, TypeOK, QuotaTypeOK, RequestsTyped, ArgsTyped, memberVars, tokenVars

LEMMA EnvironmentTypes ==
  ASSUME IInv, Environment
  PROVE  TypeOK'
  <1>0. TypeOK
    BY DEF IInv
  <1>1. ASSUME NEW i \in Invites, Expire(i) PROVE TypeOK'
    <2>1. invite' \in [Invites -> {"none", "pending", "expired", "consumed"}]
      BY <1>0, <1>1 DEF Expire, TypeOK
    <2>2. QED
      BY <1>0, <1>1, <2>1 DEF Expire, TypeOK, QuotaTypeOK, quotaVars, tokenVars
  <1>2. CASE Suspend /\ UNCHANGED <<memberVars, tokenVars, inv, tok, faults>>
    BY <1>0, <1>2 DEF Suspend, TypeOK, QuotaTypeOK, memberVars, tokenVars
  <1>3. CASE MonthEnds /\ UNCHANGED <<memberVars, tokenVars, inv, tok, faults>>
    <2>1. month' \in Months
      BY <1>0, <1>3, QuotaAssumption DEF MonthEnds, TypeOK, QuotaTypeOK, Months
    <2>2. QED
      BY <1>0, <1>3, <2>1 DEF MonthEnds, TypeOK, QuotaTypeOK, memberVars, tokenVars
  <1>4. QED
    BY <1>1, <1>2, <1>3 DEF Environment

LEMMA TypesStep ==
  ASSUME IInv, [Next]_vars
  PROVE  TypeOK'
  <1>1. CASE UNCHANGED vars
    BY <1>1 DEF IInv, vars, TypeOK, QuotaTypeOK, quotaVars, memberVars, tokenVars
  <1>2. QED
    BY <1>1, QuotaTypes, AccessTypes, BeginTypes, CrashTypes, EnvironmentTypes DEF Next, Step

-----------------------------------------------------------------------------
(* What a step of one request leaves alone *)

Acts(q) == Begin(q) \/ QuotaStep(q) \/ AccessStep(q) \/ Crash(q)

OthersWait(q) == \A p \in Requests \ {q} :
  /\ at'[p] = at[p] /\ mon'[p] = mon[p] /\ seen'[p] = seen[p]
  /\ inv'[p] = inv[p] /\ tok'[p] = tok[p]

LEMMA OnlyOneActs ==
  ASSUME TypeOK, NEW q \in Requests, Acts(q)
  PROVE  OthersWait(q)
  <1>1. CASE Begin(q)
    BY <1>1
    DEF TypeOK, OthersWait, Begin, BeginSpend, BeginIssue, BeginOwnToken, BeginRevoke,
        BeginRedeem, Enter, Goto
  <1>2. CASE QuotaStep(q)
    BY <1>2
    DEF TypeOK, QuotaTypeOK, OthersWait, Goto, Answer, quotaVars, QuotaStep, ChargeLock,
        ChargeRefused, ChargeCommit, ChargeExhausted, WorkDone, WorkFails, Refund
  <1>3. CASE AccessStep(q)
    <2>1. CASE Ends(q)
      BY <2>1 DEF TypeOK, QuotaTypeOK, OthersWait, Goto, Answer, Ends
    <2>2. CASE IssueLock(q) \/ RedeemLock(q) \/ RotateLock(q) \/ RevokeRead(q)
      BY <2>2
      DEF TypeOK, QuotaTypeOK, OthersWait, Goto, quotaVars, IssueLock, RedeemLock, RotateLock,
          RevokeRead
    <2>3. QED
      BY <1>3, <2>1, <2>2
      DEF AccessStep, IssueRefused, IssueCommit, IssueExceeded, RedeemRefused, RedeemCommit,
          RotateRefused, RotateCommit, Logout, RevokeCommit
  <1>4. CASE Crash(q)
    BY <1>4 DEF TypeOK, QuotaTypeOK, OthersWait, Goto, Answer, Ends, Crash
  <1>5. QED
    BY <1>1, <1>2, <1>3, <1>4 DEF Acts

(* The tenant is written by nobody but its holder. *)
LEMMA HolderProtects ==
  ASSUME IInv, NEW q \in Requests, Acts(q), NEW p \in Requests \ {q}, holder = p
  PROVE  holder' = holder /\ used' = used /\ member' = member
  <1>1. ~Free /\ holder # q
    BY QuotaAssumption DEF Free
  <1>2. at[q] \notin {"charging", "issuing"}
    BY <1>1 DEF IInv, CountsHeld
  <1>3. CASE Begin(q)
    BY <1>3
    DEF Begin, BeginSpend, BeginIssue, BeginOwnToken, BeginRevoke, BeginRedeem, Enter,
        quotaVars, memberVars
  <1>4. CASE QuotaStep(q)
    BY <1>1, <1>2, <1>4
    DEF quotaVars, memberVars, QuotaStep, ChargeLock, ChargeRefused, ChargeCommit,
        ChargeExhausted, WorkDone, WorkFails, Refund
  <1>5. CASE AccessStep(q)
    BY <1>1, <1>2, <1>5
    DEF quotaVars, memberVars, AccessStep, IssueLock, IssueRefused, IssueCommit, IssueExceeded,
        RedeemLock, RedeemRefused, RedeemCommit, RotateLock, RotateRefused, RotateCommit,
        Logout, RevokeRead, RevokeCommit
  <1>6. CASE Crash(q)
    BY <1>1, <1>6 DEF Crash, memberVars
  <1>7. QED
    BY <1>3, <1>4, <1>5, <1>6 DEF Acts

(* How a request comes to a place where it relies on what it has read. *)
LEMMA Arrivals ==
  ASSUME TypeOK, NEW q \in Requests, Acts(q)
  PROVE  /\ at'[q] = "charging" => ChargeLock(q)
         /\ at'[q] = "issuing" => IssueLock(q) /\ UNCHANGED member
         /\ at'[q] = "redeeming" => RedeemLock(q)
         /\ at'[q] = "rotating" => RotateLock(q)
         /\ at'[q] \in {"rotate", "logout"} => tok'[q] \in Tokens
         /\ at'[q] \in {"revoke", "revoking"} =>
              /\ UNCHANGED member
              /\ (at[q] = "revoke" /\ inv'[q] = inv[q]) \/ member[inv'[q]] # "none"
  <1>1. CASE Begin(q)
    <2>1. PICK place \in {"charge", "issue", "rotate", "logout", "revoke", "redeem"} :
            Goto(q, place) /\ (place \in {"rotate", "logout"} =>
                                 \E t \in Tokens : tok' = [tok EXCEPT ![q] = t])
                           /\ (place = "revoke" =>
                                 \E i \in Invites : inv' = [inv EXCEPT ![q] = i] /\ member[i] # "none")
      BY <1>1 DEF Begin, BeginSpend, BeginIssue, BeginOwnToken, BeginRevoke, BeginRedeem, Enter
    <2>2. at'[q] = place
      BY <2>1 DEF Goto, TypeOK
    <2>3. UNCHANGED member
      BY <1>1 DEF Begin, BeginSpend, BeginIssue, BeginOwnToken, BeginRevoke, BeginRedeem,
                  Enter, memberVars
    <2>4. place \in {"rotate", "logout"} => tok'[q] \in Tokens
      BY <2>1 DEF TypeOK
    <2>5. place = "revoke" => member[inv'[q]] # "none"
      BY <2>1 DEF TypeOK
    <2>6. QED
      BY <2>2, <2>3, <2>4, <2>5
  <1>2. CASE QuotaStep(q) /\ ~ChargeLock(q)
    <2>1. at'[q] \in {"idle", "work", "refund"}
      BY <1>2
      DEF TypeOK, QuotaStep, Goto, Answer, ChargeRefused, ChargeCommit, ChargeExhausted,
          WorkDone, WorkFails, Refund
    <2>2. QED
      BY <2>1
  <1>3. CASE ChargeLock(q)
    BY <1>3 DEF ChargeLock, Goto, TypeOK
  <1>4. CASE Ends(q)
    BY <1>4 DEF Ends, Answer, Goto, TypeOK
  <1>5. CASE IssueLock(q)
    BY <1>5 DEF IssueLock, Goto, TypeOK, memberVars
  <1>6. CASE RedeemLock(q)
    BY <1>6 DEF RedeemLock, Goto, TypeOK
  <1>7. CASE RotateLock(q)
    BY <1>7 DEF RotateLock, Goto, TypeOK
  <1>8. CASE RevokeRead(q)
    BY <1>8 DEF RevokeRead, Goto, TypeOK, memberVars
  <1>9. QED
    BY <1>1, <1>2, <1>3, <1>4, <1>5, <1>6, <1>7, <1>8
    DEF Acts, Crash, AccessStep, IssueRefused, IssueCommit, IssueExceeded, RedeemRefused,
        RedeemCommit, RotateRefused, RotateCommit, Logout, RevokeCommit

-----------------------------------------------------------------------------
(* What was counted is still right *)

LEMMA CountsStep ==
  ASSUME IInv, NEW q \in Requests, Acts(q)
  PROVE  CountsHeld'
  <1> DEFINE Held(p) == /\ at'[p] \in {"charging", "issuing"} => holder' = p
                        /\ at'[p] = "charging" => seen'[p] = used'[mon'[p]]
                        /\ at'[p] = "issuing" => seen'[p] = Cardinality(ActiveMembers')
  <1>0. TypeOK /\ OthersWait(q)
    BY OnlyOneActs DEF IInv
  <1>1. ASSUME NEW p \in Requests \ {q} PROVE Held(p)
    <2>1. SUFFICES ASSUME at[p] \in {"charging", "issuing"} PROVE Held(p)
      BY <1>0 DEF OthersWait
    <2>2. holder = p
      BY <2>1 DEF IInv, CountsHeld
    <2>3. holder' = holder /\ used' = used /\ member' = member
      BY <2>2, HolderProtects
    <2>4. ActiveMembers' = ActiveMembers
      BY <2>3 DEF ActiveMembers
    <2>5. QED
      BY <1>0, <2>2, <2>3, <2>4 DEF OthersWait, IInv, CountsHeld
  <1>2. Held(q)
    <2>1. CASE at'[q] = "charging"
      <3>1. ChargeLock(q)
        BY <1>0, <2>1, Arrivals
      <3>2. QED
        BY <1>0, <2>1, <3>1 DEF ChargeLock, TypeOK, QuotaTypeOK
    <2>2. CASE at'[q] = "issuing"
      <3>1. IssueLock(q) /\ UNCHANGED member
        BY <1>0, <2>2, Arrivals
      <3>2. ActiveMembers' = ActiveMembers
        BY <3>1 DEF ActiveMembers
      <3>3. QED
        BY <1>0, <2>2, <3>1, <3>2 DEF IssueLock, TypeOK, QuotaTypeOK
    <2>3. QED
      BY <2>1, <2>2
  <1>3. QED
    BY <1>1, <1>2 DEF CountsHeld

-----------------------------------------------------------------------------
(* Invitations, members and tokens *)

(* A step that writes neither invitations nor members nor tokens. *)
Aside == UNCHANGED <<memberVars, tokenVars>>

LEMMA Writers ==
  ASSUME NEW q \in Requests, Acts(q)
  PROVE  \/ Aside
         \/ IssueCommit(q) \/ RedeemCommit(q) \/ RotateCommit(q) \/ Logout(q) \/ RevokeCommit(q)
  BY DEF Aside, Acts, Begin, BeginSpend, BeginIssue, BeginOwnToken, BeginRevoke, BeginRedeem,
         Enter, QuotaStep, Crash, AccessStep, IssueLock, IssueRefused, IssueExceeded,
         RedeemLock, RedeemRefused, RotateLock, RotateRefused, RevokeRead, tokenVars

(* A row that somebody holds is written by nobody else. *)
LEMMA RowsProtected ==
  ASSUME IInv, NEW q \in Requests, Acts(q), NEW p \in Requests \ {q}
  PROVE  /\ at[p] = "redeeming" => invite'[inv[p]] \in {"pending", "expired"}
         /\ at[p] = "rotating" => tok[p] \in live'
         /\ member[inv[p]] # "none" => member'[inv[p]] # "none"
  <1>0. TypeOK /\ RowsHeld
    BY DEF IInv
  <1>1. CASE Aside
    BY <1>0, <1>1 DEF Aside, memberVars, tokenVars, RowsHeld
  <1>2. CASE IssueCommit(q)
    BY <1>0, <1>2 DEF IssueCommit, TypeOK, RowsHeld, tokenVars
  <1>3. CASE RedeemCommit(q)
    <2>1. at[q] = "redeeming" /\ live \subseteq live'
      BY <1>3 DEF RedeemCommit
    <2>2. at[p] = "redeeming" => inv[p] # inv[q]
      BY <1>0, <2>1 DEF RowsHeld
    <2>3. at[p] = "redeeming" => invite'[inv[p]] = invite[inv[p]]
      BY <1>0, <1>3, <2>2 DEF RedeemCommit, TypeOK
    <2>4. member[inv[p]] # "none" => member'[inv[p]] # "none"
      BY <1>0, <1>3 DEF RedeemCommit, TypeOK
    <2>5. QED
      BY <1>0, <2>1, <2>3, <2>4 DEF RowsHeld
  <1>4. CASE RotateCommit(q)
    BY <1>0, <1>4 DEF RotateCommit, RowsHeld, memberVars
  <1>5. CASE Logout(q)
    BY <1>0, <1>5 DEF Logout, TokenLocked, RowsHeld, memberVars
  <1>6. CASE RevokeCommit(q)
    <2>1. at[p] = "rotating" => tok[p] \in live'
      BY <1>0, <1>6 DEF RevokeCommit, TokenLocked, RowsHeld
    <2>2. member[inv[p]] # "none" => member'[inv[p]] # "none"
      BY <1>0, <1>6 DEF RevokeCommit, TypeOK
    <2>3. QED
      BY <1>0, <1>6, <2>1, <2>2 DEF RevokeCommit, RowsHeld
  <1>7. QED
    BY <1>1, <1>2, <1>3, <1>4, <1>5, <1>6, Writers

LEMMA RowsStep ==
  ASSUME IInv, NEW q \in Requests, Acts(q)
  PROVE  RowsHeld'
  <1> DEFINE Held(r) ==
        /\ at'[r] = "redeeming" => invite'[inv'[r]] \in {"pending", "expired"}
        /\ at'[r] = "rotating" => tok'[r] \in live'
        /\ at'[r] \in {"rotate", "logout"} => tok'[r] \in Tokens
        /\ at'[r] \in {"revoke", "revoking"} => member'[inv'[r]] # "none"
      Apart(r, p) ==
        /\ at'[r] = "redeeming" /\ at'[p] = "redeeming" => inv'[p] # inv'[r]
        /\ at'[r] = "rotating" /\ at'[p] = "rotating" => tok'[p] # tok'[r]
  <1>0. TypeOK /\ RowsHeld /\ OthersWait(q)
    BY OnlyOneActs DEF IInv
  <1>1. ASSUME NEW p \in Requests \ {q} PROVE Held(p)
    BY <1>0, RowsProtected DEF RowsHeld, OthersWait
  <1>2. at'[q] = "redeeming" =>
          /\ invite'[inv'[q]] \in {"pending", "expired"}
          /\ \A p \in Requests \ {q} : Apart(q, p)
    <2>1. SUFFICES ASSUME at'[q] = "redeeming"
                   PROVE  /\ invite'[inv'[q]] \in {"pending", "expired"}
                          /\ \A p \in Requests \ {q} : Apart(q, p)
      OBVIOUS
    <2>2. RedeemLock(q)
      BY <1>0, <2>1, Arrivals
    <2>3. QED
      BY <1>0, <2>1, <2>2
      DEF RedeemLock, Redeemable, InviteLocked, OthersWait, memberVars
  <1>3. at'[q] = "rotating" =>
          /\ tok'[q] \in live'
          /\ \A p \in Requests \ {q} : Apart(q, p)
    <2>1. SUFFICES ASSUME at'[q] = "rotating"
                   PROVE  /\ tok'[q] \in live'
                          /\ \A p \in Requests \ {q} : Apart(q, p)
      OBVIOUS
    <2>2. RotateLock(q)
      BY <1>0, <2>1, Arrivals
    <2>3. QED
      BY <1>0, <2>1, <2>2 DEF RotateLock, TokenLocked, OthersWait, tokenVars
  <1>4. at'[q] \in {"rotate", "logout"} => tok'[q] \in Tokens
    BY <1>0, Arrivals
  <1>5. at'[q] \in {"revoke", "revoking"} => member'[inv'[q]] # "none"
    <2>1. SUFFICES ASSUME at'[q] \in {"revoke", "revoking"} PROVE member'[inv'[q]] # "none"
      OBVIOUS
    <2>2. /\ UNCHANGED member
          /\ (at[q] = "revoke" /\ inv'[q] = inv[q]) \/ member[inv'[q]] # "none"
      BY <1>0, <2>1, Arrivals
    <2>3. at[q] = "revoke" => member[inv[q]] # "none"
      BY <1>0 DEF RowsHeld
    <2>4. QED
      BY <2>2, <2>3
  <1>6. Held(q)
    BY <1>2, <1>3, <1>4, <1>5
  <1>7. ASSUME NEW r \in Requests, NEW p \in Requests, r # p PROVE Apart(r, p)
    <2>1. CASE r = q
      BY <1>2, <1>3, <1>7, <2>1
    <2>2. CASE p = q
      BY <1>2, <1>3, <1>7, <2>2
    <2>3. CASE r # q /\ p # q
      BY <1>0, <1>7, <2>3 DEF RowsHeld, OthersWait
    <2>4. QED
      BY <2>1, <2>2, <2>3
  <1>8. \A r \in Requests : Held(r)
    BY <1>1, <1>6
  <1> HIDE DEF Held
  <1>9. QED
    BY <1>7, <1>8 DEF RowsHeld, Held

(* A live token is one of a consumed invitation. *)
LEMMA LiveIsUsed ==
  ASSUME IInv, NEW t \in live
  PROVE  t \in Tokens /\ bearer[t] \in Invites /\ invite[bearer[t]] = "consumed"
  <1>1. t \in Tokens
    BY AccessAssumption DEF IInv, TypeOK, Tokens
  <1>2. QED
    BY <1>1 DEF IInv, TypeOK, Unused

(* The token that is minted is a new one, and the others keep their bearer. *)
LEMMA MintsNew ==
  ASSUME IInv, lastToken + 1 \in Tokens, NEW m \in Invites, Mint(m)
  PROVE  /\ lastToken + 1 \notin live /\ bearer'[lastToken + 1] = m
         /\ \A t \in live : t \in Tokens /\ bearer'[t] = bearer[t]
  <1>1. lastToken + 1 \notin live
    BY AccessAssumption DEF IInv, TypeOK
  <1>2. QED
    BY <1>1, LiveIsUsed DEF IInv, TypeOK, Mint

LEMMA UnusedStep ==
  ASSUME IInv, NEW q \in Requests, Acts(q)
  PROVE  Unused'
  <1>0. TypeOK /\ Unused
    BY DEF IInv
  <1>1. CASE Aside
    BY <1>0, <1>1 DEF Aside, memberVars, tokenVars, Unused
  <1>2. CASE IssueCommit(q)
    BY <1>0, <1>2 DEF IssueCommit, TypeOK, Unused, tokenVars
  <1>3. CASE RedeemCommit(q)
    <2>1. lastToken + 1 \in Tokens /\ inv[q] \in Invites /\ invite[inv[q]] # "consumed"
      BY <1>0, <1>3, RoomForToken DEF RedeemCommit, IInv, RowsHeld, TypeOK
    <2>2. /\ bearer'[lastToken + 1] = inv[q] /\ live' = live \cup {lastToken + 1}
          /\ \A t \in live : bearer'[t] = bearer[t]
      BY <1>3, <2>1, MintsNew DEF RedeemCommit
    <2>3. ASSUME NEW i \in Invites, i # inv[q]
          PROVE  /\ invite'[i] = invite[i] /\ member'[i] = member[i]
                 /\ redemptions'[i] = redemptions[i] /\ (i \in overdue' <=> i \in overdue)
      BY <1>0, <1>3, <2>3 DEF RedeemCommit, TypeOK
    <2>4. invite'[inv[q]] = "consumed" /\ redemptions'[inv[q]] = redemptions[inv[q]] + 1
      BY <1>0, <1>3, <2>1 DEF RedeemCommit, TypeOK
    <2>5. redemptions[inv[q]] = 0
      BY <1>0, <2>1 DEF Unused
    <2>6. QED
      BY <1>0, <2>2, <2>3, <2>4, <2>5 DEF Unused
  <1>4. CASE RotateCommit(q)
    <2>1. lastToken + 1 \in Tokens /\ tok[q] \in live
      BY <1>4, RoomForToken DEF RotateCommit, IInv, RowsHeld
    <2>2. bearer[tok[q]] \in Invites /\ invite[bearer[tok[q]]] = "consumed"
      BY <2>1, LiveIsUsed
    <2>3. /\ bearer'[lastToken + 1] = bearer[tok[q]] /\ live' \subseteq live \cup {lastToken + 1}
          /\ \A t \in live : bearer'[t] = bearer[t]
      BY <1>4, <2>1, <2>2, MintsNew DEF RotateCommit
    <2>4. QED
      BY <1>0, <1>4, <2>2, <2>3 DEF RotateCommit, Unused, memberVars
  <1>5. CASE Logout(q)
    BY <1>0, <1>5 DEF Logout, Unused, memberVars
  <1>6. CASE RevokeCommit(q)
    <2>1. inv[q] \in Invites /\ member[inv[q]] # "none"
      BY <1>0, <1>6 DEF RevokeCommit, IInv, RowsHeld, TypeOK
    <2>2. invite[inv[q]] = "consumed"
      BY <1>0, <2>1 DEF Unused
    <2>3. QED
      BY <1>0, <1>6, <2>2 DEF RevokeCommit, Unused, TypeOK
  <1>7. QED
    BY <1>1, <1>2, <1>3, <1>4, <1>5, <1>6, Writers

LEMMA OneLiveTokenStep ==
  ASSUME IInv, NEW q \in Requests, Acts(q)
  PROVE  OneLiveToken'
  <1>0. TypeOK /\ OneLiveToken
    BY DEF IInv
  <1>1. CASE live' \subseteq live /\ bearer' = bearer
    BY <1>0, <1>1 DEF OneLiveToken
  <1>2. CASE RedeemCommit(q)
    <2>1. lastToken + 1 \in Tokens /\ inv[q] \in Invites /\ invite[inv[q]] # "consumed"
      BY <1>0, <1>2, RoomForToken DEF RedeemCommit, IInv, RowsHeld, TypeOK
    <2>2. /\ bearer'[lastToken + 1] = inv[q] /\ live' = live \cup {lastToken + 1}
          /\ \A t \in live : bearer'[t] = bearer[t]
      BY <1>2, <2>1, MintsNew DEF RedeemCommit
    <2>3. \A t \in live : bearer[t] # inv[q]
      BY <2>1 DEF IInv, Unused
    <2>4. QED
      BY <1>0, <2>2, <2>3 DEF OneLiveToken
  <1>3. CASE RotateCommit(q)
    <2>1. lastToken + 1 \in Tokens /\ tok[q] \in live
      BY <1>3, RoomForToken DEF RotateCommit, IInv, RowsHeld
    <2>2. bearer[tok[q]] \in Invites
      BY <2>1, LiveIsUsed
    <2>3. /\ bearer'[lastToken + 1] = bearer[tok[q]]
          /\ live' = (live \ {tok[q]}) \cup {lastToken + 1}
          /\ \A t \in live : bearer'[t] = bearer[t]
      BY <1>3, <2>1, <2>2, MintsNew DEF RotateCommit
    <2>4. QED
      BY <1>0, <2>1, <2>3 DEF OneLiveToken
  <1>4. QED
    BY <1>1, <1>2, <1>3, Writers DEF Aside, tokenVars, IssueCommit, Logout, RevokeCommit

LEMMA TokensLeftStep ==
  ASSUME IInv, NEW q \in Requests, Acts(q)
  PROVE  TokensLeft'
  <1>0. TypeOK /\ TokensLeft /\ OthersWait(q)
    BY OnlyOneActs DEF IInv
  <1>n. lastToken \in Nat /\ MaxTokens \in Nat
    BY <1>0, AccessAssumption DEF TypeOK
  <1>f. IsFiniteSet(Minting) /\ Cardinality(Minting) \in Nat
    BY CountsFinite
  <1>1. CASE Minting' \subseteq Minting /\ lastToken' = lastToken
    <2>1. IsFiniteSet(Minting') /\ Cardinality(Minting') <= Cardinality(Minting)
      BY <1>1, <1>f, FS_Subset
    <2>2. Cardinality(Minting') \in Nat
      BY <2>1, FS_CardinalityType
    <2>3. QED
      BY <1>0, <1>1, <1>f, <1>n, <2>1, <2>2 DEF TokensLeft
  <1>2. CASE Minting' = Minting \cup {q} /\ MayMint /\ lastToken' = lastToken
    <2>1. \/ Cardinality(Minting') = Cardinality(Minting)
          \/ Cardinality(Minting') = Cardinality(Minting) + 1
      BY <1>2, <1>f, FS_AddElement
    <2>2. lastToken + Cardinality(Minting) < MaxTokens
      BY <1>2 DEF MayMint
    <2>3. lastToken + Cardinality(Minting') <= MaxTokens
      BY <1>f, <1>n, <2>1, <2>2
    <2>4. QED
      BY <1>2, <2>3 DEF TokensLeft
  <1>3. CASE Minting' = Minting \ {q} /\ q \in Minting /\ lastToken' = lastToken + 1
    <2>1. Cardinality(Minting') = Cardinality(Minting) - 1
      BY <1>3, <1>f, FS_RemoveElement
    <2>2. QED
      BY <1>0, <1>3, <1>f, <1>n, <2>1 DEF TokensLeft
  <1>4. \A p \in Requests \ {q} : p \in Minting' <=> p \in Minting
    BY <1>0 DEF Minting, OthersWait
  <1>5. CASE RedeemCommit(q) \/ RotateCommit(q)
    <2>1. at'[q] = "idle" /\ q \in Minting /\ lastToken' = lastToken + 1
      BY <1>0, <1>5 DEF RedeemCommit, RotateCommit, Ends, Answer, Goto, Mint, Minting, TypeOK
    <2>2. Minting' = Minting \ {q}
      BY <1>4, <2>1 DEF Minting
    <2>3. QED
      BY <1>3, <2>1, <2>2
  <1>6. CASE q \in Minting' => q \in Minting \/ MayMint
    <2>1. CASE lastToken' # lastToken
      BY <1>5, <2>1, Writers DEF Aside, tokenVars, IssueCommit, Logout, RevokeCommit
    <2>2. CASE lastToken' = lastToken /\ q \in Minting' /\ q \notin Minting
      <3>1. Minting' = Minting \cup {q}
        BY <1>4, <2>2 DEF Minting
      <3>2. QED
        BY <1>2, <1>6, <2>2, <3>1
    <2>3. CASE lastToken' = lastToken /\ (q \in Minting' => q \in Minting)
      <3>1. Minting' \subseteq Minting
        BY <1>4, <2>3 DEF Minting
      <3>2. QED
        BY <1>1, <2>3, <3>1
    <2>4. QED
      BY <2>1, <2>2, <2>3
  <1>7. q \in Minting' => q \in Minting \/ MayMint
    <2>1. SUFFICES ASSUME q \in Minting', ~MayMint PROVE q \in Minting
      OBVIOUS
    <2>2. at'[q] \in {"redeem", "redeeming", "rotate", "rotating"}
      BY <2>1 DEF Minting
    <2>3. CASE Begin(q)
      <3>1. at'[q] \in {"charge", "issue", "logout", "revoke"}
        BY <1>0, <2>1, <2>3
        DEF Begin, BeginSpend, BeginIssue, BeginOwnToken, BeginRevoke, BeginRedeem, Enter,
            Goto, TypeOK
      <3>2. QED
        BY <2>2, <3>1
    <2>4. CASE QuotaStep(q)
      <3>1. at'[q] \in {"idle", "charging", "work", "refund"}
        BY <1>0, <2>4
        DEF TypeOK, QuotaStep, Goto, Answer, ChargeLock, ChargeRefused, ChargeCommit,
            ChargeExhausted, WorkDone, WorkFails, Refund
      <3>2. QED
        BY <2>2, <3>1
    <2>5. CASE Ends(q)
      BY <1>0, <2>2, <2>5 DEF Ends, Answer, Goto, TypeOK
    <2>6. CASE IssueLock(q) \/ RevokeRead(q)
      BY <1>0, <2>2, <2>6 DEF IssueLock, RevokeRead, Goto, TypeOK
    <2>7. CASE RedeemLock(q) \/ RotateLock(q)
      BY <2>7 DEF RedeemLock, RotateLock, Minting
    <2>8. QED
      BY <2>3, <2>4, <2>5, <2>6, <2>7
      DEF Acts, Crash, AccessStep, IssueRefused, IssueCommit, IssueExceeded, RedeemRefused,
          RedeemCommit, RotateRefused, RotateCommit, Logout, RevokeCommit
  <1>8. QED
    BY <1>6, <1>7

LEMMA EnvironmentIInv ==
  ASSUME IInv, Environment
  PROVE  CountsHeld' /\ RowsHeld' /\ Unused' /\ TokensLeft' /\ OneLiveToken'
  <1>0. TypeOK
    BY DEF IInv
  <1>1. UNCHANGED <<used, holder, at, mon, seen, member, redemptions, overdue, tokenVars, inv, tok>>
    BY DEF Environment, Expire, Suspend, MonthEnds, quotaVars, memberVars
  <1>2. \A i \in Invites : \/ invite'[i] = invite[i]
                           \/ invite[i] = "pending" /\ invite'[i] = "expired"
    BY <1>0 DEF Environment, Expire, TypeOK, memberVars
  <1>3. CountsHeld'
    BY <1>1 DEF IInv, CountsHeld, ActiveMembers
  <1>4. RowsHeld'
    BY <1>0, <1>1, <1>2 DEF IInv, RowsHeld, TypeOK, tokenVars
  <1>5. Unused'
    BY <1>1, <1>2 DEF IInv, Unused, tokenVars
  <1>6. TokensLeft' /\ OneLiveToken'
    BY <1>1 DEF IInv, TokensLeft, OneLiveToken, Minting, tokenVars
  <1>7. QED
    BY <1>3, <1>4, <1>5, <1>6

LEMMA StepIInv ==
  ASSUME IInv, [Next]_vars
  PROVE  IInv'
  <1>1. TypeOK'
    BY TypesStep
  <1>2. ASSUME NEW q \in Requests, Acts(q) PROVE IInv'
    BY <1>1, <1>2, CountsStep, RowsStep, UnusedStep, TokensLeftStep, OneLiveTokenStep DEF IInv
  <1>3. CASE Environment
    BY <1>1, <1>3, EnvironmentIInv DEF IInv
  <1>4. CASE UNCHANGED vars
    BY <1>1, <1>4
    DEF IInv, CountsHeld, RowsHeld, Unused, TokensLeft, OneLiveToken, vars, quotaVars,
        memberVars, tokenVars, ActiveMembers, Minting
  <1>5. QED
    BY <1>2, <1>3, <1>4 DEF Next, Step, Acts

-----------------------------------------------------------------------------
(* Theorems *)

(* The invariant of every step of every request (all the handlers of       *)
(* saas_foundation that write).                                            *)
THEOREM Inductive == Spec => []IInv
  BY InitIInv, StepIInv, PTL DEF Spec

(* Counters stay within the quota and every row keeps its type: no charge  *)
(* passes the limit of the plan (charge).                                  *)
THEOREM TypeCorrect == Spec => []TypeOK
  <1>1. IInv => TypeOK
    BY DEF IInv
  <1>2. QED
    BY <1>1, Inductive, PTL

(* An invitation makes one member, however many redeem it                  *)
(* (redeem_invitation).                                                    *)
THEOREM SingleRedemption == Spec => []RedeemedOnce
  <1>1. IInv => RedeemedOnce
    BY DEF IInv, Unused, RedeemedOnce
  <1>2. QED
    BY <1>1, Inductive, PTL

(* A member has one token at a time (rotate_token).                        *)
THEOREM SingleToken == Spec => []OneLiveToken
  <1>1. IInv => OneLiveToken
    BY DEF IInv
  <1>2. QED
    BY <1>1, Inductive, PTL

-----------------------------------------------------------------------------
(* The quota *)

Working == {"work", "refund"}

(* Nobody works on a unit of another month because q steps. *)
LEMMA OthersWork ==
  ASSUME TypeOK, NEW q \in Requests, OthersWait(q), NEW m \in Months
  PROVE  /\ InWork(m) \ {q} = InWork(m)' \ {q}
         /\ (at[q] \in Working /\ mon[q] = m) <=> q \in InWork(m)
         /\ (at'[q] \in Working /\ mon'[q] = m) <=> q \in InWork(m)'
  BY DEF InWork, OthersWait, Working

LEMMA SameWork ==
  ASSUME TypeOK, NEW q \in Requests, OthersWait(q),
         \/ at[q] \notin Working /\ at'[q] \notin Working
         \/ at[q] \in Working /\ at'[q] \in Working /\ mon'[q] = mon[q]
  PROVE  \A m \in Months : InWork(m)' = InWork(m)
  <1> TAKE m \in Months
  <1>1. q \in InWork(m)' <=> q \in InWork(m)
    BY OthersWork
  <1>2. InWork(m) \ {q} = InWork(m)' \ {q}
    BY OthersWork
  <1>3. QED
    BY <1>1, <1>2

LEMMA StartsWork ==
  ASSUME TypeOK, NEW q \in Requests, OthersWait(q),
         at[q] \notin Working, at'[q] \in Working, mon'[q] = mon[q]
  PROVE  \A m \in Months : Cardinality(InWork(m)') =
           IF m = mon[q] THEN Cardinality(InWork(m)) + 1 ELSE Cardinality(InWork(m))
  <1> TAKE m \in Months
  <1>1. q \notin InWork(m) /\ (q \in InWork(m)' <=> m = mon[q])
    BY OthersWork
  <1>2. InWork(m) \ {q} = InWork(m)' \ {q}
    BY OthersWork
  <1>3. InWork(m)' = IF m = mon[q] THEN InWork(m) \cup {q} ELSE InWork(m)
    BY <1>1, <1>2
  <1>4. QED
    <2>1. IsFiniteSet(InWork(m))
      BY CountsFinite
    <2>2. CASE m = mon[q]
      <3>1. q \notin InWork(m) /\ InWork(m)' = InWork(m) \cup {q}
        BY <1>1, <1>3, <2>2
      <3>2. Cardinality(InWork(m) \cup {q}) = Cardinality(InWork(m)) + 1
        BY <2>1, <3>1, FS_AddElement
      <3>3. QED
        BY <2>2, <3>1, <3>2
    <2>3. CASE m # mon[q]
      BY <1>3, <2>3
    <2>4. QED
      BY <2>2, <2>3

LEMMA LeavesWork ==
  ASSUME TypeOK, NEW q \in Requests, OthersWait(q),
         at[q] \in Working, at'[q] \notin Working
  PROVE  \A m \in Months : Cardinality(InWork(m)') =
           IF m = mon[q] THEN Cardinality(InWork(m)) - 1 ELSE Cardinality(InWork(m))
  <1> TAKE m \in Months
  <1>1. q \notin InWork(m)' /\ (q \in InWork(m) <=> m = mon[q])
    BY OthersWork
  <1>2. InWork(m) \ {q} = InWork(m)' \ {q}
    BY OthersWork
  <1>3. InWork(m)' = IF m = mon[q] THEN InWork(m) \ {q} ELSE InWork(m)
    BY <1>1, <1>2
  <1>4. QED
    <2>1. IsFiniteSet(InWork(m)) /\ Cardinality(InWork(m)) \in Nat
      BY CountsFinite
    <2>2. CASE m = mon[q]
      <3>1. q \in InWork(m) /\ InWork(m)' = InWork(m) \ {q}
        BY <1>1, <1>3, <2>2
      <3>2. Cardinality(InWork(m) \ {q}) = Cardinality(InWork(m)) - 1
        BY <2>1, <3>1, FS_RemoveElement
      <3>3. QED
        BY <2>2, <3>1, <3>2
    <2>3. CASE m # mon[q]
      BY <1>3, <2>3
    <2>4. QED
      BY <2>2, <2>3

(* The steps that neither begin nor end work do not touch the counters.    *)
LEMMA Bystander ==
  ASSUME TypeOK, NEW q \in Requests, Acts(q)
  PROVE  \/ ChargeCommit(q) \/ WorkDone(q) \/ Refund(q) \/ Crash(q)
         \/ /\ UNCHANGED <<used, done, leaked, wrong>>
            /\ \/ at[q] \notin Working /\ at'[q] \notin Working
               \/ at[q] \in Working /\ at'[q] \in Working /\ mon'[q] = mon[q]
  <1>1. CASE Begin(q)
    <2>1. at[q] = "idle" /\ at'[q] \in {"charge", "issue", "logout", "rotate", "revoke", "redeem"}
      BY <1>1 DEF Begin, BeginSpend, BeginIssue, BeginOwnToken, BeginRevoke, BeginRedeem,
                  Enter, Goto, TypeOK
    <2>2. UNCHANGED quotaVars
      BY <1>1 DEF Begin, BeginSpend, BeginIssue, BeginOwnToken, BeginRevoke, BeginRedeem, Enter
    <2>3. QED
      BY <2>1, <2>2 DEF quotaVars, Working
  <1>2. CASE ChargeLock(q)
    BY <1>2 DEF ChargeLock, Goto, TypeOK, Working
  <1>3. CASE ChargeRefused(q)
    BY <1>3 DEF ChargeRefused, Answer, Goto, TypeOK, Working, quotaVars
  <1>4. CASE ChargeExhausted(q)
    BY <1>4 DEF ChargeExhausted, Answer, Goto, TypeOK, Working, quotaVars
  <1>5. CASE WorkFails(q)
    BY <1>5 DEF WorkFails, Goto, TypeOK, Working, quotaVars
  <1>6. CASE AccessStep(q)
    <2>1. UNCHANGED quotaVars
      BY <1>6 DEF AccessStep, IssueLock, IssueRefused, IssueCommit, IssueExceeded, RedeemLock,
           RedeemRefused, RedeemCommit, RotateLock, RotateRefused, RotateCommit, Logout,
           RevokeRead, RevokeCommit
    <2>2. at[q] \in {"issue", "issuing", "redeem", "redeeming", "rotate", "rotating", "logout",
                     "revoke", "revoking"}
      BY <1>6 DEF AccessStep, IssueLock, IssueRefused, IssueCommit, IssueExceeded, RedeemLock,
           RedeemRefused, RedeemCommit, RotateLock, RotateRefused, RotateCommit, Logout,
           RevokeRead, RevokeCommit
    <2>3. CASE Ends(q)
      BY <2>1, <2>2, <2>3 DEF Ends, Answer, Goto, TypeOK, Working, quotaVars
    <2>4. CASE IssueLock(q) \/ RedeemLock(q) \/ RotateLock(q) \/ RevokeRead(q)
      BY <2>1, <2>2, <2>4
      DEF IssueLock, RedeemLock, RotateLock, RevokeRead, Goto, TypeOK, Working, quotaVars
    <2>5. QED
      BY <1>6, <2>3, <2>4
      DEF AccessStep, IssueRefused, IssueCommit, IssueExceeded, RedeemRefused, RedeemCommit,
          RotateRefused, RotateCommit, Logout, RevokeCommit
  <1>7. QED
    BY <1>1, <1>2, <1>3, <1>4, <1>5, <1>6 DEF Acts, QuotaStep

LEMMA UsageStep ==
  ASSUME IInv, UsageAccounted, NEW q \in Requests, Acts(q)
  PROVE  UsageAccounted'
  <1> DEFINE Balance(m) == used'[m] + wrong'[m] = done'[m] + Cardinality(InWork(m)') + leaked'[m]
  <1> SUFFICES ASSUME NEW m \in Months
               PROVE  Balance(m)
    BY DEF UsageAccounted
  <1> DEFINE n == Cardinality(InWork(m))
             nn == Cardinality(InWork(m)')
  <1>0. TypeOK /\ CountsHeld /\ OthersWait(q)
    BY OnlyOneActs DEF IInv
  <1>t. /\ used[m] \in Nat /\ wrong[m] \in Nat /\ done[m] \in Nat
        /\ leaked[m] \in Nat /\ n \in Nat
    BY <1>0, CountsFinite, QuotaAssumption DEF TypeOK, QuotaTypeOK
  <1>b. used[m] + wrong[m] = done[m] + n + leaked[m]
    BY DEF UsageAccounted
  (* Where a unit goes: each of these moves keeps the account of the month. *)
  <1>u. /\ (used[m] + 1) + wrong[m] = done[m] + (n + 1) + leaked[m]
        /\ used[m] + wrong[m] = (done[m] + 1) + (n - 1) + leaked[m]
        /\ (used[m] - 1) + wrong[m] = done[m] + (n - 1) + leaked[m]
        /\ (used[m] - 1) + (wrong[m] + 1) = done[m] + n + leaked[m]
        /\ used[m] + wrong[m] = done[m] + (n - 1) + (leaked[m] + 1)
        /\ (used[m] - 1) + (wrong[m] + 1) = done[m] + (n - 1) + (leaked[m] + 1)
    <2> HIDE DEF n
    <2>1. PICK u \in Nat, w \in Nat, d \in Nat, k \in Nat, l \in Nat :
            u = used[m] /\ w = wrong[m] /\ d = done[m] /\ k = n /\ l = leaked[m]
      BY <1>t
    <2>2. u + w = d + k + l
      BY <1>b, <2>1
    <2>3. /\ (u + 1) + w = d + (k + 1) + l
          /\ u + w = (d + 1) + (k - 1) + l
          /\ (u - 1) + w = d + (k - 1) + l
          /\ (u - 1) + (w + 1) = d + k + l
          /\ u + w = d + (k - 1) + (l + 1)
          /\ (u - 1) + (w + 1) = d + (k - 1) + (l + 1)
      BY <2>2
    <2>4. QED
      BY <2>1, <2>3
  <1>m. mon[q] \in Months /\ month \in Months
    BY <1>0 DEF TypeOK, QuotaTypeOK
  <1>1. CASE ChargeCommit(q)
    <2>1. at[q] = "charging" /\ at'[q] = "work" /\ mon' = mon
      BY <1>0, <1>1 DEF ChargeCommit, Goto, TypeOK
    <2>2. nn = IF m = mon[q] THEN n + 1 ELSE n
      BY <1>0, <2>1, StartsWork DEF Working
    <2>3. used'[m] = IF m = mon[q] THEN used[m] + 1 ELSE used[m]
      BY <1>0, <1>1 DEF ChargeCommit, CountsHeld, TypeOK, QuotaTypeOK
    <2>4. done' = done /\ leaked' = leaked /\ wrong' = wrong
      BY <1>1 DEF ChargeCommit
    <2> HIDE DEF n, nn
    <2>5. used'[m] + wrong'[m] = done'[m] + nn + leaked'[m]
      BY <1>b, <1>u, <2>2, <2>3, <2>4
    <2>6. QED
      BY <2>5 DEF nn
  <1>2. CASE WorkDone(q)
    <2>1. at[q] = "work" /\ at'[q] = "idle"
      BY <1>0, <1>2 DEF WorkDone, Answer, Goto, TypeOK
    <2>2. nn = IF m = mon[q] THEN n - 1 ELSE n
      BY <1>0, <2>1, LeavesWork DEF Working
    <2>3. done'[m] = IF m = mon[q] THEN done[m] + 1 ELSE done[m]
      BY <1>0, <1>2 DEF WorkDone, Count, TypeOK, QuotaTypeOK
    <2>4. used' = used /\ leaked' = leaked /\ wrong' = wrong
      BY <1>2 DEF WorkDone
    <2> HIDE DEF n, nn
    <2>5. used'[m] + wrong'[m] = done'[m] + nn + leaked'[m]
      BY <1>b, <1>u, <2>2, <2>3, <2>4
    <2>6. QED
      BY <2>5 DEF nn
  <1>3. CASE Refund(q)
    <2>1. at[q] = "refund" /\ at'[q] = "idle" /\ done' = done
      BY <1>0, <1>3 DEF Refund, Answer, Goto, TypeOK
    <2>2. nn = IF m = mon[q] THEN n - 1 ELSE n
      BY <1>0, <2>1, LeavesWork DEF Working
    <2>3. CASE used[month] > 0 /\ mon[q] = month
      <3>1. /\ used'[m] = IF m = mon[q] THEN used[m] - 1 ELSE used[m]
            /\ leaked' = leaked /\ wrong' = wrong
        BY <1>0, <1>3, <2>3 DEF Refund, TypeOK, QuotaTypeOK
      <3> HIDE DEF n, nn
      <3>2. used'[m] + wrong'[m] = done'[m] + nn + leaked'[m]
        BY <1>b, <1>u, <2>1, <2>2, <3>1
      <3>3. QED
        BY <3>2 DEF nn
    <2>4. CASE used[month] > 0 /\ mon[q] # month
      <3>1. /\ used'[m] = IF m = month THEN used[m] - 1 ELSE used[m]
            /\ leaked'[m] = IF m = mon[q] THEN leaked[m] + 1 ELSE leaked[m]
            /\ wrong'[m] = IF m = month THEN wrong[m] + 1 ELSE wrong[m]
        BY <1>0, <1>3, <2>4 DEF Refund, Count, TypeOK, QuotaTypeOK
      <3> HIDE DEF n, nn
      <3>2. used'[m] + wrong'[m] = done'[m] + nn + leaked'[m]
        BY <1>b, <1>u, <2>1, <2>2, <3>1
      <3>3. QED
        BY <3>2 DEF nn
    <2>5. CASE ~(used[month] > 0)
      <3>1. /\ used' = used /\ wrong' = wrong
            /\ leaked'[m] = IF m = mon[q] THEN leaked[m] + 1 ELSE leaked[m]
        BY <1>0, <1>3, <2>5 DEF Refund, Count, TypeOK, QuotaTypeOK
      <3> HIDE DEF n, nn
      <3>2. used'[m] + wrong'[m] = done'[m] + nn + leaked'[m]
        BY <1>b, <1>u, <2>1, <2>2, <3>1
      <3>3. QED
        BY <3>2 DEF nn
    <2>6. QED
      BY <2>3, <2>4, <2>5
  <1>4. CASE Crash(q)
    <2>1. at'[q] = "idle" /\ used' = used /\ done' = done /\ wrong' = wrong
      BY <1>0, <1>4 DEF Crash, Ends, Answer, Goto, TypeOK
    <2>2. CASE at[q] \in Working
      <3>1. nn = IF m = mon[q] THEN n - 1 ELSE n
        BY <1>0, <2>1, <2>2, LeavesWork DEF Working
      <3>2. leaked'[m] = IF m = mon[q] THEN leaked[m] + 1 ELSE leaked[m]
        BY <1>0, <1>4, <2>2 DEF Crash, LeakUnit, Count, Working, TypeOK, QuotaTypeOK
      <3> HIDE DEF n, nn
      <3>3. used'[m] + wrong'[m] = done'[m] + nn + leaked'[m]
        BY <1>b, <1>u, <2>1, <3>1, <3>2
      <3>4. QED
        BY <3>3 DEF nn
    <2>3. CASE at[q] \notin Working
      <3>1. leaked' = leaked
        BY <1>4, <2>3 DEF Crash, LeakUnit, Working
      <3>2. InWork(m)' = InWork(m)
        BY <1>0, <2>1, <2>3, SameWork DEF Working
      <3>3. QED
        BY <1>b, <2>1, <3>1, <3>2
    <2>4. QED
      BY <2>2, <2>3
  <1>5. CASE /\ UNCHANGED <<used, done, leaked, wrong>>
             /\ \/ at[q] \notin Working /\ at'[q] \notin Working
                \/ at[q] \in Working /\ at'[q] \in Working /\ mon'[q] = mon[q]
    <2>1. InWork(m)' = InWork(m)
      BY <1>0, <1>5, SameWork
    <2>2. QED
      BY <1>b, <1>5, <2>1
  <1>6. QED
    BY <1>0, <1>1, <1>2, <1>3, <1>4, <1>5, Bystander

LEMMA UsageInit == Init => UsageAccounted
  <1> SUFFICES ASSUME Init PROVE UsageAccounted
    OBVIOUS
  <1>1. \A m \in Months : InWork(m) = {}
    BY DEF Init, InWork
  <1>2. QED
    <2>1. Cardinality({}) = 0
      BY FS_EmptySet
    <2>2. \A m \in Months : Cardinality(InWork(m)) = 0
      BY <1>1, <2>1
    <2>3. \A m \in Months : used[m] = 0 /\ wrong[m] = 0 /\ done[m] = 0 /\ leaked[m] = 0
      BY DEF Init, QuotaInit
    <2>4. QED
      BY <2>2, <2>3 DEF UsageAccounted

LEMMA UsageInvariant == IInv /\ UsageAccounted /\ [Next]_vars => UsageAccounted'
  <1> SUFFICES ASSUME IInv, UsageAccounted, [Next]_vars PROVE UsageAccounted'
    OBVIOUS
  <1>1. CASE UNCHANGED <<used, done, leaked, wrong, at, mon>>
    BY <1>1 DEF UsageAccounted, InWork
  <1>2. QED
    BY <1>1, UsageStep
    DEF Next, Step, Acts, Environment, Expire, Suspend, MonthEnds, vars, quotaVars

(* The counter of a month is the sum of the work done, the work in         *)
(* progress and the units lost (charge, refund).                           *)
THEOREM QuotaAccounted == Spec => []UsageAccounted
  BY UsageInit, UsageInvariant, Inductive, PTL DEF Spec

(* A month does no more work than its quota and what refunds of another    *)
(* month took from its counter (charge, refund).                           *)
THEOREM QuotaKept == Spec => []ServedWithinLimit
  <1>1. IInv /\ UsageAccounted => ServedWithinLimit
    <2> SUFFICES ASSUME IInv, UsageAccounted, NEW m \in Months
                 PROVE  done[m] <= Limit + wrong[m]
      BY DEF ServedWithinLimit
    <2>1. /\ used[m] \in 0..Limit /\ wrong[m] \in Nat /\ done[m] \in Nat
          /\ leaked[m] \in Nat /\ Cardinality(InWork(m)) \in Nat
      BY CountsFinite DEF IInv, TypeOK, QuotaTypeOK
    <2>2. used[m] + wrong[m] = done[m] + Cardinality(InWork(m)) + leaked[m]
      BY DEF UsageAccounted
    <2>3. QED
      BY <2>1, <2>2, QuotaAssumption
  <1>2. QED
    BY <1>1, Inductive, QuotaAccounted, PTL

-----------------------------------------------------------------------------
(* A suspended tenant *)

(* Whoever charges or invites found the tenant active, and holds it. *)
Serving == \A q \in Requests : at[q] \in {"charging", "issuing"} => lifecycle = "active"

LEMMA ServingStep == IInv /\ Serving /\ [Next]_vars => Serving'
  <1> SUFFICES ASSUME IInv, Serving, [Next]_vars PROVE Serving'
    OBVIOUS
  <1>1. ASSUME NEW q \in Requests, Acts(q) PROVE Serving'
    <2>1. TypeOK /\ OthersWait(q)
      BY <1>1, OnlyOneActs DEF IInv
    <2>2. lifecycle' = lifecycle
      BY <1>1
      DEF Acts, Begin, BeginSpend, BeginIssue, BeginOwnToken, BeginRevoke, BeginRedeem, Enter,
          quotaVars, QuotaStep, ChargeLock, ChargeRefused, ChargeCommit, ChargeExhausted,
          WorkDone, WorkFails, Refund, AccessStep, IssueLock, IssueRefused, IssueCommit,
          IssueExceeded, RedeemLock, RedeemRefused, RedeemCommit, RotateLock, RotateRefused,
          RotateCommit, Logout, RevokeRead, RevokeCommit, Crash
    <2>3. at'[q] \in {"charging", "issuing"} => lifecycle = "active"
      BY <1>1, <2>1, Arrivals DEF ChargeLock, IssueLock
    <2>4. QED
      BY <2>1, <2>2, <2>3 DEF Serving, OthersWait
  <1>2. CASE Environment
    <2>1. at' = at
      BY <1>2 DEF Environment, Expire, Suspend, MonthEnds
    <2>2. CASE Suspend
      BY <2>1, <2>2, QuotaAssumption DEF Suspend, Free, IInv, CountsHeld, Serving
    <2>3. CASE lifecycle' = lifecycle
      BY <2>1, <2>3 DEF Serving
    <2>4. QED
      BY <1>2, <2>2, <2>3 DEF Environment, Expire, MonthEnds, quotaVars
  <1>3. CASE UNCHANGED vars
    BY <1>3 DEF vars, quotaVars, Serving
  <1>4. QED
    BY <1>1, <1>2, <1>3 DEF Next, Step, Acts

(* Only a charge makes a counter grow. *)
LEMMA OnlyChargesCount ==
  ASSUME IInv, NEW q \in Requests, Acts(q), at[q] # "charging"
  PROVE  \A m \in Months : used'[m] <= used[m]
  <1>0. used \in [Months -> 0..Limit] /\ month \in Months
    BY DEF IInv, TypeOK, QuotaTypeOK
  <1>1. CASE Refund(q)
    <2>1. \/ used' = used
          \/ used[month] > 0 /\ used' = [used EXCEPT ![month] = used[month] - 1]
      BY <1>1 DEF Refund
    <2>2. QED
      BY <1>0, <2>1, QuotaAssumption
  <1>2. CASE used' = used
    BY <1>0, <1>2, QuotaAssumption
  <1>3. QED
    BY <1>1, <1>2, Bystander DEF IInv, ChargeCommit, WorkDone, Crash

(* Nothing is reserved and nobody is invited once the tenant is suspended, *)
(* though the request was authenticated before (charge, issue_invitation). *)
THEOREM Frozen == Spec => SuspendedFrozen
  <1>1. Init => Serving
    BY DEF Init, Serving
  <1> DEFINE NoService == lifecycle = "suspended" =>
                            /\ \A m \in Months : used'[m] <= used[m]
                            /\ \A i \in Invites : invite[i] = "none" => invite'[i] = "none"
  <1>2. IInv /\ Serving /\ [Next]_vars => [NoService]_vars
    <2> SUFFICES ASSUME IInv, Serving, Next, lifecycle = "suspended"
                 PROVE  /\ \A m \in Months : used'[m] <= used[m]
                        /\ \A i \in Invites : invite[i] = "none" => invite'[i] = "none"
      OBVIOUS
    <2>1. ASSUME NEW q \in Requests, Acts(q)
          PROVE  /\ \A m \in Months : used'[m] <= used[m]
                 /\ \A i \in Invites : invite[i] = "none" => invite'[i] = "none"
      <3>1. at[q] \notin {"charging", "issuing"}
        BY DEF Serving
      <3>2. \A m \in Months : used'[m] <= used[m]
        BY <2>1, <3>1, OnlyChargesCount
      <3>3. CASE RedeemCommit(q)
        BY <3>2, <3>3 DEF RedeemCommit, IInv, RowsHeld, TypeOK
      <3>4. CASE invite' = invite
        BY <3>2, <3>4
      <3>5. QED
        BY <2>1, <3>1, <3>3, <3>4, Writers
        DEF Aside, memberVars, IssueCommit, RotateCommit, Logout, RevokeCommit
    <2>2. CASE Environment
      <3>1. \A i \in Invites : invite[i] = "none" => invite'[i] = "none"
        BY <2>2 DEF Environment, Expire, IInv, TypeOK, memberVars
      <3>2. used' = used /\ used \in [Months -> 0..Limit]
        BY <2>2 DEF Environment, Expire, Suspend, MonthEnds, quotaVars, IInv, TypeOK, QuotaTypeOK
      <3>3. QED
        BY <3>1, <3>2, QuotaAssumption
    <2>3. QED
      BY <2>1, <2>2 DEF Next, Step, Acts
  <1>3. QED
    BY <1>1, <1>2, ServingStep, Inductive, PTL DEF Spec, SuspendedFrozen

-----------------------------------------------------------------------------
(* The seats *)

Taken == (ActiveMembers \cup PendingInvites) \ overdue

LEMMA SeatsInit == Init => SeatsKept
  <1> SUFFICES ASSUME Init PROVE SeatsKept
    OBVIOUS
  <1>1. Taken = {Owner}
    BY AccessAssumption DEF Init, Taken, ActiveMembers, PendingInvites
  <1>2. QED
    <2>1. Cardinality({Owner}) = 1
      BY FS_Singleton
    <2>2. Cardinality(Taken) <= Seats
      BY <1>1, <2>1, AccessAssumption
    <2>3. QED
      BY <2>2 DEF Taken, SeatsKept

(* Nobody takes a seat by a step that frees or hands on one. *)
LEMMA NoSeatTaken ==
  ASSUME IInv, SeatsKept, Taken' \subseteq Taken
  PROVE  SeatsKept'
  <1>1. IsFiniteSet(ActiveMembers \cup PendingInvites)
    BY CountsFinite, FS_Union
  <1>2. IsFiniteSet(Taken) /\ Cardinality(Taken) \in Nat
    BY <1>1, FS_Subset, FS_CardinalityType DEF Taken
  <1>3. Cardinality(Taken') <= Cardinality(Taken) /\ Cardinality(Taken') \in Nat
    BY <1>2, FS_Subset, FS_CardinalityType
  <1>4. QED
    BY <1>2, <1>3, AccessAssumption DEF SeatsKept, Taken

(* An invitation is issued only when the counts leave a seat. *)
LEMMA SeatsIssue ==
  ASSUME IInv, NEW q \in Requests, IssueCommit(q)
  PROVE  SeatsKept'
  <1>0. TypeOK /\ CountsHeld
    BY DEF IInv
  <1>1. PICK i \in Invites : invite[i] = "none" /\ invite' = [invite EXCEPT ![i] = "pending"]
    BY DEF IssueCommit
  <1>2. /\ at[q] = "issuing" /\ SeatFree(q)
        /\ member' = member /\ overdue' = overdue
    BY DEF IssueCommit
  <1>3. Cardinality(ActiveMembers) + Cardinality(PendingInvites) < Seats
    BY <1>0, <1>2 DEF CountsHeld, SeatFree
  <1>4. PendingInvites' = PendingInvites \cup {i} /\ i \notin PendingInvites
    BY <1>0, <1>1 DEF PendingInvites, TypeOK
  <1>5. ActiveMembers' = ActiveMembers
    BY <1>2 DEF ActiveMembers
  <1>6. /\ IsFiniteSet(PendingInvites')
        /\ Cardinality(PendingInvites') = Cardinality(PendingInvites) + 1
    BY <1>4, CountsFinite, FS_AddElement
  <1>7. IsFiniteSet(ActiveMembers \cap PendingInvites')
    BY <1>6, FS_Intersection, CountsFinite
  <1>8. /\ IsFiniteSet(ActiveMembers \cup PendingInvites')
        /\ Cardinality(ActiveMembers \cup PendingInvites') =
             Cardinality(ActiveMembers) + Cardinality(PendingInvites')
               - Cardinality(ActiveMembers \cap PendingInvites')
    BY <1>6, CountsFinite, FS_Union
  <1>9. Cardinality(ActiveMembers \cap PendingInvites') \in Nat
    BY <1>7, FS_CardinalityType
  <1>10. Cardinality(ActiveMembers \cup PendingInvites') <= Seats
    BY <1>3, <1>6, <1>8, <1>9, CountsFinite, AccessAssumption
  <1>11. /\ IsFiniteSet(Taken') /\ Cardinality(ActiveMembers \cup PendingInvites') \in Nat
         /\ Cardinality(Taken') <= Cardinality(ActiveMembers \cup PendingInvites')
    BY <1>5, <1>8, FS_Subset, FS_CardinalityType DEF Taken
  <1>12. Cardinality(Taken') \in Nat
    BY <1>11, FS_CardinalityType
  <1>13. QED
    BY <1>10, <1>11, <1>12, AccessAssumption DEF SeatsKept, Taken

LEMMA SeatsStep == IInv /\ SeatsKept /\ [Next]_vars => SeatsKept'
  <1> SUFFICES ASSUME IInv, SeatsKept, [Next]_vars PROVE SeatsKept'
    OBVIOUS
  <1>0. TypeOK /\ Unused /\ RowsHeld
    BY DEF IInv
  <1>1. CASE UNCHANGED memberVars
    BY <1>1, NoSeatTaken DEF memberVars, Taken, ActiveMembers, PendingInvites
  <1>2. ASSUME NEW q \in Requests, IssueCommit(q) PROVE SeatsKept'
    BY <1>2, SeatsIssue
  <1>3. ASSUME NEW q \in Requests, RedeemCommit(q) PROVE SeatsKept'
    <2>1. /\ inv[q] \in Invites /\ invite[inv[q]] \in {"pending", "expired"}
          /\ inv[q] \notin overdue
      BY <1>0, <1>3 DEF RedeemCommit, TypeOK, RowsHeld, Unused
    <2>2. ASSUME NEW i \in Taken', i # inv[q] PROVE i \in Taken
      BY <1>0, <1>3, <2>2 DEF RedeemCommit, TypeOK, Taken, ActiveMembers, PendingInvites
    <2>3. inv[q] \in Taken' => inv[q] \in Taken
      BY <1>0, <1>3, <2>1 DEF RedeemCommit, TypeOK, Taken, ActiveMembers, PendingInvites
    <2>4. QED
      BY <2>2, <2>3, NoSeatTaken
  <1>4. ASSUME NEW q \in Requests, RevokeCommit(q) PROVE SeatsKept'
    <2>1. Taken' \subseteq Taken
      BY <1>0, <1>4 DEF RevokeCommit, TypeOK, Taken, ActiveMembers, PendingInvites
    <2>2. QED
      BY <2>1, NoSeatTaken
  <1>5. ASSUME NEW i \in Invites, Expire(i) PROVE SeatsKept'
    <2>1. Taken' \subseteq Taken
      BY <1>0, <1>5 DEF Expire, TypeOK, Taken, ActiveMembers, PendingInvites
    <2>2. QED
      BY <2>1, NoSeatTaken
  <1>6. ASSUME NEW q \in Requests, Acts(q) PROVE SeatsKept'
    BY <1>1, <1>2, <1>3, <1>4, <1>6, Writers DEF Aside, RotateCommit, Logout
  <1>7. QED
    BY <1>1, <1>5, <1>6 DEF Next, Step, Acts, Environment, vars

(* Members and open invitations never take more seats than the plan has,   *)
(* but for those that expired while they were redeemed (issue_invitation,  *)
(* redeem_invitation).                                                     *)
THEOREM SeatsHold == Spec => []SeatsKept
  BY SeatsInit, SeatsStep, Inductive, PTL DEF Spec

-----------------------------------------------------------------------------
(* Waiting.  Locks are taken in one order, invitation or token first and   *)
(* tenant last, and whoever holds the tenant is about to commit.           *)
Engaged == holder # NoRequest => at[holder] \in {"charging", "issuing"}

LEMMA EngagedStep == IInv /\ Engaged /\ [Next]_vars => Engaged'
  <1> SUFFICES ASSUME IInv, Engaged, [Next]_vars PROVE Engaged'
    OBVIOUS
  <1>0. TypeOK /\ NoRequest \notin Requests
    BY QuotaAssumption DEF IInv
  <1>1. CASE UNCHANGED <<holder, at>>
    BY <1>1 DEF Engaged
  <1>2. ASSUME NEW q \in Requests, NEW place, Goto(q, place),
               \/ UNCHANGED holder /\ at[q] \notin {"charging", "issuing"}
               \/ holder' = NoRequest
               \/ holder' = q /\ place \in {"charging", "issuing"}
        PROVE  Engaged'
    BY <1>0, <1>2 DEF Engaged, Goto, TypeOK, QuotaTypeOK
  <1>3. ASSUME NEW q \in Requests, Begin(q) PROVE Engaged'
    BY <1>2, <1>3 DEF Begin, BeginSpend, BeginIssue, BeginOwnToken, BeginRevoke, BeginRedeem, Enter
  <1>4. ASSUME NEW q \in Requests, QuotaStep(q) PROVE Engaged'
    BY <1>2, <1>4 DEF QuotaStep, ChargeLock, ChargeRefused, ChargeCommit, ChargeExhausted,
                      WorkDone, WorkFails, Refund, Answer
  <1>5. ASSUME NEW q \in Requests, AccessStep(q) PROVE Engaged'
    <2>1. CASE IssueLock(q) \/ IssueRefused(q) \/ IssueCommit(q) \/ IssueExceeded(q)
      BY <1>2, <2>1 DEF IssueLock, IssueRefused, IssueCommit, IssueExceeded, Ends, Answer
    <2>2. CASE RedeemLock(q) \/ RedeemRefused(q) \/ RedeemCommit(q)
      BY <1>2, <2>2 DEF RedeemLock, RedeemRefused, RedeemCommit, Ends, Answer
    <2>3. CASE \/ RotateLock(q) \/ RotateRefused(q) \/ RotateCommit(q)
               \/ Logout(q) \/ RevokeRead(q) \/ RevokeCommit(q)
      BY <1>2, <2>3 DEF RotateLock, RotateRefused, RotateCommit, Logout, RevokeRead,
                        RevokeCommit, Ends, Answer
    <2> QED BY <1>5, <2>1, <2>2, <2>3 DEF AccessStep
  <1>6. ASSUME NEW q \in Requests, Crash(q) PROVE Engaged'
    BY <1>0, <1>6 DEF Crash, Ends, Answer, Goto, Engaged, TypeOK, QuotaTypeOK
  <1>7. CASE Environment \/ UNCHANGED vars
    BY <1>1, <1>7 DEF Environment, Expire, Suspend, MonthEnds, vars
  <1> QED BY <1>3, <1>4, <1>5, <1>6, <1>7 DEF Next, Step

LEMMA HolderGoesOn == IInv /\ Engaged => NobodyWaitsInCircle
  <1> SUFFICES ASSUME IInv, Engaged, NEW r \in Requests, at[r] # "idle"
               PROVE  \E q \in Requests : at[q] # "idle" /\ ~Waits(q)
    BY DEF NobodyWaitsInCircle
  <1>1. CASE holder # NoRequest
    <2>1. holder \in Requests /\ at[holder] \in {"charging", "issuing"}
      BY <1>1 DEF Engaged, IInv, TypeOK, QuotaTypeOK
    <2> QED BY <2>1 DEF Waits
  <1>2. ASSUME holder = NoRequest, NEW q \in Requests, at[q] \in {"redeeming", "rotating"}
        PROVE  at[q] # "idle" /\ ~Waits(q)
    BY <1>2 DEF Waits, Free
  <1>3. CASE /\ holder = NoRequest
             /\ \A q \in Requests : at[q] \notin {"redeeming", "rotating"}
    BY <1>3 DEF Waits, Free, InviteLocked, TokenLocked
  <1> QED BY <1>1, <1>2, <1>3

(* As long as a request is in progress, one waits for no lock: the handler *)
(* that holds the tenant goes on to its commit, and when the tenant is     *)
(* free, so does whoever holds an invitation or a token (issue_invitation, *)
(* redeem_invitation, rotate_token, revoke_member, charge, refund).        *)
THEOREM LocksOrdered == Spec => []NobodyWaitsInCircle
  <1>1. Init => Engaged
    BY DEF Init, QuotaInit, Engaged
  <1> QED BY <1>1, EngagedStep, HolderGoesOn, Inductive, PTL DEF Spec

=============================================================================
