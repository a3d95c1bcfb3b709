------------------------ MODULE SaasAccountRefinement ------------------------
(***************************************************************************)
(* SaasAccess implements TenantAccount: whatever requests of one tenant    *)
(* overlap, and wherever they die, every commit is a decision that the     *)
(* account as it then is allows.                                           *)
(***************************************************************************)
EXTENDS SaasAccessProofs

(* A step of the account, or one that does not show in it. *)
AccountVars == <<lifecycle, invite, member, SignedIn, used>>

AccountStep == Account!Next \/ UNCHANGED AccountVars

-----------------------------------------------------------------------------
(* Nobody is about to remove the owner (revoke_member: 403). *)
OwnerStays == \A q \in Requests : at[q] \in {"revoke", "revoking"} => inv[q] # Owner

LEMMA OwnerStaysStep == IInv /\ OwnerStays /\ [Next]_vars => OwnerStays'
  <1> SUFFICES ASSUME IInv, OwnerStays, [Next]_vars PROVE OwnerStays'
    OBVIOUS
  <1>0. TypeOK
    BY DEF IInv
  <1>1. ASSUME NEW q \in Requests, Acts(q) PROVE OwnerStays'
    <2>1. OthersWait(q)
      BY <1>0, <1>1, OnlyOneActs
    <2>2. at'[q] \in {"revoke", "revoking"} => inv'[q] # Owner
      <3>1. CASE Begin(q)
        BY <1>0, <3>1 DEF Begin, BeginSpend, BeginIssue, BeginOwnToken, BeginRevoke,
                          BeginRedeem, Enter, Goto, TypeOK
      <3>2. CASE QuotaStep(q)
        BY <1>0, <3>2 DEF QuotaStep, ChargeLock, ChargeRefused, ChargeCommit, ChargeExhausted,
                          WorkDone, WorkFails, Refund, Answer, Goto, TypeOK
      <3>3. CASE Ends(q)
        BY <1>0, <3>3 DEF Ends, Answer, Goto, TypeOK
      <3>4. CASE IssueLock(q) \/ RedeemLock(q) \/ RotateLock(q)
        BY <1>0, <3>4 DEF IssueLock, RedeemLock, RotateLock, Goto, TypeOK
      <3>5. CASE RevokeRead(q)
        BY <3>5 DEF RevokeRead, OwnerStays
      <3> QED
        BY <1>1, <3>1, <3>2, <3>3, <3>4, <3>5
        DEF Acts, Crash, AccessStep, IssueRefused, IssueCommit, IssueExceeded, RedeemRefused,
            RedeemCommit, RotateRefused, RotateCommit, Logout, RevokeCommit
    <2> QED BY <2>1, <2>2 DEF OwnerStays, OthersWait
  <1>2. CASE UNCHANGED <<at, inv>>
    BY <1>2 DEF OwnerStays
  <1> QED BY <1>1, <1>2 DEF Next, Step, Acts, Environment, Expire, Suspend, MonthEnds, vars

-----------------------------------------------------------------------------
(* Who is signed in *)

LEMMA SameSignedIn ==
  ASSUME UNCHANGED <<member, bearer, live>>
  PROVE  SignedIn' = SignedIn
  BY DEF SignedIn, ActiveMembers

(* The member an invitation is redeemed for is let in, and nobody else. *)
LEMMA RedeemSignsIn ==
  ASSUME IInv, NEW q \in Requests, RedeemCommit(q)
  PROVE  SignedIn' = SignedIn \cup {inv[q]}
  <1>1. /\ lastToken + 1 \in Tokens /\ inv[q] \in Invites /\ Mint(inv[q])
        /\ live' = live \cup {lastToken + 1}
        /\ member' = [member EXCEPT ![inv[q]] = "active"]
    BY RoomForToken DEF RedeemCommit, IInv, TypeOK
  <1>2. /\ bearer'[lastToken + 1] = inv[q]
        /\ \A t \in live : bearer'[t] = bearer[t]
    BY <1>1, MintsNew
  <1>3. /\ member'[inv[q]] = "active"
        /\ \A i \in Invites \ {inv[q]} : member'[i] = member[i]
    BY <1>1 DEF IInv, TypeOK
  <1>4. ASSUME NEW i \in Invites
        PROVE  i \in SignedIn' <=> i \in SignedIn \/ i = inv[q]
    BY <1>1, <1>2, <1>3, <1>4 DEF SignedIn, ActiveMembers
  <1> QED BY <1>1, <1>4 DEF SignedIn, ActiveMembers

(* A rotation hands the token on: it lets nobody in who was out. *)
LEMMA RotateKeeps ==
  ASSUME IInv, NEW q \in Requests, RotateCommit(q)
  PROVE  SignedIn' = SignedIn
  <1>1. /\ lastToken + 1 \in Tokens /\ tok[q] \in live /\ Mint(bearer[tok[q]])
        /\ live' = (live \ {tok[q]}) \cup {lastToken + 1}
        /\ member' = member
    BY RoomForToken DEF RotateCommit, IInv, RowsHeld, memberVars
  <1>2. bearer[tok[q]] \in Invites
    BY <1>1, LiveIsUsed
  <1>3. /\ bearer'[lastToken + 1] = bearer[tok[q]]
        /\ \A t \in live : bearer'[t] = bearer[t]
    BY <1>1, <1>2, MintsNew
  <1>4. ASSUME NEW i \in Invites
        PROVE  (\E t \in live' : bearer'[t] = i) <=> (\E t \in live : bearer[t] = i)
    BY <1>1, <1>3
  <1> QED BY <1>1, <1>4 DEF SignedIn, ActiveMembers

(* The bearer of a token that is given up is out, having no other. *)
LEMMA LogoutSignsOut ==
  ASSUME IInv, NEW q \in Requests, Logout(q)
  PROVE  \/ SignedIn' = SignedIn
         \/ \E i \in SignedIn : SignedIn' = SignedIn \ {i}
  <1>1. live' = live \ {tok[q]} /\ bearer' = bearer /\ member' = member
    BY DEF Logout, memberVars
  <1>2. CASE tok[q] \notin live
    BY <1>1, <1>2, SameSignedIn
  <1>3. CASE tok[q] \in live
    <2> DEFINE i == bearer[tok[q]]
    <2>1. \A t \in live : bearer[t] = i => t = tok[q]
      BY <1>3 DEF IInv, OneLiveToken
    <2>2. SignedIn' = SignedIn \ {i}
      BY <1>1, <1>3, <2>1 DEF SignedIn, ActiveMembers
    <2> QED BY <2>2
  <1> QED BY <1>2, <1>3

(* Whoever is removed is out, whatever token a rotation has given him since *)
(* his tokens were read.                                                    *)
LEMMA RevokeSignsOut ==
  ASSUME IInv, NEW q \in Requests, RevokeCommit(q)
  PROVE  SignedIn' = SignedIn \ {inv[q]}
  <1>1. /\ inv[q] \in Invites /\ member' = [member EXCEPT ![inv[q]] = "revoked"]
        /\ live' = live \ TokensRead(q) /\ bearer' = bearer
    BY DEF RevokeCommit, IInv, TypeOK
  <1>2. /\ member'[inv[q]] = "revoked"
        /\ \A i \in Invites \ {inv[q]} : member'[i] = member[i]
    BY <1>1 DEF IInv, TypeOK
  <1>3. \A t \in TokensRead(q) : bearer[t] = inv[q]
    BY DEF TokensRead
  <1> QED BY <1>1, <1>2, <1>3 DEF SignedIn, ActiveMembers

-----------------------------------------------------------------------------
(* The steps *)

LEMMA LifecycleKept ==
  ASSUME NEW q \in Requests, Acts(q)
  PROVE  lifecycle' = lifecycle
  BY DEF Acts, Begin, BeginSpend, BeginIssue, BeginOwnToken, BeginRevoke, BeginRedeem, Enter,
         quotaVars, QuotaStep, ChargeLock, ChargeRefused, ChargeCommit, ChargeExhausted,
         WorkDone, WorkFails, Refund, AccessStep, IssueLock, IssueRefused, IssueCommit,
         IssueExceeded, RedeemLock, RedeemRefused, RedeemCommit, RotateLock, RotateRefused,
         RotateCommit, Logout, RevokeRead, RevokeCommit, Crash

(* A step that leaves members and tokens alone counts a unit, gives one    *)
(* back, or does not show.                                                 *)
LEMMA AsideStep ==
  ASSUME IInv, Serving, NEW q \in Requests, Acts(q), Aside
  PROVE  AccountStep
  <1>0. used \in [Months -> 0..Limit] /\ month \in Months /\ mon[q] \in Months
    BY DEF IInv, TypeOK, QuotaTypeOK
  <1>1. UNCHANGED <<lifecycle, invite, member, SignedIn>>
    BY SameSignedIn, LifecycleKept DEF Aside, memberVars, tokenVars
  <1>2. CASE used' = used
    BY <1>1, <1>2 DEF AccountStep, AccountVars
  <1>3. CASE ChargeCommit(q)
    <2>1. /\ lifecycle = "active" /\ used[mon[q]] < Limit
          /\ used' = [used EXCEPT ![mon[q]] = used[mon[q]] + 1]
      BY <1>3 DEF ChargeCommit, IInv, CountsHeld, Serving
    <2>2. Account!Charge(mon[q])
      BY <1>1, <2>1 DEF Account!Charge
    <2> QED BY <1>0, <2>2 DEF AccountStep, Account!Next
  <1>4. CASE Refund(q)
    <2>1. \/ used' = used
          \/ used[month] > 0 /\ used' = [used EXCEPT ![month] = used[month] - 1]
      BY <1>4 DEF Refund
    <2>2. used' = used \/ Account!GiveBack(month)
      BY <1>1, <2>1 DEF Account!GiveBack
    <2> QED BY <1>0, <1>2, <2>2 DEF AccountStep, Account!Next
  <1> QED BY <1>2, <1>3, <1>4, Bystander DEF IInv, WorkDone, Crash

(* The account counts like the program. *)
LEMMA SameCardinality == \A S : Account!Cardinality(S) = Cardinality(S)
  BY DEF Account!Cardinality, Cardinality, Account!IsFiniteSet, IsFiniteSet

LEMMA IssueStep ==
  ASSUME IInv, Serving, NEW q \in Requests, IssueCommit(q)
  PROVE  AccountStep
  <1>1. PICK i \in Invites : /\ invite[i] = "none"
                             /\ invite' = [invite EXCEPT ![i] = "pending"]
    BY DEF IssueCommit
  <1>2. /\ at[q] = "issuing" /\ SeatFree(q)
        /\ UNCHANGED <<lifecycle, used, member, bearer, live>>
    BY DEF IssueCommit, quotaVars, tokenVars
  <1>3. lifecycle = "active" /\ Cardinality(ActiveMembers) + Cardinality(PendingInvites) < Seats
    BY <1>2 DEF IInv, CountsHeld, SeatFree, Serving
  <1>4. SignedIn' = SignedIn
    BY <1>2, SameSignedIn
  <1>5. Account!Invite(i)
    BY <1>1, <1>2, <1>3, <1>4, SameCardinality
    DEF Account!Invite, Account!Members, Account!Open, ActiveMembers, PendingInvites
  <1> QED BY <1>5 DEF AccountStep, Account!Next

LEMMA RedeemStep ==
  ASSUME IInv, NEW q \in Requests, RedeemCommit(q)
  PROVE  AccountStep
  <1>1. /\ inv[q] \in Invites /\ at[q] = "redeeming"
        /\ invite' = [invite EXCEPT ![inv[q]] = "consumed"]
        /\ member' = [member EXCEPT ![inv[q]] = "active"]
        /\ UNCHANGED <<lifecycle, used>>
    BY DEF RedeemCommit, IInv, TypeOK, quotaVars
  <1>2. invite[inv[q]] \in {"pending", "expired"} /\ member[inv[q]] = "none"
    BY <1>1 DEF IInv, RowsHeld, Unused
  <1>3. Account!Redeem(inv[q])
    BY <1>1, <1>2, RedeemSignsIn DEF Account!Redeem
  <1> QED BY <1>1, <1>3 DEF AccountStep, Account!Next

LEMMA LogoutStep ==
  ASSUME IInv, NEW q \in Requests, Logout(q)
  PROVE  AccountStep
  <1>1. UNCHANGED <<lifecycle, invite, member, used>>
    BY DEF Logout, quotaVars, memberVars
  <1>2. CASE SignedIn' = SignedIn
    BY <1>1, <1>2 DEF AccountStep, AccountVars
  <1>3. ASSUME NEW i \in SignedIn, SignedIn' = SignedIn \ {i} PROVE AccountStep
    <2>1. i \in Invites /\ Account!LogOut(i)
      BY <1>1, <1>3 DEF Account!LogOut, SignedIn, ActiveMembers
    <2> QED BY <2>1 DEF AccountStep, Account!Next
  <1> QED BY <1>2, <1>3, LogoutSignsOut

(* Removing a member who has been removed already does not show. *)
LEMMA RevokeStep ==
  ASSUME IInv, OwnerStays, NEW q \in Requests, RevokeCommit(q)
  PROVE  AccountStep
  <1>1. /\ inv[q] \in Invites /\ at[q] = "revoking"
        /\ member' = [member EXCEPT ![inv[q]] = "revoked"]
        /\ UNCHANGED <<lifecycle, invite, used>>
    BY DEF RevokeCommit, IInv, TypeOK, quotaVars
  <1>2. inv[q] # Owner /\ member[inv[q]] \in {"active", "revoked"}
    BY <1>1 DEF OwnerStays, IInv, RowsHeld, TypeOK
  <1>3. SignedIn' = SignedIn \ {inv[q]}
    BY RevokeSignsOut
  <1>4. CASE member[inv[q]] = "active"
    <2>1. Account!Remove(inv[q])
      BY <1>1, <1>2, <1>3, <1>4 DEF Account!Remove
    <2> QED BY <1>1, <2>1 DEF AccountStep, Account!Next
  <1>5. CASE member[inv[q]] = "revoked"
    <2>1. member' = member
      BY <1>1, <1>5 DEF IInv, TypeOK
    <2>2. SignedIn' = SignedIn
      BY <1>3, <1>5 DEF SignedIn, ActiveMembers
    <2> QED BY <1>1, <2>1, <2>2 DEF AccountStep, AccountVars
  <1> QED BY <1>2, <1>4, <1>5

LEMMA AccountMapped ==
  ASSUME IInv, Serving, OwnerStays, [Next]_vars
  PROVE  AccountStep
  <1>1. ASSUME NEW q \in Requests, Acts(q) PROVE AccountStep
    <2>1. CASE RotateCommit(q)
      BY <2>1, RotateKeeps DEF RotateCommit, quotaVars, memberVars, AccountStep, AccountVars
    <2> QED BY <1>1, <2>1, Writers, AsideStep, IssueStep, RedeemStep, LogoutStep, RevokeStep
  <1>2. ASSUME NEW i \in Invites, Expire(i) PROVE AccountStep
    <2>1. UNCHANGED <<lifecycle, member, used>> /\ SignedIn' = SignedIn
      BY <1>2, SameSignedIn DEF Expire, quotaVars, tokenVars
    <2>2. Account!Expire(i)
      BY <1>2, <2>1 DEF Expire, Account!Expire
    <2> QED BY <2>2 DEF AccountStep, Account!Next
  <1>3. CASE Suspend /\ UNCHANGED <<memberVars, tokenVars>>
    <2>1. Account!Suspend
      BY <1>3, SameSignedIn DEF Suspend, Account!Suspend, memberVars, tokenVars
    <2> QED BY <2>1 DEF AccountStep, Account!Next
  <1>4. CASE UNCHANGED <<lifecycle, used, memberVars, tokenVars>>
    BY <1>4, SameSignedIn DEF AccountStep, AccountVars, memberVars, tokenVars
  <1> QED BY <1>1, <1>2, <1>3, <1>4
          DEF Next, Step, Acts, Environment, MonthEnds, vars, quotaVars

(* The requests of a tenant, which lock, read and commit in any order and  *)
(* die anywhere, implement its account (service.py, router.py): what each  *)
(* commits is allowed by the account as it then is.  In particular no seat *)
(* is given away on counts that no longer hold, no invitation is redeemed  *)
(* twice, no unit is counted for a suspended tenant, the owner is never    *)
(* removed, and nobody who logged out or was removed is let in again by a  *)
(* rotation of his token.                                                  *)
THEOREM AccountImplemented == Spec => ImplementsAccount
  <1>1. Init => Account!Init /\ Serving /\ OwnerStays
    <2> SUFFICES ASSUME Init PROVE Account!Init /\ Serving /\ OwnerStays
      OBVIOUS
    <2>1. SignedIn = {}
      BY DEF Init, SignedIn
    <2> QED BY <2>1 DEF Init, QuotaInit, Account!Init, Serving, OwnerStays
  <1>2. IInv /\ Serving /\ OwnerStays /\ [Next]_vars => [Account!Next]_(Account!vars)
    BY AccountMapped DEF AccountStep, AccountVars, Account!vars
  <1> QED BY <1>1, <1>2, ServingStep, OwnerStaysStep, Inductive, PTL
          DEF Spec, ImplementsAccount, Account!Spec

=============================================================================
