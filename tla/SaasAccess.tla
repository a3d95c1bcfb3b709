----------------------------- MODULE SaasAccess -----------------------------
(***************************************************************************)
(* Members, invitations and access tokens of one tenant                    *)
(* (src/src/modules/saas_foundation/service.py and router.py), together    *)
(* with the quota its members spend.  A member is named by the invitation  *)
(* it comes from.                                                          *)
(*                                                                         *)
(* Roles and the acknowledgement of the terms are left out: every member   *)
(* may do what some member may.                                            *)
(***************************************************************************)
EXTENDS SaasQuota

CONSTANTS
  Invites,    \* invitations of the tenant
  Owner,      \* the one that create_tenant issues
  Seats,      \* PACKAGES[plan_code]["seats"]
  MaxTokens,  \* bound: tokens ever minted
  MaxFaults   \* bound: requests that die

ASSUME AccessAssumption ==
  /\ IsFiniteSet(Invites) /\ Owner \in Invites
  /\ Seats \in Nat \ {0} /\ MaxTokens \in Nat /\ MaxFaults \in Nat

Tokens == 1..MaxTokens

VARIABLES
  invite,       \* an invitation: "none", "pending", "expired" or "consumed"
  member,       \* its member: "none", "active" or "revoked"
  redemptions,  \* history: members an invitation was redeemed for
  overdue,      \* history: invitations that expired while they were redeemed
  bearer,       \* the member a token was minted for
  live,         \* the tokens that are not revoked
  lastToken,    \* tokens minted
  inv,          \* invitation, or member, that a request is about, else Owner
  tok,          \* token that a request replaces or gives up, 0 for others
  faults        \* requests that have died

memberVars == <<invite, member, redemptions, overdue>>
tokenVars == <<bearer, live, lastToken>>
vars == <<quotaVars, holder, at, mon, seen, memberVars, tokenVars, inv, tok, faults>>

Places == {"idle", "charge", "charging", "work", "refund", "issue", "issuing", "redeem",
           "redeeming", "rotate", "rotating", "logout", "revoke", "revoking"}

TypeOK == /\ QuotaTypeOK
          /\ at \in [Requests -> Places]
          /\ invite \in [Invites -> {"none", "pending", "expired", "consumed"}]
          /\ member \in [Invites -> {"none", "active", "revoked"}]
          /\ redemptions \in [Invites -> Nat]
          /\ overdue \subseteq Invites
          /\ bearer \in [Tokens -> Invites]
          /\ live \subseteq 1..lastToken
          /\ lastToken \in 0..MaxTokens
          /\ inv \in [Requests -> Invites]
          /\ tok \in [Requests -> 0..MaxTokens]
          /\ faults \in 0..MaxFaults

Init == /\ QuotaInit
        /\ at = [q \in Requests |-> "idle"]
        /\ invite = [i \in Invites |-> IF i = Owner THEN "pending" ELSE "none"]
        /\ member = [i \in Invites |-> "none"]
        /\ redemptions = [i \in Invites |-> 0] /\ overdue = {}
        /\ bearer = [t \in Tokens |-> Owner] /\ live = {} /\ lastToken = 0
        /\ inv = [q \in Requests |-> Owner] /\ tok = [q \in Requests |-> 0]
        /\ faults = 0

-----------------------------------------------------------------------------
(* Authentication *)

\* require_tenant.
Authentic(t) == /\ t \in live
                /\ member[bearer[t]] = "active"
                /\ lifecycle = "active"

Ends(q) == /\ Answer(q)
           /\ inv' = [inv EXCEPT ![q] = Owner] /\ tok' = [tok EXCEPT ![q] = 0]

Minting == {q \in Requests : at[q] \in {"redeem", "redeeming", "rotate", "rotating"}}

\* The bound on tokens.
MayMint == lastToken + Cardinality(Minting) < MaxTokens

Enter(q, t, place) == /\ at[q] = "idle" /\ Authentic(t)
                      /\ Goto(q, place)
                      /\ UNCHANGED <<quotaVars, holder, mon, seen, memberVars, tokenVars, faults>>

\* A request that spends a unit, and one that invites.
BeginSpend(q, t) == Enter(q, t, "charge") /\ UNCHANGED <<inv, tok>>

BeginIssue(q, t) == Enter(q, t, "issue") /\ UNCHANGED <<inv, tok>>

BeginOwnToken(q, t) == /\ \/ Enter(q, t, "rotate") /\ MayMint
                          \/ Enter(q, t, "logout")
                       /\ tok' = [tok EXCEPT ![q] = t]
                       /\ UNCHANGED inv

\* The owner and oneself are refused.
BeginRevoke(q, t, i) == /\ i \notin {Owner, bearer[t]} /\ member[i] # "none"
                        /\ Enter(q, t, "revoke")
                        /\ inv' = [inv EXCEPT ![q] = i]
                        /\ UNCHANGED tok

\* Whoever has the code may redeem it.
BeginRedeem(q, i) == /\ at[q] = "idle" /\ invite[i] # "none" /\ MayMint
                     /\ Goto(q, "redeem")
                     /\ inv' = [inv EXCEPT ![q] = i]
                     /\ UNCHANGED <<quotaVars, holder, mon, seen, memberVars, tokenVars, tok, faults>>

-----------------------------------------------------------------------------
(* issue_invitation *)

ActiveMembers == {i \in Invites : member[i] = "active"}

PendingInvites == {i \in Invites : invite[i] = "pending"}

\* The tenant is locked and checked, its active members are counted.
IssueLock(q) ==
  /\ at[q] = "issue" /\ Free /\ lifecycle = "active"
  /\ Goto(q, "issuing") /\ holder' = q
  /\ seen' = [seen EXCEPT ![q] = Cardinality(ActiveMembers)]
  /\ UNCHANGED <<quotaVars, mon, memberVars, tokenVars, inv, tok, faults>>

IssueRefused(q) ==
  /\ at[q] = "issue" /\ Free /\ lifecycle # "active"
  /\ Ends(q)
  /\ UNCHANGED <<quotaVars, holder, memberVars, tokenVars, faults>>

\* The pending invitations are counted by a second statement.
SeatFree(q) == seen[q] + Cardinality(PendingInvites) < Seats

(* Variant: the pending invitations are locked as they are counted. *)
IssueCommitLocking(q) == \E i \in Invites :
  /\ at[q] = "issuing" /\ SeatFree(q) /\ invite[i] = "none"
  /\ \A j \in Invites : ~\E p \in Requests : at[p] = "redeeming" /\ inv[p] = j
  /\ Ends(q) /\ holder' = NoRequest
  /\ invite' = [invite EXCEPT ![i] = "pending"]
  /\ UNCHANGED <<quotaVars, member, redemptions, overdue, tokenVars, faults>>

IssueCommit(q) == \E i \in Invites :
  /\ at[q] = "issuing" /\ SeatFree(q) /\ invite[i] = "none"
  /\ Ends(q) /\ holder' = NoRequest
  /\ invite' = [invite EXCEPT ![i] = "pending"]
  /\ UNCHANGED <<quotaVars, member, redemptions, overdue, tokenVars, faults>>

(* Variant: the 429 is answered before the transaction ends. *)
IssueExceededHolding(q) ==
  /\ at[q] = "issuing"
  /\ ~SeatFree(q) \/ \A i \in Invites : invite[i] # "none"
  /\ Ends(q)
  /\ UNCHANGED <<quotaVars, holder, memberVars, tokenVars, faults>>

\* 429, or the bound on invitations is reached.
IssueExceeded(q) ==
  /\ at[q] = "issuing"
  /\ ~SeatFree(q) \/ \A i \in Invites : invite[i] # "none"
  /\ Ends(q) /\ holder' = NoRequest
  /\ UNCHANGED <<quotaVars, memberVars, tokenVars, faults>>

-----------------------------------------------------------------------------
(* redeem_invitation *)

InviteLocked(i) == \E p \in Requests : at[p] = "redeeming" /\ inv[p] = i

Redeemable(i) == invite[i] = "pending" /\ lifecycle = "active"

(* Variant: the invitation is read without FOR UPDATE. *)
RedeemLockFree(q) ==
  /\ at[q] = "redeem" /\ Redeemable(inv[q])
  /\ Goto(q, "redeeming")
  /\ UNCHANGED <<quotaVars, holder, mon, seen, memberVars, tokenVars, inv, tok, faults>>

\* The invitation is locked and checked.
RedeemLock(q) ==
  /\ at[q] = "redeem" /\ ~InviteLocked(inv[q]) /\ Redeemable(inv[q])
  /\ Goto(q, "redeeming")
  /\ UNCHANGED <<quotaVars, holder, mon, seen, memberVars, tokenVars, inv, tok, faults>>

\* 410, 403.
RedeemRefused(q) ==
  /\ at[q] = "redeem" /\ ~InviteLocked(inv[q]) /\ ~Redeemable(inv[q])
  /\ Ends(q)
  /\ UNCHANGED <<quotaVars, holder, memberVars, tokenVars, faults>>

Mint(m) == /\ lastToken' = lastToken + 1
           /\ bearer' = [bearer EXCEPT ![lastToken + 1] = m]

(* Variant: saas_members has no foreign key. *)
RedeemCommitNoForeignKey(q) == LET i == inv[q] IN
  /\ at[q] = "redeeming"
  /\ Ends(q)
  /\ overdue' = IF invite[i] = "expired" THEN overdue \cup {i} ELSE overdue
  /\ invite' = [invite EXCEPT ![i] = "consumed"]
  /\ member' = [member EXCEPT ![i] = "active"]
  /\ redemptions' = [redemptions EXCEPT ![i] = @ + 1]
  /\ Mint(i) /\ live' = live \cup {lastToken + 1}
  /\ UNCHANGED <<quotaVars, holder, faults>>

\* The member row is inserted, which waits for the lock of the tenant.
RedeemCommit(q) == LET i == inv[q] IN
  /\ at[q] = "redeeming" /\ Free
  /\ Ends(q)
  /\ overdue' = IF invite[i] = "expired" THEN overdue \cup {i} ELSE overdue
  /\ invite' = [invite EXCEPT ![i] = "consumed"]
  /\ member' = [member EXCEPT ![i] = "active"]
  /\ redemptions' = [redemptions EXCEPT ![i] = @ + 1]
  /\ Mint(i) /\ live' = live \cup {lastToken + 1}
  /\ UNCHANGED <<quotaVars, holder, faults>>

-----------------------------------------------------------------------------
(* rotate_token, logout, revoke_member *)

TokenLocked(t) == \E p \in Requests : at[p] = "rotating" /\ tok[p] = t

(* Variant: the token is read without FOR UPDATE. *)
RotateLockFree(q) ==
  /\ at[q] = "rotate" /\ tok[q] \in live
  /\ Goto(q, "rotating")
  /\ UNCHANGED <<quotaVars, holder, mon, seen, memberVars, tokenVars, inv, tok, faults>>

\* The token is locked and checked again.
RotateLock(q) ==
  /\ at[q] = "rotate" /\ ~TokenLocked(tok[q]) /\ tok[q] \in live
  /\ Goto(q, "rotating")
  /\ UNCHANGED <<quotaVars, holder, mon, seen, memberVars, tokenVars, inv, tok, faults>>

RotateRefused(q) ==
  /\ at[q] = "rotate" /\ ~TokenLocked(tok[q]) /\ tok[q] \notin live
  /\ Ends(q)
  /\ UNCHANGED <<quotaVars, holder, memberVars, tokenVars, faults>>

RotateCommit(q) ==
  /\ at[q] = "rotating" /\ Free
  /\ Ends(q)
  /\ Mint(bearer[tok[q]])
  /\ live' = (live \ {tok[q]}) \cup {lastToken + 1}
  /\ UNCHANGED <<quotaVars, holder, memberVars, faults>>

(* Variant: the token is revoked without waiting for its lock. *)
LogoutUnlocked(q) ==
  /\ at[q] = "logout" /\ Free
  /\ Ends(q)
  /\ live' = live \ {tok[q]}
  /\ UNCHANGED <<quotaVars, holder, memberVars, bearer, lastToken, faults>>

Logout(q) ==
  /\ at[q] = "logout" /\ ~TokenLocked(tok[q]) /\ Free
  /\ Ends(q)
  /\ live' = live \ {tok[q]}
  /\ UNCHANGED <<quotaVars, holder, memberVars, bearer, lastToken, faults>>

\* The tokens of the member are read before any of them is written.
RevokeRead(q) ==
  /\ at[q] = "revoke"
  /\ Goto(q, "revoking")
  /\ seen' = [seen EXCEPT ![q] = lastToken]
  /\ UNCHANGED <<quotaVars, mon, holder, memberVars, tokenVars, inv, tok, faults>>

TokensRead(q) == {t \in 1..seen[q] : bearer[t] = inv[q]}

RevokeCommit(q) ==
  /\ at[q] = "revoking" /\ Free /\ \A t \in TokensRead(q) : ~TokenLocked(t)
  /\ Ends(q)
  /\ member' = [member EXCEPT ![inv[q]] = "revoked"]
  /\ live' = live \ TokensRead(q)
  /\ UNCHANGED <<quotaVars, holder, invite, redemptions, overdue, bearer, lastToken, faults>>

-----------------------------------------------------------------------------
(* The system *)

QuotaStep(q) == /\ \/ ChargeLock(q) \/ ChargeRefused(q) \/ ChargeCommit(q) \/ ChargeExhausted(q)
                   \/ WorkDone(q) \/ WorkFails(q) \/ Refund(q)
                /\ UNCHANGED <<memberVars, tokenVars, inv, tok, faults>>

AccessStep(q) ==
  \/ IssueLock(q) \/ IssueRefused(q) \/ IssueCommit(q) \/ IssueExceeded(q)
  \/ RedeemLock(q) \/ RedeemRefused(q) \/ RedeemCommit(q)
  \/ RotateLock(q) \/ RotateRefused(q) \/ RotateCommit(q)
  \/ Logout(q) \/ RevokeRead(q) \/ RevokeCommit(q)

Step(q) == QuotaStep(q) \/ AccessStep(q)

Begin(q) == \/ \E t \in Tokens : \/ BeginSpend(q, t) \/ BeginIssue(q, t) \/ BeginOwnToken(q, t)
                               \/ \E i \in Invites : BeginRevoke(q, t, i)
            \/ \E i \in Invites : BeginRedeem(q, i)

\* Its transaction is rolled back; its locks are free again.
Crash(q) == /\ at[q] # "idle" /\ faults < MaxFaults
            /\ faults' = faults + 1
            /\ Ends(q)
            /\ holder' = IF holder = q THEN NoRequest ELSE holder
            /\ LeakUnit(q)
            /\ UNCHANGED <<lifecycle, month, used, done, wrong,
                           memberVars, tokenVars>>

Expire(i) == /\ invite[i] = "pending"
             /\ invite' = [invite EXCEPT ![i] = "expired"]
             /\ UNCHANGED <<quotaVars, holder, at, mon, seen, member, redemptions, overdue,
                            tokenVars, inv, tok, faults>>

Environment == \/ \E i \in Invites : Expire(i)
               \/ /\ Suspend \/ MonthEnds
                  /\ UNCHANGED <<memberVars, tokenVars, inv, tok, faults>>

Next == (\E q \in Requests : Begin(q) \/ Step(q) \/ Crash(q)) \/ Environment

Spec == Init /\ [][Next]_vars

-----------------------------------------------------------------------------
(* Properties *)

\* The members with a token that require_tenant accepts.
SignedIn == {i \in ActiveMembers : \E t \in live : bearer[t] = i}

Account == INSTANCE TenantAccount WITH signedIn <- SignedIn

\* Requests that lock, read and commit in any order come to the account of
\* TenantAccount: whatever a request read before its commit, the commit is a
\* decision the account as it then is allows, or changes nothing of it; no
\* rotation signs in again who has logged out or was removed (service.py,
\* router.py: FOR UPDATE, then the check again).
ImplementsAccount == Account!Spec

\* Members and open invitations together never take more seats than the plan
\* has, but for members whose invitation expired while it was being redeemed
\* (issue_invitation counts under the lock of the tenant that the INSERT of
\* redeem_invitation waits for).
SeatsKept == Cardinality((ActiveMembers \cup PendingInvites) \ overdue) <= Seats

\* An invitation makes one member, whoever holds its code (redeem_invitation:
\* FOR UPDATE, then consumed_at).
RedeemedOnce == \A i \in Invites : redemptions[i] <= 1

\* A member has one token at a time, however rotations, a logout and a
\* revocation interleave (rotate_token: FOR UPDATE, then revoked_at).
OneLiveToken == \A s, t \in live : bearer[s] = bearer[t] => s = t

InWork(m) == {q \in Requests : at[q] \in {"work", "refund"} /\ mon[q] = m}

\* The units counted for a month are those of work done, those of requests in
\* progress and those a crash or the end of the month kept from being given
\* back, less what refunds of other months took (charge, refund).
UsageAccounted == \A m \in Months :
  used[m] + wrong[m] = done[m] + Cardinality(InWork(m)) + leaked[m]

\* A month does not do more work than its quota, but for units taken from its
\* counter by refunds of an earlier month (charge under the lock; refund uses
\* the period of the refund).
ServedWithinLimit == \A m \in Months : done[m] <= Limit + wrong[m]

\* Nothing is reserved and nobody invited once the tenant is suspended, not
\* even by a request authenticated before (_entitlement, issue_invitation).
SuspendedFrozen == [][lifecycle = "suspended" =>
                        /\ \A m \in Months : used'[m] <= used[m]
                        /\ \A i \in Invites : invite[i] = "none" => invite'[i] = "none"]_vars

\* A request waits for the tenant, an invitation or a token that another holds.
Waits(q) ==
  \/ at[q] \in {"charge", "refund", "issue", "redeeming", "rotating", "logout", "revoking"} /\ ~Free
  \/ at[q] = "redeem" /\ InviteLocked(inv[q])
  \/ at[q] \in {"rotate", "logout"} /\ TokenLocked(tok[q])
  \/ at[q] = "revoking" /\ \E t \in TokensRead(q) : TokenLocked(t)

\* As long as a request is in progress, one waits for nobody: the locks of
\* tenant, invitation and token are never waited for in a circle, nor kept by
\* a request that has been answered.
NobodyWaitsInCircle == (\E q \in Requests : at[q] # "idle") =>
                         \E q \in Requests : at[q] # "idle" /\ ~Waits(q)

\* Only a lock stops a request: one that waits for none has a step to take,
\* whatever the rows it decides on have become (service.py, router.py: every
\* check has its refusal).
OnlyLocksStop == \A q \in Requests : at[q] # "idle" /\ ~Waits(q) => ENABLED Step(q)
=============================================================================
