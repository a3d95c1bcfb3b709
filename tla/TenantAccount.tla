---------------------------- MODULE TenantAccount ----------------------------
(***************************************************************************)
(* What the account of a tenant promises, without requests, locks or       *)
(* tokens: every step is one decision, taken on the account as it is.      *)
(* An invitation is issued only while the tenant is active and a seat is   *)
(* free, and is redeemed once; a member is signed in by redeeming, and by  *)
(* nothing else, until he logs out or is removed; a unit is counted only   *)
(* while the tenant is active and below the quota.                         *)
(***************************************************************************)
EXTENDS FiniteSets, Integers

CONSTANTS
  Invites,  \* invitations, each named like the member it becomes
  Owner,    \* the one that the tenant begins with
  Seats,    \* members and open invitations of the plan
  Months,   \* calendar months
  Limit     \* units of a month

VARIABLES
  lifecycle,  \* whether the tenant is active
  invite,     \* what has become of each invitation
  member,     \* what has become of each member
  signedIn,   \* the members that the tenant lets in with a token
  used        \* units counted for each month

vars == <<lifecycle, invite, member, signedIn, used>>

Init == /\ lifecycle = "active"
        /\ invite = [i \in Invites |-> IF i = Owner THEN "pending" ELSE "none"]
        /\ member = [i \in Invites |-> "none"]
        /\ signedIn = {}
        /\ used = [m \in Months |-> 0]

Members == {i \in Invites : member[i] = "active"}

Open == {i \in Invites : invite[i] = "pending"}

Invite(i) == /\ lifecycle = "active" /\ invite[i] = "none"
             /\ Cardinality(Members) + Cardinality(Open) < Seats
             /\ invite' = [invite EXCEPT ![i] = "pending"]
             /\ UNCHANGED <<lifecycle, member, signedIn, used>>

Expire(i) == /\ invite[i] = "pending"
             /\ invite' = [invite EXCEPT ![i] = "expired"]
             /\ UNCHANGED <<lifecycle, member, signedIn, used>>

\* An invitation may expire in the moment it is redeemed.
Redeem(i) == /\ invite[i] \in {"pending", "expired"} /\ member[i] = "none"
             /\ invite' = [invite EXCEPT ![i] = "consumed"]
             /\ member' = [member EXCEPT ![i] = "active"]
             /\ signedIn' = signedIn \cup {i}
             /\ UNCHANGED <<lifecycle, used>>

LogOut(i) == /\ i \in signedIn
             /\ signedIn' = signedIn \ {i}
             /\ UNCHANGED <<lifecycle, invite, member, used>>

Remove(i) == /\ i # Owner /\ member[i] = "active"
             /\ member' = [member EXCEPT ![i] = "revoked"]
             /\ signedIn' = signedIn \ {i}
             /\ UNCHANGED <<lifecycle, invite, used>>

Charge(m) == /\ lifecycle = "active" /\ used[m] < Limit
             /\ used' = [used EXCEPT ![m] = @ + 1]
             /\ UNCHANGED <<lifecycle, invite, member, signedIn>>

GiveBack(m) == /\ used[m] > 0
               /\ used' = [used EXCEPT ![m] = @ - 1]
               /\ UNCHANGED <<lifecycle, invite, member, signedIn>>

Suspend == /\ lifecycle = "active" /\ lifecycle' = "suspended"
           /\ UNCHANGED <<invite, member, signedIn, used>>

Next == \/ \E i \in Invites : Invite(i) \/ Expire(i) \/ Redeem(i) \/ LogOut(i) \/ Remove(i)
        \/ \E m \in Months : Charge(m) \/ GiveBack(m)
        \/ Suspend

Spec == Init /\ [][Next]_vars
=============================================================================
