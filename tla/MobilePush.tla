----------------------------- MODULE MobilePush -----------------------------
(***************************************************************************)
(* Dispatch of push notifications to the manager's devices                 *)
(* (src/src/modules/mobile_api/push.py).  One dispatch sends a notice to   *)
(* every enabled device in turn and records what happened in one commit at *)
(* its end: the rows are in the open transaction until then, the           *)
(* notifications are not.                                                  *)
(*                                                                         *)
(* A delivery row that is not SENT makes no difference to the next         *)
(* dispatch, which tries it again, so only the SENT rows are kept.         *)
(***************************************************************************)
EXTENDS FiniteSets, Integers

CONSTANTS
  Devices,   \* rows of mobile_device_registrations
  Notices    \* what a delivery key identifies besides the device

VARIABLES
  enabled,   \* the devices with is_enabled and a token
  sent,      \* <<notice, device>> of the committed delivery rows with SENT
  accepted,  \* history: how often APNs took <<notice, device>>
  dispatch   \* the open dispatch

pushVars == <<enabled, sent, accepted, dispatch>>

Deliveries == Notices \X Devices

\* A dispatch: the devices it has still to serve, and what its transaction
\* holds, the devices served and those whose token APNs refused.
Dispatch == [notice: Notices, todo: SUBSET Devices,
             served: SUBSET Devices, refused: SUBSET Devices]

NoDispatch == [todo |-> {}]

Dispatching == dispatch # NoDispatch

PushTypeOK == /\ enabled \subseteq Devices
              /\ sent \subseteq Deliveries
              /\ accepted \in [Deliveries -> Nat]
              /\ dispatch \in Dispatch \cup {NoDispatch}

PushInit == /\ enabled = {}
            /\ sent = {}
            /\ accepted = [x \in Deliveries |-> 0]
            /\ dispatch = NoDispatch

-----------------------------------------------------------------------------
(* Registration *)

RegisterDevice(d) == /\ d \notin enabled
                     /\ enabled' = enabled \cup {d}
                     /\ UNCHANGED <<sent, accepted, dispatch>>

RevokeDevice(d) == /\ d \in enabled
                   /\ enabled' = enabled \ {d}
                   /\ UNCHANGED <<sent, accepted, dispatch>>

-----------------------------------------------------------------------------
(* One dispatch *)

\* The devices are read once; those with a SENT row are passed over.
Addressed(n) == {d \in enabled : <<n, d>> \notin sent}

BeginDispatch(n) ==
  /\ ~Dispatching
  /\ dispatch' = [notice |-> n, todo |-> Addressed(n), served |-> {}, refused |-> {}]
  /\ UNCHANGED <<enabled, sent, accepted>>

Accepted(d) == [accepted EXCEPT ![<<dispatch.notice, d>>] = @ + 1]

SendOk(d) ==
  /\ Dispatching /\ d \in dispatch.todo
  /\ accepted' = Accepted(d)
  /\ dispatch' = [dispatch EXCEPT !.todo = @ \ {d}, !.served = @ \cup {d}]
  /\ UNCHANGED <<enabled, sent>>

\* APNs is not configured or answers with another error.
SendFails(d) ==
  /\ Dispatching /\ d \in dispatch.todo
  /\ dispatch' = [dispatch EXCEPT !.todo = @ \ {d}]
  /\ UNCHANGED <<enabled, sent, accepted>>

\* 410, BadDeviceToken or Unregistered: the registration is switched off.
SendRefused(d) ==
  /\ Dispatching /\ d \in dispatch.todo
  /\ dispatch' = [dispatch EXCEPT !.todo = @ \ {d}, !.refused = @ \cup {d}]
  /\ UNCHANGED <<enabled, sent, accepted>>

\* APNs takes the notification and its answer is lost: recorded as FAILED.
SendLost(d) ==
  /\ Dispatching /\ d \in dispatch.todo
  /\ accepted' = Accepted(d)
  /\ dispatch' = [dispatch EXCEPT !.todo = @ \ {d}]
  /\ UNCHANGED <<enabled, sent>>

(* Variant: nothing is recorded of the devices served. *)
CommitNothing ==
  /\ Dispatching /\ dispatch.todo = {}
  /\ enabled' = enabled \ dispatch.refused
  /\ dispatch' = NoDispatch
  /\ UNCHANGED <<sent, accepted>>

CommitDispatch ==
  /\ Dispatching /\ dispatch.todo = {}
  /\ enabled' = enabled \ dispatch.refused
  /\ sent' = sent \cup ({dispatch.notice} \X dispatch.served)
  /\ dispatch' = NoDispatch
  /\ UNCHANGED accepted

\* The transaction is rolled back, or its process dies.
AbortDispatch == /\ Dispatching
                 /\ dispatch' = NoDispatch
                 /\ UNCHANGED <<enabled, sent, accepted>>
=============================================================================
