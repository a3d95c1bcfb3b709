---------------------------- MODULE MCSaasAccess ----------------------------
(* Symmetry of the instance that TLC checks. *)
EXTENDS SaasAccess, TLC

Symmetry == Permutations(Requests) \cup Permutations(Invites \ {Owner})
=============================================================================
