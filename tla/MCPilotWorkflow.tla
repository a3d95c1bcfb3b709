--------------------------- MODULE MCPilotWorkflow ---------------------------
(***************************************************************************)
(* PilotWorkflow for TLC.  Keys, escalations and requests are only compared *)
(* for equality, so each of the three sets may be permuted in safety runs. *)
(***************************************************************************)
EXTENDS PilotWorkflow, TLC

Symmetry == Permutations(Keys) \cup Permutations(Escalations) \cup Permutations(Requests)
=============================================================================
