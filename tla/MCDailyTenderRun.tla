-------------------------- MODULE MCDailyTenderRun --------------------------
(* The notices of the instances that TLC checks. *)
EXTENDS DailyTenderRun

MCNotices == ItemNotices \cup (Procs \X (1..MaxDecisions) \X {"DEFERRED_DUE"})

=============================================================================
