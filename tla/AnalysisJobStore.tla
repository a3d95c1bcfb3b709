-------------------------- MODULE AnalysisJobStore --------------------------
(***************************************************************************)
(* The durable TenderAnalysisJob rows (src/src/tender_research/rag/        *)
(* job_service.py).  Every function of that file commits its own           *)
(* transaction and, requeue_job apart, writes without looking at the       *)
(* status it replaces.  "completed" stands for completed and               *)
(* completed_with_warnings.                                                *)
(***************************************************************************)
EXTENDS Naturals

CONSTANT Jobs

VARIABLES
  status,  \* TenderAnalysisJob.status, "none" before the row exists
  fresh    \* updated_at is younger than the visibility timeout

Status == {"none", "queued", "running", "completed", "failed"}

Terminal == {"completed"}      \* TERMINAL_JOB_STATUSES: "failed" is not in it

JobInit ==
  /\ status = [j \in Jobs |-> "none"]
  /\ fresh = [j \in Jobs |-> FALSE]

(* Every write sets status and updated_at together. *)
Write(j, s) ==
  /\ status' = [status EXCEPT ![j] = s]
  /\ fresh' = [fresh EXCEPT ![j] = TRUE]

CreateJob(j) == Write(j, "queued")

MarkJobRunning(j) == Write(j, "running")

UpdateJobProgress(j) == Write(j, "running")

CompleteJob(j) == Write(j, "completed")

FailJob(j) == Write(j, "failed")

(* requeue_job reads the row, returns when it is terminal and otherwise
   writes "queued": RequeueReads is its test, RequeueWrites its commit. *)
RequeueReads(j) == status[j] \notin Terminal

RequeueWrites(j) == Write(j, "queued")

TouchJobHeartbeat(j) ==
  /\ IF status[j] = "running" THEN fresh' = [fresh EXCEPT ![j] = TRUE]
                              ELSE UNCHANGED fresh
  /\ UNCHANGED status

(* The clock: the heartbeat of a running job reaches the visibility timeout. *)
HeartbeatExpires(j) ==
  /\ status[j] = "running" /\ fresh[j]
  /\ fresh' = [fresh EXCEPT ![j] = FALSE]
  /\ UNCHANGED status
=============================================================================
