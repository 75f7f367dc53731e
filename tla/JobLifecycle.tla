---------------------------- MODULE JobLifecycle ----------------------------
(***************************************************************************)
(* The lifecycle table of application jobs (jobLifecycle.ts), the row of   *)
(* the "jobs" table as far as the lifecycle looks at it, and the updates   *)
(* job.service.ts writes to it.  Every update is Prisma's                  *)
(* job.update({ where: { id }, data }): it sets the named columns of the   *)
(* row as it is at that moment, whatever its status has become since the   *)
(* caller read it.  Timestamps are kept as "set or not set".               *)
(***************************************************************************)
EXTENDS Naturals

TERMINAL_JOB_STATUSES == {"SUCCEEDED", "FAILED", "CANCELLED"}
JobStatus == {"QUEUED", "RUNNING", "CANCEL_REQUESTED"} \cup TERMINAL_JOB_STATUSES

isTerminalJobStatus(status) == status \in TERMINAL_JOB_STATUSES

VALID_JOB_STATUS_TRANSITIONS ==
  [from \in JobStatus |->
     CASE from = "QUEUED"           -> {"RUNNING", "CANCEL_REQUESTED", "FAILED"}
       [] from = "RUNNING"          -> {"CANCEL_REQUESTED", "SUCCEEDED", "FAILED"}
       [] from = "CANCEL_REQUESTED" -> {"CANCELLED", "FAILED"}
       [] OTHER                     -> {}]

\* assertValidJobStatusTransition throws exactly when this is false.
ValidTransition(from, to) == from = to \/ to \in VALID_JOB_STATUS_TRANSITIONS[from]

-----------------------------------------------------------------------------
ErrorCodes == {"JOB_QUEUE_ENQUEUE_FAILED", "JOB_HANDLER_FAILED", "JOB_WORKER_STALE"}

\* "NONE" is the status of a row that enqueueJob has not created yet; 0 is a
\* null queueMessageId; fresh: heartbeatAt is not older than WORKER_STALE_JOB_MS.
JobRow(Messages) ==
  [status : JobStatus \cup {"NONE"}, attempts : Nat, queueMessageId : Messages \cup {0},
   fresh : BOOLEAN, cancelRequestedAt : BOOLEAN, completedAt : BOOLEAN,
   errorCode : ErrorCodes \cup {"null"}]

NoRow == [status |-> "NONE", attempts |-> 0, queueMessageId |-> 0, fresh |-> FALSE,
          cancelRequestedAt |-> FALSE, completedAt |-> FALSE, errorCode |-> "null"]

QueuedRow == [NoRow EXCEPT !.status = "QUEUED"]

StartedRow(row) ==
  [row EXCEPT !.status = "RUNNING", !.attempts = @ + 1, !.fresh = TRUE]

RetryPendingRow(row) == [row EXCEPT !.status = "RUNNING"]

\* Mutant: the request is recorded in the status only.
UnstampedCancelRequestedRow(row) == [row EXCEPT !.status = "CANCEL_REQUESTED"]

CancelRequestedRow(row) ==
  [row EXCEPT !.status = "CANCEL_REQUESTED", !.cancelRequestedAt = TRUE]

\* Mutant: cancelling forgets completedAt.
UnstampedCancelledRow(row) == [row EXCEPT !.status = "CANCELLED"]

CancelledRow(row) == [row EXCEPT !.status = "CANCELLED", !.completedAt = TRUE]

SucceededRow(row) == [row EXCEPT !.status = "SUCCEEDED", !.completedAt = TRUE]

\* Mutant: a failure is written without its code.
UncodedFailedRow(row, code) == [row EXCEPT !.status = "FAILED", !.completedAt = TRUE]

FailedRow(row, code) ==
  [row EXCEPT !.status = "FAILED", !.completedAt = TRUE, !.errorCode = code]

LinkedRow(row, m) == [row EXCEPT !.queueMessageId = m]

RequeuedRow(row, m) == [row EXCEPT !.status = "QUEUED", !.queueMessageId = m]

=============================================================================
