----------------------------- MODULE JobSystem -----------------------------
(***************************************************************************)
(* Durable application jobs: the API's enqueue and cancel calls, the       *)
(* worker's runs (job.worker.ts) and its two start-up sweeps, over one     *)
(* "jobs" table, one "job_metrics" table and the pg-boss queue.            *)
(*                                                                         *)
(* Every service operation reads the row, decides, and later writes with   *)
(* an unconditional update, each statement its own transaction: reads and  *)
(* writes are therefore separate steps here, and anything may happen in    *)
(* between.  Only the sweeps write inside one transaction; their writes    *)
(* are invisible until the commit and keep the rows locked, while the      *)
(* messages they send travel on another connection and are visible at once.*)
(***************************************************************************)
EXTENDS JobLifecycle, FiniteSets

CONSTANTS
  Jobs,         \* application jobs
  NoJob,        \* null job
  MaxAttempts,  \* Job.maxAttempts of each job
  Runs,         \* slots for executions of a pg-boss handler in the worker
  Cancels,      \* cancel calls of API clients
  MaxMessages,  \* bound on the messages ever sent to pg-boss
  FaultKinds,   \* the kinds of fault that may happen
  MaxFaults,    \* bound on the number of faults
  Prompt        \* TRUE: API calls, and the start of the worker, take less than
                \* WORKER_STALE_JOB_MS (300 s by default)

AllFaultKinds ==
  {"send_failure", "db_error", "api_crash", "abort", "crash", "rollback", "stop"}

ASSUME JobsAssumption == NoJob \notin Jobs
ASSUME AttemptsAssumption == MaxAttempts \in [Jobs -> Nat \ {0}]
ASSUME BoundsAssumption == MaxMessages \in Nat /\ MaxFaults \in Nat
ASSUME FaultsAssumption == FaultKinds \subseteq AllFaultKinds /\ Prompt \in BOOLEAN

VARIABLES
  jobs,      \* the committed rows of the table "jobs"
  metrics,   \* outcome of the JobMetric row of each job, "none" without a row
  msgs,      \* pg-boss messages 1..sent
  sent,      \* number of messages sent so far
  runs,      \* executions of runJobWorkerWithDiagnostics
  calls,     \* enqueueJob calls, one per job
  cancels,   \* requestCancellationInWorkspace calls
  sweep,     \* phase of the worker process, and the transaction of its sweeps
  returned,  \* history: some handler invocation for the job has returned
  faults     \* number of faults so far

vars == <<jobs, metrics, msgs, sent, runs, calls, cancels, sweep, returned, faults>>

-----------------------------------------------------------------------------
Messages == 1..MaxMessages

\* Mutant: one retry too many.
retryLimitOffByOne(j) == MaxAttempts[j]

\* createJobQueueSendOptions
retryLimit(j) == MaxAttempts[j] - 1

MessageRow ==
  [job : Jobs \cup {NoJob}, state : {"unsent", "created", "active", "completed", "failed"},
   retryCount : Nat]

Unsent == [job |-> NoJob, state |-> "unsent", retryCount |-> 0]

TryPcs ==
  {"checkpoint1", "readStart", "writeStart", "checkpoint2", "handlerCheckpoint",
   "checkpoint3", "readSuccess", "writeSuccess", "writeCancelled"}
CatchPcs ==
  {"catchCheckpoint", "catchWriteCancelled", "readFailure", "writeFailed", "writeRetry"}
RunPcs == TryPcs \cup CatchPcs \cup {"idle", "handler", "recordMetric"}

\* attempts: appJob.attempts, 0 while appJob is null; outcome: of the metric to record.
RunRow ==
  [pc : RunPcs, job : Jobs \cup {NoJob}, message : Messages \cup {0}, attempts : Nat,
   aborted : BOOLEAN, outcome : TERMINAL_JOB_STATUSES \cup {"none"}]

IdleRun == [pc |-> "idle", job |-> NoJob, message |-> 0, attempts |-> 0,
            aborted |-> FALSE, outcome |-> "none"]

CallRow == [pc : {"idle", "send", "link", "fail", "recordMetric", "done"},
            message : Messages \cup {0}]

CancelRow == [pc : {"idle", "write", "done"}, job : Jobs \cup {NoJob}]

Phases ==
  {"down", "reconcile", "reconciling", "recover", "recovering", "up", "stopping"}

NoPatch == [kind |-> "none", message |-> 0]
Patch == [kind : {"none", "linked", "requeued", "enqueue_failed", "stale_failed"},
          message : Messages \cup {0}]

\* todo: scanned jobs still to process; exhausted: those read with
\* attempts >= maxAttempts; held: job whose message is sent and whose row is not
\* yet written; pending: uncommitted writes; poisoned: a unique violation has
\* aborted the database transaction.
SweepRow ==
  [phase : Phases, todo : SUBSET Jobs, exhausted : SUBSET Jobs,
   held : Jobs \cup {NoJob}, message : Messages \cup {0},
   pending : [Jobs -> Patch], poisoned : BOOLEAN]

SweepAt(phase) ==
  [phase |-> phase, todo |-> {}, exhausted |-> {}, held |-> NoJob, message |-> 0,
   pending |-> [j \in Jobs |-> NoPatch], poisoned |-> FALSE]

TypeOK ==
  /\ jobs \in [Jobs -> JobRow(Messages)]
  /\ metrics \in [Jobs -> TERMINAL_JOB_STATUSES \cup {"none"}]
  /\ msgs \in [Messages -> MessageRow]
  /\ sent \in 0..MaxMessages
  /\ runs \in [Runs -> RunRow]
  /\ calls \in [Jobs -> CallRow]
  /\ cancels \in [Cancels -> CancelRow]
  /\ sweep \in SweepRow
  /\ returned \in [Jobs -> BOOLEAN]
  /\ faults \in Nat

Init ==
  /\ jobs = [j \in Jobs |-> NoRow]
  /\ metrics = [j \in Jobs |-> "none"]
  /\ msgs = [m \in Messages |-> Unsent]
  /\ sent = 0
  /\ runs = [r \in Runs |-> IdleRun]
  /\ calls = [j \in Jobs |-> [pc |-> "idle", message |-> 0]]
  /\ cancels = [c \in Cancels |-> [pc |-> "idle", job |-> NoJob]]
  /\ sweep = SweepAt("down")
  /\ returned = [j \in Jobs |-> FALSE]
  /\ faults = 0

-----------------------------------------------------------------------------
(* Shared pieces of the actions.                                           *)

Fault(kind) == /\ kind \in FaultKinds
               /\ faults < MaxFaults
               /\ faults' = faults + 1

\* An UPDATE waits while a sweep's open transaction has written the row.
Unlocked(j) == sweep.pending[j].kind = "none"

Update(j, row) == /\ Unlocked(j)
                  /\ jobs' = [jobs EXCEPT ![j] = row]

\* Mutants: the metric is taken from the row as it is by now; a later outcome
\* replaces the first.
recordCurrentStatus(j, outcome) ==
  /\ Unlocked(j)
  /\ metrics' = [metrics EXCEPT ![j] = IF @ = "none" THEN jobs[j].status ELSE @]

upsertJobMetric(j, outcome) ==
  /\ Unlocked(j)
  /\ metrics' = [metrics EXCEPT ![j] = outcome]

\* recordJobMetricSafely: the first outcome stays, the unique violation of a
\* second one is swallowed.
recordJobMetric(j, outcome) ==
  /\ Unlocked(j)
  /\ metrics' = [metrics EXCEPT ![j] = IF @ = "none" THEN outcome ELSE @]

\* boss.send
Send(j) == /\ sent < MaxMessages
           /\ sent' = sent + 1
           /\ msgs' = [msgs EXCEPT ![sent + 1] =
                         [job |-> j, state |-> "created", retryCount |-> 0]]

-----------------------------------------------------------------------------
(* enqueueJob, called by the API.                                          *)

CreateJob(j) ==
  /\ calls[j].pc = "idle"
  /\ jobs' = [jobs EXCEPT ![j] = QueuedRow]
  /\ calls' = [calls EXCEPT ![j].pc = "send"]
  /\ UNCHANGED <<metrics, msgs, sent, runs, cancels, sweep, returned, faults>>

EnqueueSend(j) ==
  /\ calls[j].pc = "send"
  /\ Send(j)
  /\ calls' = [calls EXCEPT ![j] = [pc |-> "link", message |-> sent + 1]]
  /\ UNCHANGED <<jobs, metrics, runs, cancels, sweep, returned, faults>>

\* send throws; the message may have been stored before the error.
EnqueueSendFails(j) ==
  /\ calls[j].pc = "send"
  /\ Fault("send_failure")
  /\ Send(j) \/ UNCHANGED <<msgs, sent>>
  /\ calls' = [calls EXCEPT ![j].pc = "fail"]
  /\ UNCHANGED <<jobs, metrics, runs, cancels, sweep, returned>>

EnqueueLink(j) ==
  /\ calls[j].pc = "link"
  /\ Update(j, LinkedRow(jobs[j], calls[j].message))
  /\ calls' = [calls EXCEPT ![j] = [pc |-> "done", message |-> 0]]
  /\ UNCHANGED <<metrics, msgs, sent, runs, cancels, sweep, returned, faults>>

\* markEnqueueFailed
EnqueueMarkFailed(j) ==
  /\ calls[j].pc = "fail"
  /\ Update(j, FailedRow(jobs[j], "JOB_QUEUE_ENQUEUE_FAILED"))
  /\ calls' = [calls EXCEPT ![j].pc = "recordMetric"]
  /\ UNCHANGED <<metrics, msgs, sent, runs, cancels, sweep, returned, faults>>

EnqueueRecordMetric(j) ==
  /\ calls[j].pc = "recordMetric"
  /\ recordJobMetric(j, "FAILED")
  /\ calls' = [calls EXCEPT ![j].pc = "done"]
  /\ UNCHANGED <<jobs, msgs, sent, runs, cancels, sweep, returned, faults>>

\* The API process dies inside the call, or a statement of it throws to the caller.
EnqueueLost(j) ==
  /\ calls[j].pc \notin {"idle", "done"}
  /\ Fault("api_crash")
  /\ calls' = [calls EXCEPT ![j] = [pc |-> "done", message |-> 0]]
  /\ UNCHANGED <<jobs, metrics, msgs, sent, runs, cancels, sweep, returned>>

EnqueueStep(j) ==
  \/ EnqueueSend(j) \/ EnqueueLink(j)
  \/ EnqueueMarkFailed(j) \/ EnqueueRecordMetric(j)

-----------------------------------------------------------------------------
(* requestCancellation and requestCancellationInWorkspace.                 *)

CancelRead(c, j) ==
  /\ cancels[c].pc = "idle"
  /\ jobs[j].status # "NONE"
  /\ LET unchanged == jobs[j].status = "CANCEL_REQUESTED" \/ isTerminalJobStatus(jobs[j].status)
     IN cancels' = [cancels EXCEPT ![c] = IF unchanged THEN [pc |-> "done", job |-> NoJob]
                                          ELSE [pc |-> "write", job |-> j]]
  /\ UNCHANGED <<jobs, metrics, msgs, sent, runs, calls, sweep, returned, faults>>

CancelWrite(c) ==
  /\ cancels[c].pc = "write"
  /\ LET j == cancels[c].job IN Update(j, CancelRequestedRow(jobs[j]))
  /\ cancels' = [cancels EXCEPT ![c] = [pc |-> "done", job |-> NoJob]]
  /\ UNCHANGED <<metrics, msgs, sent, runs, calls, sweep, returned, faults>>

-----------------------------------------------------------------------------
(* A run: runJobWorkerWithDiagnostics on one delivery of one message.      *)

Goto(r, pc) == runs' = [runs EXCEPT ![r].pc = pc]

MessageFailed(msg) ==
  IF msg.retryCount < retryLimit(msg.job)
  THEN [msg EXCEPT !.state = "created", !.retryCount = @ + 1]
  ELSE [msg EXCEPT !.state = "failed"]

\* The handler promise settles and pg-boss completes the message, or fails it
\* and perhaps retries it; a run whose signal was aborted has lost its message.
Resolve(r) ==
  /\ runs' = [runs EXCEPT ![r] = IdleRun]
  /\ msgs' = IF runs[r].aborted THEN msgs
             ELSE [msgs EXCEPT ![runs[r].message].state = "completed"]

Reject(r) ==
  /\ runs' = [runs EXCEPT ![r] = IdleRun]
  /\ msgs' = IF runs[r].aborted THEN msgs
             ELSE [msgs EXCEPT ![runs[r].message] = MessageFailed(@)]

\* The catch block: rethrow at once after an abort, else look for a cancellation.
Caught(r) ==
  IF runs[r].aborted THEN Reject(r)
  ELSE Goto(r, "catchCheckpoint") /\ UNCHANGED msgs

Deliver(r, m) ==
  /\ sweep.phase \notin {"down", "stopping"}
  /\ runs[r].pc = "idle"
  /\ msgs[m].state = "created"
  /\ msgs' = [msgs EXCEPT ![m].state = "active"]
  /\ runs' = [runs EXCEPT ![r] = [IdleRun EXCEPT !.pc = "checkpoint1", !.job = msgs[m].job,
                                                 !.message = m]]
  /\ UNCHANGED <<jobs, metrics, sent, calls, cancels, sweep, returned, faults>>

\* Mutant: a checkpoint passed inside the handler is taken for its end.
CheckpointEndsHandler ==
  [checkpoint1 |-> "readStart", checkpoint2 |-> "handler", handlerCheckpoint |-> "checkpoint3",
   checkpoint3 |-> "readSuccess", catchCheckpoint |-> "readFailure"]

AfterCheckpoint ==
  [checkpoint1 |-> "readStart", checkpoint2 |-> "handler", handlerCheckpoint |-> "handler",
   checkpoint3 |-> "readSuccess", catchCheckpoint |-> "readFailure"]

\* checkpointCancellation, in the runner, in the handler and in the catch block.
Checkpoint(r) ==
  /\ runs[r].pc \in DOMAIN AfterCheckpoint
  /\ LET status == jobs[runs[r].job].status IN
       \/ /\ status = "CANCEL_REQUESTED"
          /\ Goto(r, IF runs[r].pc = "catchCheckpoint" THEN "catchWriteCancelled"
                     ELSE "writeCancelled")
          /\ UNCHANGED msgs
       \/ /\ status = "CANCELLED"
          /\ Resolve(r)
       \/ /\ status \notin {"CANCEL_REQUESTED", "CANCELLED"}
          /\ Goto(r, AfterCheckpoint[runs[r].pc])
          /\ UNCHANGED msgs
  /\ UNCHANGED <<jobs, metrics, sent, calls, cancels, sweep, returned, faults>>

\* markCancelledAndNotify
WriteCancelled(r) ==
  /\ runs[r].pc \in {"writeCancelled", "catchWriteCancelled"}
  /\ LET j == runs[r].job IN Update(j, CancelledRow(jobs[j]))
  /\ runs' = [runs EXCEPT ![r].pc = "recordMetric", ![r].outcome = "CANCELLED"]
  /\ UNCHANGED <<metrics, msgs, sent, calls, cancels, sweep, returned, faults>>

\* Mutant: an attempt is started on a job that has ended.
ReadStartUnchecked(r) ==
  /\ runs[r].pc = "readStart"
  /\ IF jobs[runs[r].job].status = "CANCEL_REQUESTED" THEN Goto(r, "writeCancelled")
     ELSE Goto(r, "writeStart")
  /\ UNCHANGED <<jobs, metrics, msgs, sent, calls, cancels, sweep, returned, faults>>

\* startWorkerAttempt, its read
ReadStart(r) ==
  /\ runs[r].pc = "readStart"
  /\ LET status == jobs[runs[r].job].status IN
       \/ isTerminalJobStatus(status) /\ Resolve(r)
       \/ status = "CANCEL_REQUESTED" /\ Goto(r, "writeCancelled") /\ UNCHANGED msgs
       \/ status \in {"QUEUED", "RUNNING"} /\ Goto(r, "writeStart") /\ UNCHANGED msgs
  /\ UNCHANGED <<jobs, metrics, sent, calls, cancels, sweep, returned, faults>>

WriteStart(r) ==
  /\ runs[r].pc = "writeStart"
  /\ LET j == runs[r].job IN
       /\ Update(j, StartedRow(jobs[j]))
       /\ runs' = [runs EXCEPT ![r].pc = "checkpoint2",
                               ![r].attempts = StartedRow(jobs[j]).attempts]
  /\ UNCHANGED <<metrics, msgs, sent, calls, cancels, sweep, returned, faults>>

HandlerCheckpoint(r) ==
  /\ runs[r].pc = "handler"
  /\ Goto(r, "handlerCheckpoint")
  /\ UNCHANGED <<jobs, metrics, msgs, sent, calls, cancels, sweep, returned, faults>>

HandlerReturns(r) ==
  /\ runs[r].pc = "handler"
  /\ returned' = [returned EXCEPT ![runs[r].job] = TRUE]
  /\ IF runs[r].aborted THEN Reject(r) ELSE Goto(r, "checkpoint3") /\ UNCHANGED msgs
  /\ UNCHANGED <<jobs, metrics, sent, calls, cancels, sweep, faults>>

\* The handler's own error, or a heartbeat or progress call it makes that throws.
HandlerThrows(r) ==
  /\ runs[r].pc = "handler"
  /\ Caught(r)
  /\ UNCHANGED <<jobs, metrics, sent, calls, cancels, sweep, returned, faults>>

\* markSucceeded, its checks
ReadSuccess(r) ==
  /\ runs[r].pc = "readSuccess"
  /\ LET status == jobs[runs[r].job].status IN
       \/ isTerminalJobStatus(status) /\ Resolve(r)
       \/ /\ ~isTerminalJobStatus(status)
          /\ IF ValidTransition(status, "SUCCEEDED")
             THEN Goto(r, "writeSuccess") /\ UNCHANGED msgs
             ELSE Caught(r)
       \/ Caught(r)  \* the result is refused as not sanitized
  /\ UNCHANGED <<jobs, metrics, sent, calls, cancels, sweep, returned, faults>>

WriteSuccess(r) ==
  /\ runs[r].pc = "writeSuccess"
  /\ LET j == runs[r].job IN Update(j, SucceededRow(jobs[j]))
  /\ runs' = [runs EXCEPT ![r].pc = "recordMetric", ![r].outcome = "SUCCEEDED"]
  /\ UNCHANGED <<metrics, msgs, sent, calls, cancels, sweep, returned, faults>>

\* Mutant: one attempt too many before a failure is final.
isFinalAttemptOffByOne(r) == runs[r].attempts > MaxAttempts[runs[r].job]

isFinalAttempt(r) ==
  LET j == runs[r].job IN
  IF runs[r].attempts > 0 THEN runs[r].attempts >= MaxAttempts[j]
  ELSE msgs[runs[r].message].retryCount >= retryLimit(j)

\* The reads of markHandlerFailed (final attempt) and markRetryPending (others).
ReadFailure(r) ==
  /\ runs[r].pc = "readFailure"
  /\ LET status == jobs[runs[r].job].status IN
       \/ isTerminalJobStatus(status) /\ Reject(r)
       \/ /\ ~isTerminalJobStatus(status) /\ isFinalAttempt(r)
          /\ Goto(r, "writeFailed") /\ UNCHANGED msgs
       \/ /\ ~isTerminalJobStatus(status) /\ ~isFinalAttempt(r)
          /\ IF status = "RUNNING" THEN Goto(r, "writeRetry") /\ UNCHANGED msgs
             ELSE Reject(r)
  /\ UNCHANGED <<jobs, metrics, sent, calls, cancels, sweep, returned, faults>>

WriteFailed(r) ==
  /\ runs[r].pc = "writeFailed"
  /\ LET j == runs[r].job IN Update(j, FailedRow(jobs[j], "JOB_HANDLER_FAILED"))
  /\ runs' = [runs EXCEPT ![r].pc = "recordMetric", ![r].outcome = "FAILED"]
  /\ UNCHANGED <<metrics, msgs, sent, calls, cancels, sweep, returned, faults>>

WriteRetry(r) ==
  /\ runs[r].pc = "writeRetry"
  /\ LET j == runs[r].job IN Update(j, RetryPendingRow(jobs[j]))
  /\ Reject(r)
  /\ UNCHANGED <<metrics, sent, calls, cancels, sweep, returned, faults>>

RecordMetric(r) ==
  /\ runs[r].pc = "recordMetric"
  /\ recordJobMetric(runs[r].job, runs[r].outcome)
  /\ IF runs[r].outcome = "FAILED" THEN Reject(r) ELSE Resolve(r)
  /\ UNCHANGED <<jobs, sent, calls, cancels, sweep, returned, faults>>

\* A repository call throws: into the catch block, or out of it; the error of
\* the metric insert is logged and swallowed.
DbError(r) ==
  /\ runs[r].pc \in TryPcs \cup CatchPcs \cup {"recordMetric"}
  /\ Fault("db_error")
  /\ \/ runs[r].pc \in TryPcs /\ Caught(r)
     \/ runs[r].pc \in CatchPcs /\ Reject(r)
     \/ /\ runs[r].pc = "recordMetric"
        /\ IF runs[r].outcome = "FAILED" THEN Reject(r) ELSE Resolve(r)
  /\ UNCHANGED <<jobs, metrics, sent, calls, cancels, sweep, returned>>

HandlerEnds(r) == HandlerReturns(r) \/ HandlerThrows(r)

RunStep(r) ==
  \/ Checkpoint(r) \/ WriteCancelled(r) \/ ReadStart(r) \/ WriteStart(r)
  \/ ReadSuccess(r) \/ WriteSuccess(r) \/ ReadFailure(r) \/ WriteFailed(r)
  \/ WriteRetry(r) \/ RecordMetric(r)

-----------------------------------------------------------------------------
(* pg-boss and the passing of time.                                        *)

\* The handler's time limit, or the end of the shutdown grace period: pg-boss
\* aborts the signal and fails the message; the run goes on until it looks.
Abort(r) ==
  /\ runs[r].pc # "idle" /\ ~runs[r].aborted
  /\ Fault("abort")
  /\ runs' = [runs EXCEPT ![r].aborted = TRUE]
  /\ msgs' = [msgs EXCEPT ![runs[r].message] = MessageFailed(@)]
  /\ UNCHANGED <<jobs, metrics, sent, calls, cancels, sweep, returned>>

\* supervise: an active message whose worker died expires.
Expire(m) ==
  /\ sweep.phase # "down"
  /\ msgs[m].state = "active"
  /\ \A r \in Runs : runs[r].message = m => runs[r].aborted
  /\ msgs' = [msgs EXCEPT ![m] = MessageFailed(@)]
  /\ UNCHANGED <<jobs, metrics, sent, runs, calls, cancels, sweep, returned, faults>>

\* WORKER_STALE_JOB_MS pass without a heartbeat: the loop of a run that has
\* started its attempt prevents it, and stops with an abort.
GoStale(j) ==
  /\ jobs[j].status = "RUNNING" /\ jobs[j].fresh
  /\ Prompt => /\ calls[j].pc \in {"idle", "done"} /\ \A c \in Cancels : cancels[c].job # j
               /\ sweep.phase \in {"down", "up", "stopping"}
  /\ \A r \in Runs : runs[r].job = j => runs[r].aborted \/ runs[r].attempts = 0
  /\ Update(j, [jobs[j] EXCEPT !.fresh = FALSE])
  /\ UNCHANGED <<metrics, msgs, sent, runs, calls, cancels, sweep, returned, faults>>

-----------------------------------------------------------------------------
(* The worker process: consumers first, then one reconciliation and one    *)
(* stale recovery, each in its own advisory-locked transaction.            *)

StartWorker ==
  /\ sweep.phase = "down"
  /\ sweep' = SweepAt("reconcile")
  /\ UNCHANGED <<jobs, metrics, msgs, sent, runs, calls, cancels, returned, faults>>

\* Mutant: the reconciliation looks for jobs that have a message.
QueuedWithMessage == {j \in Jobs : jobs[j].status = "QUEUED" /\ jobs[j].queueMessageId # 0}

\* findQueuedJobsWithoutQueueMessage
QueuedWithoutMessage == {j \in Jobs : jobs[j].status = "QUEUED" /\ jobs[j].queueMessageId = 0}

ScanQueued ==
  /\ sweep.phase = "reconcile"
  /\ sweep' = [SweepAt("reconciling") EXCEPT !.todo = QueuedWithoutMessage]
  /\ UNCHANGED <<jobs, metrics, msgs, sent, runs, calls, cancels, returned, faults>>

\* Mutant: the recovery compares the heartbeat the wrong way round.
FreshJobs == {j \in Jobs : jobs[j].status = "RUNNING" /\ jobs[j].fresh}

\* findStaleRunningJobs
StaleJobs == {j \in Jobs : jobs[j].status = "RUNNING" /\ ~jobs[j].fresh}

ScanStale ==
  /\ sweep.phase = "recover"
  /\ sweep' = [SweepAt("recovering") EXCEPT
                 !.todo = StaleJobs,
                 !.exhausted = {j \in StaleJobs : jobs[j].attempts >= MaxAttempts[j]}]
  /\ UNCHANGED <<jobs, metrics, msgs, sent, runs, calls, cancels, returned, faults>>

Sweeping == sweep.phase \in {"reconciling", "recovering"}

\* Mutant: the job is linked to the message sent before.
SweepSendPrevious(j) ==
  /\ Sweeping /\ sweep.held = NoJob
  /\ j \in sweep.todo \ sweep.exhausted
  /\ Send(j)
  /\ sweep' = [sweep EXCEPT !.todo = @ \ {j}, !.held = j, !.message = sent]
  /\ UNCHANGED <<jobs, metrics, runs, calls, cancels, returned, faults>>

SweepSend(j) ==
  /\ Sweeping /\ sweep.held = NoJob
  /\ j \in sweep.todo \ sweep.exhausted
  /\ Send(j)
  /\ sweep' = [sweep EXCEPT !.todo = @ \ {j}, !.held = j, !.message = sent + 1]
  /\ UNCHANGED <<jobs, metrics, runs, calls, cancels, returned, faults>>

\* A FAILED write inserts the metric in the same transaction: a metric that is
\* already there makes PostgreSQL abort the transaction.
SweepFails(j, kind) ==
  sweep' = [sweep EXCEPT !.todo = @ \ {j},
                         !.pending[j] = [kind |-> kind, message |-> 0],
                         !.poisoned = @ \/ metrics[j] # "none"]

SweepSendFails(j) ==
  /\ Sweeping /\ sweep.held = NoJob /\ ~sweep.poisoned
  /\ j \in sweep.todo \ sweep.exhausted
  /\ Fault("send_failure")
  /\ Send(j) \/ UNCHANGED <<msgs, sent>>
  /\ SweepFails(j, "enqueue_failed")
  /\ UNCHANGED <<jobs, metrics, runs, calls, cancels, returned>>

SweepFailStale(j) ==
  /\ Sweeping /\ sweep.held = NoJob /\ ~sweep.poisoned
  /\ j \in sweep.todo \cap sweep.exhausted
  /\ SweepFails(j, "stale_failed")
  /\ UNCHANGED <<jobs, metrics, msgs, sent, runs, calls, cancels, returned, faults>>

SweepWrite ==
  /\ Sweeping /\ sweep.held # NoJob /\ ~sweep.poisoned
  /\ sweep' = [sweep EXCEPT
       !.held = NoJob, !.message = 0,
       !.pending[sweep.held] =
          [kind |-> IF sweep.phase = "reconciling" THEN "linked" ELSE "requeued",
           message |-> sweep.message]]
  /\ UNCHANGED <<jobs, metrics, msgs, sent, runs, calls, cancels, returned, faults>>

Patched(row, p) ==
  CASE p.kind = "linked"         -> LinkedRow(row, p.message)
    [] p.kind = "requeued"       -> RequeuedRow(row, p.message)
    [] p.kind = "enqueue_failed" -> FailedRow(row, "JOB_QUEUE_ENQUEUE_FAILED")
    [] p.kind = "stale_failed"   -> FailedRow(row, "JOB_WORKER_STALE")
    [] OTHER                     -> row

\* Mutant: the sweep fails a job without recording it.
UnrecordedMetric(j) == metrics[j]

\* The metric row the committed transaction leaves for j.
CommittedMetric(j) ==
  IF sweep.pending[j].kind \in {"enqueue_failed", "stale_failed"} THEN "FAILED" ELSE metrics[j]

AfterSweep == IF sweep.phase = "reconciling" THEN "recover" ELSE "up"

SweepCommit ==
  /\ Sweeping /\ sweep.todo = {} /\ sweep.held = NoJob
  /\ IF sweep.poisoned THEN UNCHANGED <<jobs, metrics>>
     ELSE /\ jobs' = [j \in Jobs |-> Patched(jobs[j], sweep.pending[j])]
          /\ metrics' = [j \in Jobs |-> CommittedMetric(j)]
  /\ sweep' = SweepAt(AfterSweep)
  /\ UNCHANGED <<msgs, sent, runs, calls, cancels, returned, faults>>

\* A statement in the aborted transaction throws, or the interactive
\* transaction times out: nothing is written, start() disposes the worker.
SweepRollback ==
  /\ Sweeping
  /\ \/ sweep.poisoned /\ (sweep.todo # {} \/ sweep.held # NoJob) /\ UNCHANGED faults
     \/ Fault("rollback")
  /\ sweep' = SweepAt("stopping")
  /\ UNCHANGED <<jobs, metrics, msgs, sent, runs, calls, cancels, returned>>

\* boss.stop({ graceful: true }): no delivery any more, runs may still end.
StopWorker ==
  /\ sweep.phase = "up"
  /\ Fault("stop")
  /\ sweep' = SweepAt("stopping")
  /\ UNCHANGED <<jobs, metrics, msgs, sent, runs, calls, cancels, returned>>

WorkerExit ==
  /\ sweep.phase = "stopping"
  /\ \A r \in Runs : runs[r].pc = "idle" \/ runs[r].aborted
  /\ sweep' = SweepAt("down")
  /\ runs' = [r \in Runs |-> IdleRun]
  /\ UNCHANGED <<jobs, metrics, msgs, sent, calls, cancels, returned, faults>>

Crash ==
  /\ sweep.phase # "down"
  /\ Fault("crash")
  /\ sweep' = SweepAt("down")
  /\ runs' = [r \in Runs |-> IdleRun]
  /\ UNCHANGED <<jobs, metrics, msgs, sent, calls, cancels, returned>>

SweepStep ==
  \/ ScanQueued \/ ScanStale \/ SweepWrite \/ SweepCommit \/ SweepRollback
  \/ \E j \in Jobs : SweepSend(j) \/ SweepSendFails(j) \/ SweepFailStale(j)

-----------------------------------------------------------------------------
Next ==
  \/ \E j \in Jobs : CreateJob(j) \/ EnqueueStep(j) \/ EnqueueSendFails(j) \/ EnqueueLost(j)
  \/ \E c \in Cancels : CancelWrite(c) \/ \E j \in Jobs : CancelRead(c, j)
  \/ \E r \in Runs : RunStep(r) \/ HandlerCheckpoint(r) \/ HandlerEnds(r)
                       \/ DbError(r) \/ Abort(r)
  \/ \E m \in Messages : Expire(m) \/ \E r \in Runs : Deliver(r, m)
  \/ \E j \in Jobs : GoStale(j)
  \/ SweepStep \/ StartWorker \/ StopWorker \/ WorkerExit \/ Crash

Spec == Init /\ [][Next]_vars

(***************************************************************************)
(* Fairness: a live process takes its next statement, a handler ends after *)
(* finitely many checkpoints, pg-boss delivers and expires, a worker that  *)
(* ended is started again.  Clients, faults and the clock owe nothing.     *)
(***************************************************************************)
Fairness ==
  /\ \A j \in Jobs : WF_vars(EnqueueStep(j))
  /\ \A c \in Cancels : WF_vars(CancelWrite(c))
  /\ \A r \in Runs : WF_vars(RunStep(r)) /\ SF_vars(HandlerEnds(r))
  /\ \A m \in Messages : WF_vars(Expire(m)) /\ WF_vars(\E r \in Runs : Deliver(r, m))
  /\ WF_vars(SweepStep) /\ WF_vars(StartWorker) /\ WF_vars(WorkerExit)

FairSpec == Spec /\ Fairness

-----------------------------------------------------------------------------
(* Properties that survive every interleaving and every fault.             *)

\* No job is shown CANCELLED unless a client asked for it: the unconditional
\* CANCELLED writes of stale checkpoints never hit a job nobody cancelled.
CancelledWasRequested ==
  \A j \in Jobs : jobs[j].status = "CANCELLED" => jobs[j].cancelRequestedAt

\* A finished job has a completion time: the job-event feed throws on a
\* terminal row without completedAt, whatever raced to finish the job.
TerminalHasCompletedAt ==
  \A j \in Jobs : isTerminalJobStatus(jobs[j].status) => jobs[j].completedAt

\* A failed job says why, whichever of the four writers of FAILED came last.
FailedHasErrorCode ==
  \A j \in Jobs : jobs[j].status = "FAILED" => jobs[j].errorCode # "null"

\* A job is SUCCEEDED only if some invocation of its handler returned.
SucceededHasReturned ==
  \A j \in Jobs : jobs[j].status = "SUCCEEDED" => returned[j]

\* The metric of a job records an outcome the job really had evidence for, even
\* where the status was overwritten afterwards.
MetricIsJustified ==
  \A j \in Jobs :
    /\ metrics[j] # "none" => jobs[j].completedAt
    /\ metrics[j] = "CANCELLED" => jobs[j].cancelRequestedAt
    /\ metrics[j] = "SUCCEEDED" => returned[j]

\* The stale recovery never fails a job without leaving its metric: both are
\* written by one transaction, which is rolled back as a whole or not at all.
StaleFailureIsMeasured ==
  \A j \in Jobs : jobs[j].errorCode = "JOB_WORKER_STALE" => metrics[j] # "none"

\* The queueMessageId of a job is a message that was sent for this job, whoever
\* wrote it last: the enqueue call, the reconciliation or the stale recovery.
LinkedMessageIsOwn ==
  \A j \in Jobs : jobs[j].queueMessageId # 0 => msgs[jobs[j].queueMessageId].job = j

MessagesOf(j) == {m \in Messages : msgs[m].job = j}

\* As long as one message was sent for a job its attempts stay within
\* maxAttempts: pg-boss's retry count and the attempt counter, kept by different
\* parties, do not drift apart through crashes, aborts and database errors.
AttemptsWithinBudget ==
  \A j \in Jobs : Cardinality(MessagesOf(j)) <= 1 => jobs[j].attempts <= MaxAttempts[j]

\* However writers of a job overlap, what its row and its metric say of its end has its
\* grounds: the request, the completion time, the code, the handler's return.
OutcomesAreJustified ==
  /\ CancelledWasRequested /\ TerminalHasCompletedAt /\ FailedHasErrorCode
  /\ SucceededHasReturned /\ MetricIsJustified

\* The books two parties keep of one job agree: attempts, message ids, metrics.
BooksAgree == AttemptsWithinBudget /\ LinkedMessageIsOwn /\ StaleFailureIsMeasured

Evidence == INSTANCE JobEvidence WITH
  evidence <- [j \in Jobs |->
    [status |-> jobs[j].status, requested |-> jobs[j].cancelRequestedAt,
     returned |-> returned[j], finished |-> jobs[j].completedAt,
     coded |-> jobs[j].errorCode # "null", outcome |-> metrics[j]]]

\* Facts about jobs are never retracted, final statuses and outcomes carry their
\* evidence, and the first outcome recorded stays: every write of the service,
\* late or not, is a step of JobEvidence.
KeepsEvidence == Evidence!Spec

-----------------------------------------------------------------------------
(* Properties of restricted regimes (see the configurations).              *)

\* A terminal status is final.
TerminalIsFinal ==
  [][\A j \in Jobs : isTerminalJobStatus(jobs[j].status) => jobs'[j].status = jobs[j].status]_vars

\* Every job that was created ends.
EveryJobEnds ==
  \A j \in Jobs : jobs[j].status # "NONE" ~> isTerminalJobStatus(jobs[j].status)

\* A RUNNING job that already has a metric makes every stale recovery fail.
Recoverable == \A j \in Jobs : jobs[j].status = "RUNNING" => metrics[j] = "none"

\* A job that the API left without a message is brought to an end once the worker
\* starts again.
OrphanEnds ==
  \A j \in Jobs : /\ sweep.phase = "down" /\ calls[j].pc = "done" /\ Recoverable
                  /\ jobs[j].status = "QUEUED" /\ jobs[j].queueMessageId = 0
                  ~> isTerminalJobStatus(jobs[j].status)

\* So is a job whose worker died in the middle of an attempt.
StaleEnds ==
  \A j \in Jobs : /\ sweep.phase = "down" /\ Recoverable
                  /\ jobs[j].status = "RUNNING" /\ ~jobs[j].fresh
                  ~> isTerminalJobStatus(jobs[j].status)

\* A requested cancellation is carried out, or the job ends otherwise.
CancellationEnds ==
  \A j \in Jobs : jobs[j].status = "CANCEL_REQUESTED" ~> isTerminalJobStatus(jobs[j].status)
=============================================================================
