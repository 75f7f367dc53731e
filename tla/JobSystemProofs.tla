-------------------------- MODULE JobSystemProofs --------------------------
(***************************************************************************)
(* Proofs about JobSystem for every number of jobs, runs, cancel calls,    *)
(* messages and faults.                                                    *)
(***************************************************************************)
EXTENDS JobSystem, FiniteSetTheorems, TLAPS

-----------------------------------------------------------------------------
(* Type correctness.                                                       *)

\* Every update job.service.ts writes to a row leaves a row.
LEMMA RowTypes ==
  ASSUME NEW row \in JobRow(Messages), NEW m \in Messages \cup {0}, NEW code \in ErrorCodes
  PROVE  /\ StartedRow(row) \in JobRow(Messages)
         /\ RetryPendingRow(row) \in JobRow(Messages)
         /\ CancelRequestedRow(row) \in JobRow(Messages)
         /\ CancelledRow(row) \in JobRow(Messages)
         /\ SucceededRow(row) \in JobRow(Messages)
         /\ FailedRow(row, code) \in JobRow(Messages)
         /\ LinkedRow(row, m) \in JobRow(Messages)
         /\ RequeuedRow(row, m) \in JobRow(Messages)
         /\ [row EXCEPT !.fresh = FALSE] \in JobRow(Messages)
<1> USE DEF JobRow, JobStatus, TERMINAL_JOB_STATUSES
<1>1. StartedRow(row) \in JobRow(Messages)
  <2>1. row.attempts + 1 \in Nat
    OBVIOUS
  <2> QED BY <2>1, Zenon DEF StartedRow
<1>2. RetryPendingRow(row) \in JobRow(Messages) /\ CancelRequestedRow(row) \in JobRow(Messages)
  BY DEF RetryPendingRow, CancelRequestedRow
<1>3. CancelledRow(row) \in JobRow(Messages) /\ SucceededRow(row) \in JobRow(Messages)
  BY DEF CancelledRow, SucceededRow
<1>4. FailedRow(row, code) \in JobRow(Messages)
  BY DEF FailedRow
<1>5. LinkedRow(row, m) \in JobRow(Messages) /\ RequeuedRow(row, m) \in JobRow(Messages)
  BY DEF LinkedRow, RequeuedRow
<1>6. [row EXCEPT !.fresh = FALSE] \in JobRow(Messages)
  OBVIOUS
<1> QED BY <1>1, <1>2, <1>3, <1>4, <1>5, <1>6

LEMMA BlankRowTypes == NoRow \in JobRow(Messages) /\ QueuedRow \in JobRow(Messages)
BY DEF JobRow, NoRow, QueuedRow, JobStatus

LEMMA SweepAtTypes == \A phase \in Phases : SweepAt(phase) \in SweepRow
BY DEF SweepAt, SweepRow, Patch, NoPatch, Messages

LEMMA IdleTypes ==
  /\ IdleRun \in RunRow /\ Unsent \in MessageRow
  /\ \A pc \in {"idle", "write", "done"} : [pc |-> pc, job |-> NoJob] \in CancelRow
  /\ \A pc \in {"idle", "done"} : [pc |-> pc, message |-> 0] \in CallRow
BY DEF IdleRun, RunRow, RunPcs, Unsent, MessageRow, CancelRow, CallRow

LEMMA InitTypes == Init => TypeOK
<1> SUFFICES ASSUME Init PROVE TypeOK
  OBVIOUS
<1>1. sweep \in SweepRow
  BY SweepAtTypes DEF Init, Phases
<1>2. sent \in 0..MaxMessages /\ faults \in Nat
  BY BoundsAssumption DEF Init
<1> QED BY <1>1, <1>2, BlankRowTypes, IdleTypes DEF Init, TypeOK

\* boss.send.
LEMMA SendTypes ==
  ASSUME TypeOK, NEW j \in Jobs, Send(j)
  PROVE  /\ msgs' \in [Messages -> MessageRow] /\ sent' \in 0..MaxMessages
         /\ sent + 1 \in Messages
<1>1. sent + 1 \in Messages /\ sent' \in 0..MaxMessages
  BY BoundsAssumption DEF TypeOK, Send, Messages
<1>2. [job |-> j, state |-> "created", retryCount |-> 0] \in MessageRow
  BY DEF MessageRow
<1> QED BY <1>1, <1>2 DEF TypeOK, Send

\* EXCEPT on an index that may lie outside the domain.
LEMMA ExceptTypes ==
  ASSUME NEW S, NEW T, NEW f \in [S -> T], NEW x, NEW e, x \in S => e \in T
  PROVE  [f EXCEPT ![x] = e] \in [S -> T]
OBVIOUS

\* The settling of a run, and its moves.
LEMMA MessageFailedTypes ==
  ASSUME NEW msg \in MessageRow PROVE MessageFailed(msg) \in MessageRow
<1>1. msg.retryCount \in Nat /\ msg.retryCount + 1 \in Nat
  BY DEF MessageRow
<1>2. [msg EXCEPT !.state = "created", !.retryCount = @ + 1] \in MessageRow
  BY <1>1, Zenon DEF MessageRow
<1>3. [msg EXCEPT !.state = "failed"] \in MessageRow
  BY DEF MessageRow
<1> QED BY <1>2, <1>3 DEF MessageFailed

LEMMA RunTypes ==
  ASSUME TypeOK, NEW r \in Runs
  PROVE  /\ Resolve(r) \/ Reject(r) =>
              runs' \in [Runs -> RunRow] /\ msgs' \in [Messages -> MessageRow]
         /\ Caught(r) => runs' \in [Runs -> RunRow] /\ msgs' \in [Messages -> MessageRow]
         /\ \A pc \in RunPcs : Goto(r, pc) => runs' \in [Runs -> RunRow]
         /\ runs[r].job \in Jobs \cup {NoJob} /\ runs[r].message \in Messages \cup {0}
<1>1. IdleRun \in RunRow
  BY DEF IdleRun, RunRow, RunPcs
<1>2. Resolve(r) => runs' \in [Runs -> RunRow] /\ msgs' \in [Messages -> MessageRow]
  <2>1. \A m \in Messages : [msgs[m] EXCEPT !.state = "completed"] \in MessageRow
    BY DEF TypeOK, MessageRow
  <2>2. runs \in [Runs -> RunRow] /\ msgs \in [Messages -> MessageRow]
    BY DEF TypeOK
  <2>3. Resolve(r) => runs' \in [Runs -> RunRow]
    BY <1>1, <2>2 DEF Resolve
  <2>4. Resolve(r) => msgs' \in [Messages -> MessageRow]
    <3>1. CASE runs[r].aborted
      BY <3>1, <2>2 DEF Resolve
    <3>2. CASE ~runs[r].aborted
      <4>1. [msgs EXCEPT ![runs[r].message] = [msgs[runs[r].message] EXCEPT !.state = "completed"]]
              \in [Messages -> MessageRow]
        BY <2>1, <2>2, ExceptTypes
      <4> QED BY <3>2, <4>1 DEF Resolve
    <3> QED BY <3>1, <3>2
  <2> QED BY <2>3, <2>4
<1>3. Reject(r) => runs' \in [Runs -> RunRow] /\ msgs' \in [Messages -> MessageRow]
  <2>1. \A m \in Messages : MessageFailed(msgs[m]) \in MessageRow
    BY MessageFailedTypes DEF TypeOK
  <2>2. runs \in [Runs -> RunRow] /\ msgs \in [Messages -> MessageRow]
    BY DEF TypeOK
  <2>3. Reject(r) => runs' \in [Runs -> RunRow]
    BY <1>1, <2>2 DEF Reject
  <2>4. Reject(r) => msgs' \in [Messages -> MessageRow]
    <3>1. CASE runs[r].aborted
      BY <3>1, <2>2 DEF Reject
    <3>2. CASE ~runs[r].aborted
      <4>1. [msgs EXCEPT ![runs[r].message] = MessageFailed(msgs[runs[r].message])]
              \in [Messages -> MessageRow]
        BY <2>1, <2>2, ExceptTypes
      <4> QED BY <3>2, <4>1 DEF Reject
    <3> QED BY <3>1, <3>2
  <2> QED BY <2>3, <2>4
<1>4. \A pc \in RunPcs : Goto(r, pc) => runs' \in [Runs -> RunRow]
  BY DEF Goto, TypeOK, RunRow
<1>5. Caught(r) => runs' \in [Runs -> RunRow] /\ msgs' \in [Messages -> MessageRow]
  <2>1. "catchCheckpoint" \in RunPcs
    BY DEF RunPcs, CatchPcs
  <2> QED BY <2>1, <1>3, <1>4 DEF Caught, TypeOK
<1>6. runs[r].job \in Jobs \cup {NoJob} /\ runs[r].message \in Messages \cup {0}
  BY DEF TypeOK, RunRow
<1> QED BY <1>2, <1>3, <1>4, <1>5, <1>6

LEMMA SomeTypes == 0 \in Messages \cup {0} /\ \A code \in {"JOB_QUEUE_ENQUEUE_FAILED",
                     "JOB_HANDLER_FAILED", "JOB_WORKER_STALE"} : code \in ErrorCodes
BY DEF ErrorCodes

\* The table after any update that touches one row.
LEMMA UpdateTypes ==
  ASSUME TypeOK, NEW j, NEW m \in Messages \cup {0}, NEW code \in ErrorCodes,
         \/ Update(j, StartedRow(jobs[j])) \/ Update(j, RetryPendingRow(jobs[j]))
         \/ Update(j, CancelRequestedRow(jobs[j])) \/ Update(j, CancelledRow(jobs[j]))
         \/ Update(j, SucceededRow(jobs[j])) \/ Update(j, FailedRow(jobs[j], code))
         \/ Update(j, LinkedRow(jobs[j], m)) \/ Update(j, [jobs[j] EXCEPT !.fresh = FALSE])
  PROVE  jobs' \in [Jobs -> JobRow(Messages)]
<1>1. PICK row : Update(j, row) /\ (j \in Jobs => row \in JobRow(Messages))
  <2>1. j \in Jobs => jobs[j] \in JobRow(Messages)
    BY DEF TypeOK
  <2> QED BY <2>1, RowTypes
<1> QED BY <1>1, ExceptTypes DEF TypeOK, Update

LEMMA MetricTypes ==
  ASSUME TypeOK, NEW j, NEW outcome \in TERMINAL_JOB_STATUSES \cup {"none"},
         recordJobMetric(j, outcome)
  PROVE  metrics' \in [Jobs -> TERMINAL_JOB_STATUSES \cup {"none"}]
BY DEF TypeOK, recordJobMetric

LEMMA EnqueueTypes ==
  ASSUME TypeOK, NEW j \in Jobs,
         CreateJob(j) \/ EnqueueStep(j) \/ EnqueueSendFails(j) \/ EnqueueLost(j)
  PROVE  TypeOK'
<1> USE DEF TypeOK
<1>1. CASE CreateJob(j)
  BY <1>1, BlankRowTypes DEF CreateJob, CallRow
<1>2. CASE EnqueueSend(j)
  <2>1. [pc |-> "link", message |-> sent + 1] \in CallRow
    BY <1>2, SendTypes DEF EnqueueSend, CallRow
  <2> QED BY <1>2, <2>1, SendTypes DEF EnqueueSend
<1>3. CASE EnqueueSendFails(j)
  <2>1. calls' \in [Jobs -> CallRow]
    BY <1>3 DEF EnqueueSendFails, CallRow
  <2> QED BY <1>3, <2>1, SendTypes DEF EnqueueSendFails, Fault
<1>4. CASE EnqueueLink(j)
  <2>1. calls[j].message \in Messages \cup {0}
    BY DEF CallRow
  <2>2. jobs' \in [Jobs -> JobRow(Messages)]
    BY <1>4, <2>1, SomeTypes, UpdateTypes DEF EnqueueLink
  <2> QED BY <1>4, <2>2, IdleTypes DEF EnqueueLink
<1>5. CASE EnqueueMarkFailed(j)
  <2>1. jobs' \in [Jobs -> JobRow(Messages)]
    BY <1>5, SomeTypes, UpdateTypes DEF EnqueueMarkFailed
  <2>2. calls' \in [Jobs -> CallRow]
    BY <1>5 DEF EnqueueMarkFailed, CallRow
  <2> QED BY <1>5, <2>1, <2>2 DEF EnqueueMarkFailed
<1>6. CASE EnqueueRecordMetric(j)
  <2>1. calls' \in [Jobs -> CallRow]
    BY <1>6 DEF EnqueueRecordMetric, CallRow
  <2> QED BY <1>6, <2>1, MetricTypes DEF EnqueueRecordMetric, TERMINAL_JOB_STATUSES
<1>7. CASE EnqueueLost(j)
  BY <1>7, IdleTypes DEF EnqueueLost, Fault
<1> QED BY <1>1, <1>2, <1>3, <1>4, <1>5, <1>6, <1>7 DEF EnqueueStep

LEMMA CancelTypes ==
  ASSUME TypeOK, NEW c \in Cancels, CancelWrite(c) \/ \E j \in Jobs : CancelRead(c, j)
  PROVE  TypeOK'
<1> USE DEF TypeOK
<1>1. CASE CancelWrite(c)
  <2>1. jobs' \in [Jobs -> JobRow(Messages)]
    BY <1>1, SomeTypes, UpdateTypes DEF CancelWrite
  <2> QED BY <1>1, <2>1, IdleTypes DEF CancelWrite
<1>2. ASSUME NEW j \in Jobs, CancelRead(c, j) PROVE TypeOK'
  <2>1. [pc |-> "write", job |-> j] \in CancelRow
    BY DEF CancelRow
  <2> QED BY <1>2, <2>1, IdleTypes DEF CancelRead
<1> QED BY <1>1, <1>2

LEMMA RunStepTypes ==
  ASSUME TypeOK, NEW r \in Runs, runs[r].pc # "idle" => runs[r].job \in Jobs,
         RunStep(r) \/ HandlerCheckpoint(r) \/ HandlerEnds(r) \/ DbError(r) \/ Abort(r)
  PROVE  TypeOK'
<1> USE DEF TypeOK
<1>0. runs[r] \in RunRow
  OBVIOUS
<1>a. {"readStart", "handler", "checkpoint3", "readSuccess", "readFailure", "writeCancelled",
       "catchWriteCancelled", "writeStart", "checkpoint2", "handlerCheckpoint", "recordMetric",
       "writeSuccess", "writeFailed", "writeRetry"} \subseteq RunPcs
  BY DEF RunPcs, TryPcs, CatchPcs
<1>1. CASE Checkpoint(r)
  <2>1. \A pc \in DOMAIN AfterCheckpoint : AfterCheckpoint[pc] \in RunPcs
    BY DEF AfterCheckpoint, RunPcs, TryPcs, CatchPcs
  <2> QED BY <1>1, <1>a, <2>1, RunTypes DEF Checkpoint
<1>2. ASSUME NEW pc \in RunPcs, NEW outcome \in TERMINAL_JOB_STATUSES,
             runs' = [runs EXCEPT ![r].pc = pc, ![r].outcome = outcome]
      PROVE  runs' \in [Runs -> RunRow]
  BY <1>2, <1>0 DEF RunRow
<1>3. CASE WriteCancelled(r)
  <2>1. jobs' \in [Jobs -> JobRow(Messages)]
    BY <1>3, SomeTypes, UpdateTypes DEF WriteCancelled
  <2> QED BY <1>3, <1>2, <1>a, <2>1 DEF WriteCancelled, TERMINAL_JOB_STATUSES
<1>4. CASE ReadStart(r)
  BY <1>4, <1>a, RunTypes DEF ReadStart
<1>5. CASE WriteStart(r)
  <2>1. jobs' \in [Jobs -> JobRow(Messages)]
    BY <1>5, SomeTypes, UpdateTypes DEF WriteStart
  <2>2. runs' \in [Runs -> RunRow]
    <3>1. StartedRow(jobs[runs[r].job]).attempts \in Nat
      <4>1. jobs[runs[r].job] \in JobRow(Messages)
        BY <1>5 DEF WriteStart
      <4> QED BY <4>1, RowTypes, SomeTypes DEF JobRow
    <3> QED BY <1>5, <1>0, <1>a, <3>1 DEF WriteStart, RunRow
  <2> QED BY <1>5, <2>1, <2>2 DEF WriteStart
<1>6. CASE ReadSuccess(r)
  BY <1>6, <1>a, RunTypes DEF ReadSuccess
<1>7. CASE WriteSuccess(r)
  <2>1. jobs' \in [Jobs -> JobRow(Messages)]
    BY <1>7, SomeTypes, UpdateTypes DEF WriteSuccess
  <2> QED BY <1>7, <1>2, <1>a, <2>1 DEF WriteSuccess, TERMINAL_JOB_STATUSES
<1>8. CASE ReadFailure(r)
  BY <1>8, <1>a, RunTypes DEF ReadFailure
<1>9. CASE WriteFailed(r)
  <2>1. jobs' \in [Jobs -> JobRow(Messages)]
    BY <1>9, SomeTypes, UpdateTypes DEF WriteFailed
  <2> QED BY <1>9, <1>2, <1>a, <2>1 DEF WriteFailed, TERMINAL_JOB_STATUSES
<1>10. CASE WriteRetry(r)
  <2>1. jobs' \in [Jobs -> JobRow(Messages)]
    BY <1>10, SomeTypes, UpdateTypes DEF WriteRetry
  <2> QED BY <1>10, <2>1, RunTypes DEF WriteRetry
<1>11. CASE RecordMetric(r)
  <2>1. metrics' \in [Jobs -> TERMINAL_JOB_STATUSES \cup {"none"}]
    BY <1>11, MetricTypes DEF RecordMetric, RunRow
  <2> QED BY <1>11, <2>1, RunTypes DEF RecordMetric
<1>12. CASE HandlerCheckpoint(r)
  BY <1>12, <1>a, RunTypes DEF HandlerCheckpoint
<1>13. CASE HandlerReturns(r)
  BY <1>13, <1>a, RunTypes DEF HandlerReturns
<1>14. CASE HandlerThrows(r)
  BY <1>14, RunTypes DEF HandlerThrows
<1>15. CASE DbError(r)
  BY <1>15, RunTypes DEF DbError, Fault
<1>16. CASE Abort(r)
  <2>1. runs' \in [Runs -> RunRow]
    BY <1>16, <1>0 DEF Abort, RunRow
  <2>2. [msgs EXCEPT ![runs[r].message] = MessageFailed(msgs[runs[r].message])]
          \in [Messages -> MessageRow]
    BY MessageFailedTypes, ExceptTypes
  <2> QED BY <1>16, <2>1, <2>2 DEF Abort, Fault
<1> QED
  BY <1>1, <1>3, <1>4, <1>5, <1>6, <1>7, <1>8, <1>9, <1>10, <1>11, <1>12, <1>13, <1>14,
     <1>15, <1>16 DEF RunStep, HandlerEnds

LEMMA QueueTypes ==
  ASSUME TypeOK,
         \/ \E m \in Messages : Expire(m) \/ \E r \in Runs : Deliver(r, m)
         \/ \E j \in Jobs : GoStale(j)
  PROVE  TypeOK'
<1> USE DEF TypeOK
<1>1. ASSUME NEW m \in Messages, Expire(m) PROVE TypeOK'
  BY <1>1, MessageFailedTypes, ExceptTypes DEF Expire
<1>2. ASSUME NEW m \in Messages, NEW r \in Runs, Deliver(r, m) PROVE TypeOK'
  <2>1. msgs' \in [Messages -> MessageRow]
    BY <1>2 DEF Deliver, MessageRow
  <2>2. [IdleRun EXCEPT !.pc = "checkpoint1", !.job = msgs[m].job, !.message = m] \in RunRow
    BY DEF MessageRow, RunRow, IdleRun, RunPcs, TryPcs
  <2> QED BY <1>2, <2>1, <2>2 DEF Deliver
<1>3. ASSUME NEW j \in Jobs, GoStale(j) PROVE TypeOK'
  <2>1. jobs' \in [Jobs -> JobRow(Messages)]
    BY <1>3, SomeTypes, UpdateTypes DEF GoStale
  <2> QED BY <1>3, <2>1 DEF GoStale
<1> QED BY <1>1, <1>2, <1>3

LEMMA SweepTypes ==
  ASSUME TypeOK,
         SweepStep \/ StartWorker \/ StopWorker \/ WorkerExit \/ Crash
  PROVE  TypeOK'
<1> USE DEF TypeOK
<1>a. {"down", "reconcile", "reconciling", "recover", "recovering", "up", "stopping"} = Phases
  BY DEF Phases
<1>1. CASE ScanQueued
  <2>1. QueuedWithoutMessage \subseteq Jobs
    BY DEF QueuedWithoutMessage
  <2>2. [SweepAt("reconciling") EXCEPT !.todo = QueuedWithoutMessage] \in SweepRow
    BY <1>a, <2>1, SweepAtTypes DEF SweepRow
  <2> QED BY <1>1, <2>2 DEF ScanQueued
<1>2. CASE ScanStale
  <2>1. StaleJobs \subseteq Jobs
    BY DEF StaleJobs
  <2>2. sweep' \in SweepRow
    BY <1>2, <1>a, <2>1, SweepAtTypes DEF ScanStale, SweepRow
  <2> QED BY <1>2, <2>2 DEF ScanStale
<1>3. ASSUME NEW j \in Jobs, SweepSend(j) PROVE TypeOK'
  <2>1. sweep' \in SweepRow
    BY <1>3, SendTypes DEF SweepSend, SweepRow
  <2> QED BY <1>3, <2>1, SendTypes DEF SweepSend
<1>4. ASSUME NEW j \in Jobs, NEW kind \in {"enqueue_failed", "stale_failed"}, SweepFails(j, kind)
      PROVE  sweep' \in SweepRow
  <2>1. [kind |-> kind, message |-> 0] \in Patch
    BY DEF Patch
  <2> QED BY <1>4, <2>1 DEF SweepFails, SweepRow
<1>5. ASSUME NEW j \in Jobs, SweepSendFails(j) PROVE TypeOK'
  BY <1>4, <1>5, SendTypes DEF SweepSendFails, Fault
<1>6. ASSUME NEW j \in Jobs, SweepFailStale(j) PROVE TypeOK'
  BY <1>4, <1>6 DEF SweepFailStale
<1>7. CASE SweepWrite
  <2>1. sweep.message \in Messages \cup {0}
    BY DEF SweepRow
  <2>2. \A kind \in {"linked", "requeued"} : [kind |-> kind, message |-> sweep.message] \in Patch
    BY <2>1 DEF Patch
  <2>3. sweep' \in SweepRow
    BY <1>7, <2>2 DEF SweepWrite, SweepRow
  <2> QED BY <1>7, <2>3 DEF SweepWrite
<1>8. CASE SweepCommit
  <2>1. sweep' \in SweepRow
    BY <1>8, <1>a, SweepAtTypes DEF SweepCommit, AfterSweep
  <2>2. ASSUME NEW j \in Jobs
        PROVE  Patched(jobs[j], sweep.pending[j]) \in JobRow(Messages)
    <3>1. sweep.pending[j].message \in Messages \cup {0} /\ jobs[j] \in JobRow(Messages)
      BY DEF SweepRow, Patch
    <3> QED BY <3>1, RowTypes, SomeTypes DEF Patched
  <2>3. \A j \in Jobs : CommittedMetric(j) \in TERMINAL_JOB_STATUSES \cup {"none"}
    BY DEF CommittedMetric, TERMINAL_JOB_STATUSES
  <2> QED BY <1>8, <2>1, <2>2, <2>3 DEF SweepCommit
<1>9. CASE SweepRollback
  BY <1>9, <1>a, SweepAtTypes DEF SweepRollback, Fault
<1>10. CASE StartWorker \/ StopWorker
  BY <1>10, <1>a, SweepAtTypes DEF StartWorker, StopWorker, Fault
<1>11. CASE WorkerExit \/ Crash
  BY <1>11, <1>a, SweepAtTypes, IdleTypes DEF WorkerExit, Crash, Fault
<1> QED
  BY <1>1, <1>2, <1>3, <1>5, <1>6, <1>7, <1>8, <1>9, <1>10, <1>11 DEF SweepStep

-----------------------------------------------------------------------------
(* Nobody works on a job that enqueueJob has not created.                  *)

Created(j) == j \in Jobs /\ calls[j].pc # "idle"

\* Messages, runs, cancel calls and the sweeps only name created jobs, and a
\* run's message has been sent; a job that is not created has left no trace.
WorkIsOnCreatedJobs ==
  /\ \A j \in Jobs : calls[j].pc = "idle" =>
                         jobs[j] = NoRow /\ metrics[j] = "none" /\ ~returned[j]
  /\ \A m \in Messages : msgs[m].state # "unsent" => Created(msgs[m].job)
  /\ \A r \in Runs : runs[r].pc # "idle" =>
       /\ Created(runs[r].job)
       /\ runs[r].message \in Messages /\ msgs[runs[r].message].state # "unsent"
  /\ \A c \in Cancels : cancels[c].pc = "write" => Created(cancels[c].job)
  /\ \A j \in sweep.todo : Created(j)
  /\ sweep.held # NoJob => Created(sweep.held)
  /\ \A j \in Jobs : sweep.pending[j].kind # "none" => Created(j)

LEMMA InitWork == Init => WorkIsOnCreatedJobs
BY DEF Init, WorkIsOnCreatedJobs, Unsent, IdleRun, SweepAt, NoPatch

LEMMA EnqueueWork ==
  ASSUME TypeOK, WorkIsOnCreatedJobs, NEW j \in Jobs,
         CreateJob(j) \/ EnqueueStep(j) \/ EnqueueSendFails(j) \/ EnqueueLost(j)
  PROVE  WorkIsOnCreatedJobs'
<1> USE DEF TypeOK, Created
<1>1. CASE CreateJob(j)
  BY <1>1 DEF WorkIsOnCreatedJobs, CreateJob
<1>2. CASE EnqueueSend(j)
  BY <1>2 DEF WorkIsOnCreatedJobs, EnqueueSend, Send
<1>3. CASE EnqueueSendFails(j)
  BY <1>3 DEF WorkIsOnCreatedJobs, EnqueueSendFails, Send
<1>4. CASE EnqueueLink(j)
  BY <1>4 DEF WorkIsOnCreatedJobs, EnqueueLink, Update
<1>5. CASE EnqueueMarkFailed(j)
  BY <1>5 DEF WorkIsOnCreatedJobs, EnqueueMarkFailed, Update
<1>6. CASE EnqueueRecordMetric(j)
  BY <1>6 DEF WorkIsOnCreatedJobs, EnqueueRecordMetric, recordJobMetric
<1>7. CASE EnqueueLost(j)
  BY <1>7 DEF WorkIsOnCreatedJobs, EnqueueLost
<1> QED BY <1>1, <1>2, <1>3, <1>4, <1>5, <1>6, <1>7 DEF EnqueueStep

LEMMA CancelWork ==
  ASSUME TypeOK, WorkIsOnCreatedJobs, NEW c \in Cancels,
         CancelWrite(c) \/ \E j \in Jobs : CancelRead(c, j)
  PROVE  WorkIsOnCreatedJobs'
<1> USE DEF TypeOK, Created
<1>1. CASE CancelWrite(c)
  BY <1>1 DEF WorkIsOnCreatedJobs, CancelWrite, Update
<1>2. ASSUME NEW j \in Jobs, CancelRead(c, j) PROVE WorkIsOnCreatedJobs'
  <2>1. calls[j].pc # "idle"
    BY <1>2 DEF WorkIsOnCreatedJobs, CancelRead, NoRow
  <2> QED BY <1>2, <2>1 DEF WorkIsOnCreatedJobs, CancelRead
<1> QED BY <1>1, <1>2

LEMMA MessageFailedKeeps ==
  ASSUME TypeOK, NEW m \in Messages
  PROVE  MessageFailed(msgs[m]).job = msgs[m].job /\ MessageFailed(msgs[m]).state # "unsent"
BY DEF TypeOK, MessageFailed, MessageRow

\* What a step of a run may touch: its own row, its own message, its own job.
RunTouches(r) ==
  /\ runs[r].pc # "idle"
  /\ \A q \in Runs : \/ runs'[q] = runs[q]
                     \/ runs'[q].pc = "idle"
                     \/ q = r /\ runs'[q].job = runs[q].job /\ runs'[q].message = runs[q].message
  /\ \A m \in Messages : \/ msgs'[m] = msgs[m]
                         \/ /\ m = runs[r].message /\ msgs'[m].job = msgs[m].job
                            /\ msgs'[m].state # "unsent"
  /\ \A j \in Jobs : j # runs[r].job =>
       jobs'[j] = jobs[j] /\ metrics'[j] = metrics[j] /\ returned'[j] = returned[j]
  /\ UNCHANGED <<sent, calls, cancels, sweep>>

LEMMA RunStepTouches ==
  ASSUME TypeOK, NEW r \in Runs,
         RunStep(r) \/ HandlerCheckpoint(r) \/ HandlerEnds(r) \/ DbError(r) \/ Abort(r)
  PROVE  RunTouches(r)
<1> USE DEF TypeOK, RunTouches
<1>a. \A pc : Goto(r, pc) => \A q \in Runs :
        runs'[q] = runs[q] \/ (q = r /\ runs'[q].job = runs[q].job /\ runs'[q].message = runs[q].message)
  BY DEF Goto, RunRow
<1>b. Resolve(r) \/ Reject(r) =>
        /\ \A q \in Runs : runs'[q] = runs[q] \/ runs'[q].pc = "idle"
        /\ \A m \in Messages : \/ msgs'[m] = msgs[m]
                               \/ /\ m = runs[r].message /\ msgs'[m].job = msgs[m].job
                                  /\ msgs'[m].state # "unsent"
  <2>1. Resolve(r) \/ Reject(r) => \A q \in Runs : runs'[q] = runs[q] \/ runs'[q].pc = "idle"
    BY DEF Resolve, Reject, IdleRun
  <2>3. ASSUME Resolve(r) \/ Reject(r), NEW m \in Messages
        PROVE  \/ msgs'[m] = msgs[m]
               \/ /\ m = runs[r].message /\ msgs'[m].job = msgs[m].job
                  /\ msgs'[m].state # "unsent"
    <3>1. CASE Resolve(r)
      BY <3>1 DEF Resolve, MessageRow
    <3>2. CASE Reject(r)
      BY <3>2, MessageFailedKeeps DEF Reject
    <3> QED BY <2>3, <3>1, <3>2
  <2> QED BY <2>1, <2>3
<1>c. Caught(r) => Reject(r) \/ (Goto(r, "catchCheckpoint") /\ UNCHANGED msgs)
  BY DEF Caught
<1>1. CASE Checkpoint(r)
  <2>1. runs[r].pc # "idle"
    BY <1>1 DEF Checkpoint, AfterCheckpoint
  <2> QED BY <1>1, <2>1, <1>a, <1>b DEF Checkpoint
<1>2. CASE WriteCancelled(r)
  BY <1>2, <1>a, <1>b, <1>c DEF WriteCancelled, Update
<1>3. CASE ReadStart(r)
  BY <1>3, <1>a, <1>b, <1>c DEF ReadStart
<1>4. CASE WriteStart(r)
  BY <1>4, <1>a, <1>b, <1>c DEF WriteStart, Update
<1>5. CASE ReadSuccess(r)
  BY <1>5, <1>a, <1>b, <1>c DEF ReadSuccess
<1>6. CASE WriteSuccess(r)
  BY <1>6, <1>a, <1>b, <1>c DEF WriteSuccess, Update
<1>7. CASE ReadFailure(r)
  BY <1>7, <1>a, <1>b, <1>c DEF ReadFailure
<1>8. CASE WriteFailed(r)
  BY <1>8, <1>a, <1>b, <1>c DEF WriteFailed, Update
<1>9. CASE WriteRetry(r)
  BY <1>9, <1>a, <1>b, <1>c DEF WriteRetry, Update
<1>10. CASE RecordMetric(r)
  BY <1>10, <1>a, <1>b, <1>c DEF RecordMetric, recordJobMetric
<1>11. CASE HandlerCheckpoint(r)
  BY <1>11, <1>a, <1>b, <1>c DEF HandlerCheckpoint
<1>12. CASE HandlerReturns(r)
  BY <1>12, <1>a, <1>b, <1>c DEF HandlerReturns
<1>13. CASE HandlerThrows(r)
  BY <1>13, <1>a, <1>b, <1>c DEF HandlerThrows
<1>14. CASE DbError(r)
  <2>1. runs[r].pc # "idle"
    BY <1>14 DEF DbError, TryPcs, CatchPcs
  <2> QED BY <1>14, <2>1, <1>a, <1>b, <1>c DEF DbError
<1>15. CASE Abort(r)
  <2>2. \A q \in Runs : \/ runs'[q] = runs[q]
                        \/ q = r /\ runs'[q].job = runs[q].job /\ runs'[q].message = runs[q].message
    BY <1>15 DEF Abort, RunRow
  <2> QED BY <1>15, <2>2, MessageFailedKeeps DEF Abort
<1> QED
  BY <1>1, <1>2, <1>3, <1>4, <1>5, <1>6, <1>7, <1>8, <1>9, <1>10, <1>11, <1>12, <1>13, <1>14,
     <1>15 DEF RunStep, HandlerEnds

LEMMA RunWork ==
  ASSUME TypeOK, WorkIsOnCreatedJobs, NEW r \in Runs, RunTouches(r)
  PROVE  WorkIsOnCreatedJobs'
BY DEF TypeOK, Created, WorkIsOnCreatedJobs, RunTouches

LEMMA QueueWork ==
  ASSUME TypeOK, WorkIsOnCreatedJobs,
         \/ \E m \in Messages : Expire(m) \/ \E r \in Runs : Deliver(r, m)
         \/ \E j \in Jobs : GoStale(j)
  PROVE  WorkIsOnCreatedJobs'
<1> USE DEF TypeOK, Created
<1>1. ASSUME NEW m \in Messages, Expire(m) PROVE WorkIsOnCreatedJobs'
  BY <1>1, MessageFailedKeeps DEF WorkIsOnCreatedJobs, Expire
<1>2. ASSUME NEW m \in Messages, NEW r \in Runs, Deliver(r, m) PROVE WorkIsOnCreatedJobs'
  <2>1. /\ runs'[r].job = msgs[m].job /\ runs'[r].message = m
        /\ \A q \in Runs : q # r => runs'[q] = runs[q]
    BY <1>2 DEF Deliver, IdleRun
  <2>2. /\ msgs'[m].job = msgs[m].job /\ msgs'[m].state = "active"
        /\ \A n \in Messages : n # m => msgs'[n] = msgs[n]
    BY <1>2 DEF Deliver, MessageRow
  <2>3. /\ msgs[m].state # "unsent"
        /\ UNCHANGED <<jobs, metrics, calls, cancels, sweep, returned>>
    BY <1>2 DEF Deliver
  <2>4. \A n \in Messages : msgs'[n].state # "unsent" => Created(msgs'[n].job)
    BY <2>2, <2>3 DEF WorkIsOnCreatedJobs
  <2>5. \A q \in Runs : runs'[q].pc # "idle" =>
          /\ Created(runs'[q].job)
          /\ runs'[q].message \in Messages /\ msgs'[runs'[q].message].state # "unsent"
    BY <2>1, <2>2, <2>3 DEF WorkIsOnCreatedJobs
  <2> QED BY <2>3, <2>4, <2>5 DEF WorkIsOnCreatedJobs
<1>3. ASSUME NEW j \in Jobs, GoStale(j) PROVE WorkIsOnCreatedJobs'
  <2>1. calls[j].pc # "idle"
    BY <1>3 DEF WorkIsOnCreatedJobs, GoStale, NoRow
  <2> QED BY <1>3, <2>1 DEF WorkIsOnCreatedJobs, GoStale, Update
<1> QED BY <1>1, <1>2, <1>3

LEMMA SweepWork ==
  ASSUME TypeOK, WorkIsOnCreatedJobs,
         SweepStep \/ StartWorker \/ StopWorker \/ WorkerExit \/ Crash
  PROVE  WorkIsOnCreatedJobs'
<1> USE DEF TypeOK, Created
<1>0. \A phase : SweepAt(phase).todo = {} /\ SweepAt(phase).held = NoJob
                /\ \A j \in Jobs : SweepAt(phase).pending[j].kind = "none"
  BY DEF SweepAt, NoPatch
<1>1. CASE ScanQueued
  <2>1. /\ sweep'.todo = QueuedWithoutMessage /\ sweep'.held = NoJob
        /\ \A j \in Jobs : sweep'.pending[j].kind = "none"
    BY <1>1 DEF ScanQueued, SweepAt, NoPatch
  <2>2. \A j \in QueuedWithoutMessage : Created(j)
    BY DEF QueuedWithoutMessage, WorkIsOnCreatedJobs, NoRow
  <2> QED BY <1>1, <2>1, <2>2 DEF ScanQueued, WorkIsOnCreatedJobs
<1>2. CASE ScanStale
  <2>1. /\ sweep'.todo = StaleJobs /\ sweep'.held = NoJob
        /\ \A j \in Jobs : sweep'.pending[j].kind = "none"
    BY <1>2 DEF ScanStale, SweepAt, NoPatch
  <2>2. \A j \in StaleJobs : Created(j)
    BY DEF StaleJobs, WorkIsOnCreatedJobs, NoRow
  <2> QED BY <1>2, <2>1, <2>2 DEF ScanStale, WorkIsOnCreatedJobs
<1>3. ASSUME NEW j \in Jobs, SweepSend(j) PROVE WorkIsOnCreatedJobs'
  <2>1. /\ sweep'.todo = sweep.todo \ {j} /\ sweep'.held = j
        /\ sweep'.pending = sweep.pending
    BY <1>3 DEF SweepSend, SweepRow
  <2> QED BY <1>3, <2>1 DEF SweepSend, Send, WorkIsOnCreatedJobs
<1>4. ASSUME NEW j \in sweep.todo, NEW kind, SweepFails(j, kind)
      PROVE  /\ sweep'.todo = sweep.todo \ {j} /\ sweep'.held = sweep.held
             /\ \A i \in Jobs : i # j => sweep'.pending[i] = sweep.pending[i]
  BY <1>4 DEF SweepFails, SweepRow
<1>5. ASSUME NEW j \in Jobs, SweepSendFails(j) PROVE WorkIsOnCreatedJobs'
  BY <1>4, <1>5 DEF SweepSendFails, Send, WorkIsOnCreatedJobs
<1>6. ASSUME NEW j \in Jobs, SweepFailStale(j) PROVE WorkIsOnCreatedJobs'
  BY <1>4, <1>6 DEF SweepFailStale, WorkIsOnCreatedJobs
<1>7. CASE SweepWrite
  <2>1. /\ sweep'.todo = sweep.todo /\ sweep'.held = NoJob
        /\ \A i \in Jobs : i # sweep.held => sweep'.pending[i] = sweep.pending[i]
    BY <1>7 DEF SweepWrite, SweepRow
  <2> QED BY <1>7, <2>1 DEF SweepWrite, WorkIsOnCreatedJobs
<1>8. CASE SweepCommit
  <2>1. ASSUME NEW j \in Jobs, calls[j].pc = "idle"
        PROVE  Patched(jobs[j], sweep.pending[j]) = jobs[j] /\ CommittedMetric(j) = metrics[j]
    BY <2>1 DEF Patched, CommittedMetric, WorkIsOnCreatedJobs
  <2> QED BY <1>8, <1>0, <2>1 DEF SweepCommit, WorkIsOnCreatedJobs
<1>9. CASE SweepRollback
  BY <1>9, <1>0 DEF SweepRollback, WorkIsOnCreatedJobs
<1>10. CASE StartWorker \/ StopWorker
  BY <1>10, <1>0 DEF StartWorker, StopWorker, WorkIsOnCreatedJobs
<1>11. CASE WorkerExit \/ Crash
  BY <1>11, <1>0 DEF WorkerExit, Crash, IdleRun, WorkIsOnCreatedJobs
<1> QED
  BY <1>1, <1>2, <1>3, <1>5, <1>6, <1>7, <1>8, <1>9, <1>10, <1>11 DEF SweepStep

-----------------------------------------------------------------------------
(* Theorems.                                                               *)

\* Every step is one of an enqueue call, a cancel call, a run, pg-boss and the
\* clock, or the worker process.
LEMMA StepCases ==
  ASSUME [Next]_vars
  PROVE  \/ \E j \in Jobs : CreateJob(j) \/ EnqueueStep(j) \/ EnqueueSendFails(j) \/ EnqueueLost(j)
         \/ \E c \in Cancels : CancelWrite(c) \/ \E j \in Jobs : CancelRead(c, j)
         \/ \E r \in Runs : RunStep(r) \/ HandlerCheckpoint(r) \/ HandlerEnds(r)
                              \/ DbError(r) \/ Abort(r)
         \/ \/ \E m \in Messages : Expire(m) \/ \E r \in Runs : Deliver(r, m)
            \/ \E j \in Jobs : GoStale(j)
         \/ SweepStep \/ StartWorker \/ StopWorker \/ WorkerExit \/ Crash
         \/ UNCHANGED vars
BY DEF Next

LEMMA TypeStep == TypeOK /\ WorkIsOnCreatedJobs /\ [Next]_vars => TypeOK' /\ WorkIsOnCreatedJobs'
<1> SUFFICES ASSUME TypeOK, WorkIsOnCreatedJobs, [Next]_vars
             PROVE  TypeOK' /\ WorkIsOnCreatedJobs'
  OBVIOUS
<1>1. CASE UNCHANGED vars
  BY <1>1 DEF vars, TypeOK, WorkIsOnCreatedJobs, Created
<1>2. ASSUME NEW r \in Runs, RunStep(r) \/ HandlerCheckpoint(r) \/ HandlerEnds(r) \/ DbError(r)
                             \/ Abort(r)
      PROVE  TypeOK' /\ WorkIsOnCreatedJobs'
  <2>1. runs[r].pc # "idle" => runs[r].job \in Jobs
    BY DEF WorkIsOnCreatedJobs, Created
  <2> QED BY <1>2, <2>1, RunStepTypes, RunStepTouches, RunWork
<1> QED
  BY <1>1, <1>2, StepCases, EnqueueTypes, EnqueueWork, CancelTypes, CancelWork, QueueTypes,
     QueueWork, SweepTypes, SweepWork

\* Every value the program stores is of its type, and only created jobs are
\* worked on: the typing of the attempt counter depends on it.
THEOREM TypeCorrect == Spec => []TypeOK
<1>1. Init => TypeOK /\ WorkIsOnCreatedJobs
  BY InitTypes, InitWork
<1> QED BY <1>1, TypeStep, PTL DEF Spec

-----------------------------------------------------------------------------
(* Evidence.  Rows only gain evidence, so what a run, an enqueue call or a *)
(* sweep has seen of a row still holds when it writes, whoever wrote to    *)
(* the row in between.  That is why late unconditional writes, which may   *)
(* overwrite a status, cannot make a status or a metric unjustified.       *)

Keeps(row, new) ==
  /\ row.cancelRequestedAt => new.cancelRequestedAt
  /\ row.completedAt => new.completedAt
  /\ row.errorCode # "null" => new.errorCode # "null"
  /\ row.status # "NONE" => new.status # "NONE"

Grows ==
  \A j \in Jobs : /\ Keeps(jobs[j], jobs'[j])
                  /\ returned[j] => returned'[j]
                  /\ metrics[j] # "none" => metrics'[j] = metrics[j]

\* The row shows a status it has the evidence for.
RowJustified(row, hasReturned) ==
  /\ row.status \in {"CANCEL_REQUESTED", "CANCELLED"} => row.cancelRequestedAt
  /\ isTerminalJobStatus(row.status) => row.completedAt
  /\ row.status = "FAILED" => row.errorCode # "null"
  /\ row.status = "SUCCEEDED" => hasReturned

\* The row has the evidence for recording an outcome.
OutcomeJustified(row, hasReturned, outcome) ==
  outcome # "none" => /\ row.completedAt
                      /\ outcome = "CANCELLED" => row.cancelRequestedAt
                      /\ outcome = "FAILED" => row.errorCode # "null"
                      /\ outcome = "SUCCEEDED" => hasReturned

JobsJustified ==
  \A j \in Jobs : /\ RowJustified(jobs[j], returned[j])
                  /\ OutcomeJustified(jobs[j], returned[j], metrics[j])

\* What a run knows of its job when it is about to write or to record.
RunKnows(run) ==
  /\ run.pc \in {"writeCancelled", "catchWriteCancelled"} => jobs[run.job].cancelRequestedAt
  /\ run.pc \in {"checkpoint3", "readSuccess", "writeSuccess"} => returned[run.job]
  /\ run.pc = "recordMetric" => OutcomeJustified(jobs[run.job], returned[run.job], run.outcome)

RunsKnow == \A r \in Runs : RunKnows(runs[r])

CallsKnow == \A j \in Jobs : calls[j].pc = "recordMetric" =>
                               OutcomeJustified(jobs[j], returned[j], "FAILED")

\* A sweep's transaction that can still commit inserts no second metric.
FailKinds == {"enqueue_failed", "stale_failed"}
SweepKnows == ~sweep.poisoned => \A j \in Jobs : sweep.pending[j].kind \in FailKinds =>
                                                 metrics[j] = "none"

EvidenceInv == JobsJustified /\ RunsKnow /\ CallsKnow /\ SweepKnows

\* Every update of job.service.ts keeps the evidence of the row.
LEMMA RowKeeps ==
  ASSUME NEW row \in JobRow(Messages), NEW m, NEW code \in ErrorCodes
  PROVE  /\ Keeps(row, StartedRow(row)) /\ StartedRow(row).status = "RUNNING"
         /\ Keeps(row, RetryPendingRow(row)) /\ RetryPendingRow(row).status = "RUNNING"
         /\ Keeps(row, RequeuedRow(row, m)) /\ RequeuedRow(row, m).status = "QUEUED"
         /\ Keeps(row, CancelRequestedRow(row))
         /\ CancelRequestedRow(row).status = "CANCEL_REQUESTED"
         /\ CancelRequestedRow(row).cancelRequestedAt
<1> USE DEF JobRow, Keeps
<1>1. Keeps(row, StartedRow(row)) /\ StartedRow(row).status = "RUNNING"
  BY DEF StartedRow
<1>2. Keeps(row, RetryPendingRow(row)) /\ RetryPendingRow(row).status = "RUNNING"
  BY DEF RetryPendingRow
<1>3. Keeps(row, RequeuedRow(row, m)) /\ RequeuedRow(row, m).status = "QUEUED"
  BY DEF RequeuedRow
<1>4. /\ Keeps(row, CancelRequestedRow(row))
      /\ CancelRequestedRow(row).status = "CANCEL_REQUESTED"
      /\ CancelRequestedRow(row).cancelRequestedAt
  BY DEF CancelRequestedRow
<1> QED BY <1>1, <1>2, <1>3, <1>4

LEMMA EndedRowKeeps ==
  ASSUME NEW row \in JobRow(Messages), NEW code \in ErrorCodes
  PROVE  /\ Keeps(row, CancelledRow(row))
         /\ CancelledRow(row).status = "CANCELLED" /\ CancelledRow(row).completedAt
         /\ Keeps(row, SucceededRow(row))
         /\ SucceededRow(row).status = "SUCCEEDED" /\ SucceededRow(row).completedAt
         /\ Keeps(row, FailedRow(row, code))
         /\ FailedRow(row, code).status = "FAILED" /\ FailedRow(row, code).completedAt
         /\ FailedRow(row, code).errorCode # "null"
<1> USE DEF JobRow, Keeps
<1>1. /\ Keeps(row, CancelledRow(row))
      /\ CancelledRow(row).status = "CANCELLED" /\ CancelledRow(row).completedAt
  BY DEF CancelledRow
<1>2. /\ Keeps(row, SucceededRow(row))
      /\ SucceededRow(row).status = "SUCCEEDED" /\ SucceededRow(row).completedAt
  BY DEF SucceededRow
<1>3. /\ Keeps(row, FailedRow(row, code))
      /\ FailedRow(row, code).status = "FAILED" /\ FailedRow(row, code).completedAt
      /\ FailedRow(row, code).errorCode # "null"
  BY DEF FailedRow, ErrorCodes
<1> QED BY <1>1, <1>2, <1>3

\* Updates that leave status and evidence as they are.
LEMMA SameRowKeeps ==
  ASSUME NEW row \in JobRow(Messages), NEW m, NEW hasReturned, RowJustified(row, hasReturned)
  PROVE  /\ Keeps(row, LinkedRow(row, m)) /\ RowJustified(LinkedRow(row, m), hasReturned)
         /\ Keeps(row, [row EXCEPT !.fresh = FALSE])
         /\ RowJustified([row EXCEPT !.fresh = FALSE], hasReturned)
<1> USE DEF JobRow, Keeps, RowJustified
<1>1. Keeps(row, LinkedRow(row, m)) /\ RowJustified(LinkedRow(row, m), hasReturned)
  BY DEF LinkedRow
<1>2. /\ Keeps(row, [row EXCEPT !.fresh = FALSE])
      /\ RowJustified([row EXCEPT !.fresh = FALSE], hasReturned)
  OBVIOUS
<1> QED BY <1>1, <1>2

LEMMA InitEvidence == Init => EvidenceInv
BY DEF Init, EvidenceInv, JobsJustified, RowJustified, OutcomeJustified, RunsKnow, RunKnows,
   CallsKnow, SweepKnows, FailKinds, NoRow, IdleRun, SweepAt, NoPatch, isTerminalJobStatus,
   TERMINAL_JOB_STATUSES

LEMMA OutcomeGrows ==
  ASSUME NEW row, NEW new, Keeps(row, new), NEW before, NEW after, before => after,
         NEW outcome, OutcomeJustified(row, before, outcome)
  PROVE  OutcomeJustified(new, after, outcome)
BY DEF Keeps, OutcomeJustified

\* What a step has to show: it only adds evidence, and whatever it writes,
\* records or begins to know is justified.
LEMMA EvidenceStays ==
  ASSUME WorkIsOnCreatedJobs, EvidenceInv, Grows,
         \A j \in Jobs : jobs'[j] # jobs[j] => RowJustified(jobs'[j], returned'[j]),
         \A j \in Jobs : metrics'[j] # metrics[j] =>
                           OutcomeJustified(jobs'[j], returned'[j], metrics'[j]),
         \A r \in Runs : runs'[r] = runs[r] \/ runs'[r].pc = "idle" \/ RunKnows(runs[r])',
         \A j \in Jobs : \/ calls'[j] = calls[j] \/ calls'[j].pc # "recordMetric"
                         \/ OutcomeJustified(jobs'[j], returned'[j], "FAILED"),
         SweepKnows'
  PROVE  EvidenceInv'
<1>1. JobsJustified'
  <2>1. ASSUME NEW j \in Jobs PROVE RowJustified(jobs'[j], returned'[j])
    <3>1. CASE jobs'[j] = jobs[j]
      BY <3>1 DEF EvidenceInv, JobsJustified, RowJustified, Grows
    <3> QED BY <3>1
  <2>2. ASSUME NEW j \in Jobs PROVE OutcomeJustified(jobs'[j], returned'[j], metrics'[j])
    <3>1. CASE metrics'[j] = metrics[j]
      BY <3>1, OutcomeGrows DEF EvidenceInv, JobsJustified, Grows
    <3> QED BY <3>1
  <2> QED BY <2>1, <2>2 DEF JobsJustified
<1>2. RunsKnow'
  <2>1. ASSUME NEW r \in Runs PROVE RunKnows(runs[r])'
    <3>1. CASE runs'[r] = runs[r] /\ runs[r].pc # "idle"
      <4>1. runs[r].job \in Jobs
        BY <3>1 DEF WorkIsOnCreatedJobs, Created
      <4>2. /\ Keeps(jobs[runs[r].job], jobs'[runs[r].job])
            /\ returned[runs[r].job] => returned'[runs[r].job]
        BY <4>1 DEF Grows
      <4>3. RunKnows(runs[r])
        BY DEF EvidenceInv, RunsKnow
      <4>4. runs[r].pc = "recordMetric" =>
              OutcomeJustified(jobs'[runs[r].job], returned'[runs[r].job], runs[r].outcome)
        BY <4>2, <4>3 DEF RunKnows, Keeps, OutcomeJustified
      <4> QED BY <3>1, <4>2, <4>3, <4>4 DEF RunKnows, Keeps
    <3>2. CASE runs'[r].pc = "idle"
      BY <3>2 DEF RunKnows
    <3> QED BY <3>1, <3>2
  <2> QED BY <2>1 DEF RunsKnow
<1>3. CallsKnow'
  <2>1. ASSUME NEW j \in Jobs, calls'[j].pc = "recordMetric"
        PROVE  OutcomeJustified(jobs'[j], returned'[j], "FAILED")
    <3>1. CASE calls'[j] = calls[j]
      BY <2>1, <3>1, OutcomeGrows DEF EvidenceInv, CallsKnow, Grows
    <3> QED BY <2>1, <3>1
  <2> QED BY <2>1 DEF CallsKnow
<1> QED BY <1>1, <1>2, <1>3 DEF EvidenceInv

LEMMA EnqueueEvidence ==
  ASSUME TypeOK, WorkIsOnCreatedJobs, EvidenceInv, NEW j \in Jobs,
         CreateJob(j) \/ EnqueueStep(j) \/ EnqueueSendFails(j) \/ EnqueueLost(j)
  PROVE  Grows /\ EvidenceInv'
<1>1. CASE CreateJob(j)
  <2>1. Grows
    BY <1>1 DEF CreateJob, TypeOK, Grows, Keeps, WorkIsOnCreatedJobs, NoRow
  <2>2. RowJustified(jobs'[j], returned'[j])
    BY <1>1 DEF CreateJob, TypeOK, RowJustified, QueuedRow, NoRow, isTerminalJobStatus,
                TERMINAL_JOB_STATUSES
  <2>3. SweepKnows'
    BY <1>1 DEF CreateJob, EvidenceInv, SweepKnows
  <2>4. calls'[j].pc # "recordMetric"
    BY <1>1 DEF CreateJob, TypeOK, CallRow
  <2> QED BY <1>1, <2>1, <2>2, <2>3, <2>4, EvidenceStays DEF CreateJob, TypeOK
<1>2. CASE EnqueueSend(j) \/ EnqueueSendFails(j) \/ EnqueueLost(j)
  <2>1. Grows
    BY <1>2 DEF EnqueueSend, EnqueueSendFails, EnqueueLost, Grows, Keeps
  <2>2. calls'[j].pc # "recordMetric" /\ \A i \in Jobs : i # j => calls'[i] = calls[i]
    BY <1>2 DEF EnqueueSend, EnqueueSendFails, EnqueueLost, TypeOK, CallRow
  <2>3. SweepKnows' /\ UNCHANGED <<jobs, metrics, returned, runs>>
    BY <1>2 DEF EnqueueSend, EnqueueSendFails, EnqueueLost, EvidenceInv, SweepKnows
  <2> QED BY <2>1, <2>2, <2>3, EvidenceStays
<1>3. CASE EnqueueLink(j)
  <2>1. /\ Keeps(jobs[j], LinkedRow(jobs[j], calls[j].message))
        /\ RowJustified(LinkedRow(jobs[j], calls[j].message), returned[j])
    BY SameRowKeeps DEF TypeOK, EvidenceInv, JobsJustified
  <2>2. Grows
    BY <1>3, <2>1 DEF EnqueueLink, Update, TypeOK, Grows, Keeps
  <2> QED BY <1>3, <2>1, <2>2, EvidenceStays DEF EnqueueLink, Update, TypeOK, EvidenceInv, SweepKnows
<1>4. CASE EnqueueMarkFailed(j)
  <2>1. jobs'[j] = FailedRow(jobs[j], "JOB_QUEUE_ENQUEUE_FAILED")
    BY <1>4 DEF EnqueueMarkFailed, Update, TypeOK
  <2>2. /\ Keeps(jobs[j], jobs'[j]) /\ jobs'[j].status = "FAILED" /\ jobs'[j].completedAt
        /\ jobs'[j].errorCode # "null"
    BY <2>1, EndedRowKeeps, SomeTypes DEF TypeOK
  <2>3. Grows
    BY <1>4, <2>2 DEF EnqueueMarkFailed, Update, TypeOK, Grows, Keeps
  <2>4. RowJustified(jobs'[j], returned'[j]) /\ OutcomeJustified(jobs'[j], returned'[j], "FAILED")
    BY <2>2 DEF RowJustified, OutcomeJustified
  <2> QED BY <1>4, <2>3, <2>4, EvidenceStays
          DEF EnqueueMarkFailed, Update, TypeOK, EvidenceInv, SweepKnows
<1>5. CASE EnqueueRecordMetric(j)
  <2>1. Grows
    BY <1>5 DEF EnqueueRecordMetric, recordJobMetric, TypeOK, Grows, Keeps
  <2>2. OutcomeJustified(jobs[j], returned[j], "FAILED")
    BY <1>5 DEF EnqueueRecordMetric, EvidenceInv, CallsKnow
  <2>3. SweepKnows'
    BY <1>5 DEF EnqueueRecordMetric, recordJobMetric, Unlocked, TypeOK, EvidenceInv, SweepKnows,
                FailKinds
  <2> QED BY <1>5, <2>1, <2>2, <2>3, EvidenceStays DEF EnqueueRecordMetric, recordJobMetric, TypeOK
<1> QED BY <1>1, <1>2, <1>3, <1>4, <1>5 DEF EnqueueStep

LEMMA CancelEvidence ==
  ASSUME TypeOK, WorkIsOnCreatedJobs, EvidenceInv, NEW c \in Cancels,
         CancelWrite(c) \/ \E j \in Jobs : CancelRead(c, j)
  PROVE  Grows /\ EvidenceInv'
<1>1. CASE CancelWrite(c)
  <2> DEFINE j == cancels[c].job
  <2>1. j \in Jobs
    BY <1>1 DEF CancelWrite, WorkIsOnCreatedJobs, Created
  <2>2. /\ jobs'[j] = CancelRequestedRow(jobs[j]) /\ \A i \in Jobs : i # j => jobs'[i] = jobs[i]
        /\ UNCHANGED <<metrics, returned, runs, calls, sweep>>
    BY <1>1, <2>1 DEF CancelWrite, Update, TypeOK
  <2>3. /\ Keeps(jobs[j], jobs'[j]) /\ jobs'[j].status = "CANCEL_REQUESTED"
        /\ jobs'[j].cancelRequestedAt
    <3>1. jobs[j] \in JobRow(Messages)
      BY <2>1 DEF TypeOK
    <3> QED BY <2>2, <3>1, RowKeeps, SomeTypes
  <2>4. Grows
    BY <2>2, <2>3 DEF Grows, Keeps
  <2>5. RowJustified(jobs'[j], returned'[j])
    BY <2>3 DEF RowJustified, isTerminalJobStatus, TERMINAL_JOB_STATUSES
  <2> QED BY <2>2, <2>4, <2>5, EvidenceStays DEF EvidenceInv, SweepKnows
<1>2. ASSUME NEW j \in Jobs, CancelRead(c, j) PROVE Grows /\ EvidenceInv'
  <2>1. UNCHANGED <<jobs, metrics, returned, runs, calls, sweep>>
    BY <1>2 DEF CancelRead
  <2>2. Grows
    BY <2>1 DEF Grows, Keeps
  <2> QED BY <2>1, <2>2, EvidenceStays DEF EvidenceInv, SweepKnows
<1> QED BY <1>1, <1>2

\* Places of a run at which it is not about to write or record anything that
\* needs evidence.
QuietPcs == {"idle", "checkpoint1", "readStart", "writeStart", "checkpoint2", "handler",
             "handlerCheckpoint", "catchCheckpoint", "readFailure", "writeFailed", "writeRetry"}

MovesQuietly(r) == \A q \in Runs : \/ runs'[q] = runs[q]
                                   \/ q = r /\ runs'[q].pc \in QuietPcs

LEMMA GotoMoves ==
  ASSUME TypeOK, NEW r \in Runs, NEW pc, Goto(r, pc)
  PROVE  /\ \A q \in Runs : q # r => runs'[q] = runs[q]
         /\ runs'[r].pc = pc /\ runs'[r].job = runs[r].job
BY DEF Goto, TypeOK, RunRow

LEMMA QuietMoves ==
  ASSUME TypeOK, NEW r \in Runs
  PROVE  /\ \A pc \in QuietPcs : Goto(r, pc) => MovesQuietly(r)
         /\ Resolve(r) \/ Reject(r) \/ Caught(r) => MovesQuietly(r)
<1>1. ASSUME NEW pc \in QuietPcs, Goto(r, pc) PROVE MovesQuietly(r)
  <2>1. /\ \A q \in Runs : q # r => runs'[q] = runs[q]
        /\ runs'[r].pc = pc
    BY <1>1, GotoMoves
  <2> QED BY <2>1 DEF MovesQuietly
<1>2. Resolve(r) \/ Reject(r) => MovesQuietly(r)
  <2>1. IdleRun.pc \in QuietPcs
    BY DEF IdleRun, QuietPcs
  <2>2. Resolve(r) \/ Reject(r) => runs' = [runs EXCEPT ![r] = IdleRun]
    BY DEF Resolve, Reject
  <2>3. ASSUME runs' = [runs EXCEPT ![r] = IdleRun] PROVE MovesQuietly(r)
    <3>1. runs'[r] = IdleRun /\ \A q \in Runs : q # r => runs'[q] = runs[q]
      BY <2>3 DEF TypeOK
    <3> QED BY <2>1, <3>1 DEF MovesQuietly
  <2> QED BY <2>2, <2>3
<1>3. Caught(r) => MovesQuietly(r)
  BY <1>1, <1>2 DEF Caught, QuietPcs
<1> QED BY <1>1, <1>2, <1>3

LEMMA QuietEvidence ==
  ASSUME WorkIsOnCreatedJobs, EvidenceInv, NEW r \in Runs, Grows,
         \A q \in Runs : \/ runs'[q] = runs[q]
                         \/ q = r /\ (runs'[q].pc \in QuietPcs \/ RunKnows(runs[r])'),
         \A j \in Jobs : jobs'[j] # jobs[j] => RowJustified(jobs'[j], returned'[j]),
         UNCHANGED <<metrics, calls, sweep>>
  PROVE  EvidenceInv'
<1>1. \A q \in Runs : runs'[q].pc \in QuietPcs => RunKnows(runs[q])'
  BY DEF RunKnows, QuietPcs
<1>2. SweepKnows'
  BY DEF EvidenceInv, SweepKnows
<1> QED BY <1>1, <1>2, EvidenceStays

\* Moving a run that knows what its next place needs.
LEMMA KnowingMoves ==
  ASSUME TypeOK, NEW r \in Runs,
         \/ /\ Goto(r, "writeCancelled") \/ Goto(r, "catchWriteCancelled")
            /\ jobs'[runs[r].job].cancelRequestedAt
         \/ /\ Goto(r, "checkpoint3") \/ Goto(r, "readSuccess") \/ Goto(r, "writeSuccess")
            /\ returned'[runs[r].job]
  PROVE  \A q \in Runs : runs'[q] = runs[q] \/ (q = r /\ RunKnows(runs[r])')
<1>1. CASE /\ Goto(r, "writeCancelled") \/ Goto(r, "catchWriteCancelled")
           /\ jobs'[runs[r].job].cancelRequestedAt
  BY <1>1, GotoMoves DEF RunKnows
<1>2. CASE /\ Goto(r, "checkpoint3") \/ Goto(r, "readSuccess") \/ Goto(r, "writeSuccess")
           /\ returned'[runs[r].job]
  BY <1>2, GotoMoves DEF RunKnows
<1> QED BY <1>1, <1>2

LEMMA ReadEvidence ==
  ASSUME TypeOK, WorkIsOnCreatedJobs, EvidenceInv, NEW r \in Runs,
         \/ Checkpoint(r) \/ ReadStart(r) \/ ReadSuccess(r) \/ ReadFailure(r)
         \/ HandlerCheckpoint(r) \/ HandlerEnds(r) \/ DbError(r) \/ Abort(r)
  PROVE  Grows /\ EvidenceInv'
<1> DEFINE j == runs[r].job
           Moves == \A q \in Runs : \/ runs'[q] = runs[q]
                                    \/ q = r /\ (runs'[q].pc \in QuietPcs \/ RunKnows(runs[r])')
<1>a. runs[r].pc # "idle" => j \in Jobs /\ RowJustified(jobs[j], returned[j])
  BY DEF WorkIsOnCreatedJobs, Created, EvidenceInv, JobsJustified
<1>b. RunKnows(runs[r])
  BY DEF EvidenceInv, RunsKnow
<1>d. ASSUME Moves, UNCHANGED <<jobs, metrics, returned, calls, sweep>>
      PROVE  Grows /\ EvidenceInv'
  <2>1. Grows
    BY <1>d DEF Grows, Keeps
  <2> QED BY <1>d, <2>1, QuietEvidence
<1>1. CASE Checkpoint(r)
  <2>1. UNCHANGED <<jobs, metrics, returned, calls, sweep>>
    BY <1>1 DEF Checkpoint
  <2>2. CASE jobs[j].status = "CANCEL_REQUESTED"
    <3>1. jobs[j].cancelRequestedAt
      BY <1>1, <1>a, <2>2 DEF Checkpoint, AfterCheckpoint, RowJustified
    <3>2. \/ Goto(r, "catchWriteCancelled") \/ Goto(r, "writeCancelled")
      BY <1>1, <2>2 DEF Checkpoint
    <3>3. Moves
      BY <2>1, <3>1, <3>2, KnowingMoves
    <3> QED BY <1>d, <2>1, <3>3
  <2>3. CASE jobs[j].status # "CANCEL_REQUESTED"
    <3>1. CASE Resolve(r)
      <4>1. Moves
        BY <3>1, QuietMoves DEF MovesQuietly
      <4> QED BY <1>d, <2>1, <4>1
    <3>2. CASE ~Resolve(r)
      <4>1. Goto(r, AfterCheckpoint[runs[r].pc])
        BY <1>1, <2>3, <3>2 DEF Checkpoint
      <4>2. CASE runs[r].pc = "checkpoint3"
        <5>1. returned[j] /\ Goto(r, "readSuccess")
          BY <1>b, <4>1, <4>2 DEF RunKnows, AfterCheckpoint
        <5>2. Moves
          BY <2>1, <5>1, KnowingMoves
        <5> QED BY <1>d, <2>1, <5>2
      <4>3. CASE runs[r].pc # "checkpoint3"
        <5>1. AfterCheckpoint[runs[r].pc] \in QuietPcs
          BY <1>1, <4>3 DEF Checkpoint, AfterCheckpoint, QuietPcs
        <5>2. Moves
          BY <4>1, <5>1, QuietMoves DEF MovesQuietly
        <5> QED BY <1>d, <2>1, <5>2
      <4> QED BY <4>2, <4>3
    <3> QED BY <3>1, <3>2
  <2> QED BY <2>2, <2>3
<1>2. CASE ReadStart(r)
  <2>1. UNCHANGED <<jobs, metrics, returned, calls, sweep>>
    BY <1>2 DEF ReadStart
  <2>2. jobs[j].status = "CANCEL_REQUESTED" => jobs[j].cancelRequestedAt
    BY <1>2, <1>a DEF ReadStart, RowJustified
  <2>3. \/ Resolve(r) \/ Goto(r, "writeStart")
        \/ Goto(r, "writeCancelled") /\ jobs[j].cancelRequestedAt
    BY <1>2, <2>2 DEF ReadStart
  <2>4. "writeStart" \in QuietPcs
    BY DEF QuietPcs
  <2>5. Moves
    BY <2>1, <2>3, <2>4, KnowingMoves, QuietMoves DEF MovesQuietly
  <2> QED BY <1>d, <2>1, <2>5
<1>3. CASE ReadSuccess(r)
  <2>1. UNCHANGED <<jobs, metrics, returned, calls, sweep>>
    BY <1>3 DEF ReadSuccess
  <2>2. returned[j]
    BY <1>3, <1>b DEF ReadSuccess, RunKnows
  <2>3. Resolve(r) \/ Caught(r) \/ Goto(r, "writeSuccess")
    BY <1>3 DEF ReadSuccess
  <2>4. Moves
    BY <2>1, <2>2, <2>3, KnowingMoves, QuietMoves DEF MovesQuietly
  <2> QED BY <1>d, <2>1, <2>4
<1>4. CASE ReadFailure(r) \/ HandlerCheckpoint(r)
  <2>1. UNCHANGED <<jobs, metrics, returned, calls, sweep>>
    BY <1>4 DEF ReadFailure, HandlerCheckpoint
  <2>2. \/ Reject(r) \/ Goto(r, "writeFailed") \/ Goto(r, "writeRetry")
        \/ Goto(r, "handlerCheckpoint")
    BY <1>4 DEF ReadFailure, HandlerCheckpoint
  <2>3. {"writeFailed", "writeRetry", "handlerCheckpoint"} \subseteq QuietPcs
    BY DEF QuietPcs
  <2>4. Moves
    BY <2>2, <2>3, QuietMoves DEF MovesQuietly
  <2> QED BY <1>d, <2>1, <2>4
<1>5. CASE HandlerReturns(r)
  <2>1. UNCHANGED <<jobs, metrics, calls, sweep>> /\ returned' = [returned EXCEPT ![j] = TRUE]
    BY <1>5 DEF HandlerReturns
  <2>2. j \in Jobs /\ returned'[j]
    BY <1>5, <1>a, <2>1 DEF HandlerReturns, TypeOK
  <2>3. Reject(r) \/ Goto(r, "checkpoint3")
    BY <1>5 DEF HandlerReturns
  <2>4. Moves
    BY <2>2, <2>3, KnowingMoves, QuietMoves DEF MovesQuietly
  <2>5. Grows
    BY <2>1 DEF TypeOK, Grows, Keeps
  <2> QED BY <2>1, <2>4, <2>5, QuietEvidence
<1>6. CASE HandlerThrows(r) \/ DbError(r)
  <2>1. UNCHANGED <<jobs, metrics, returned, calls, sweep>>
    BY <1>6 DEF HandlerThrows, DbError
  <2>2. Resolve(r) \/ Reject(r) \/ Caught(r)
    BY <1>6 DEF HandlerThrows, DbError
  <2>3. Moves
    BY <2>2, QuietMoves DEF MovesQuietly
  <2> QED BY <1>d, <2>1, <2>3
<1>7. CASE Abort(r)
  <2>1. UNCHANGED <<jobs, metrics, returned, calls, sweep>>
    BY <1>7 DEF Abort
  <2>2. /\ \A q \in Runs : q # r => runs'[q] = runs[q]
        /\ runs'[r].pc = runs[r].pc /\ runs'[r].job = j /\ runs'[r].outcome = runs[r].outcome
    BY <1>7 DEF Abort, TypeOK, RunRow
  <2>3. RunKnows(runs[r])'
    BY <1>b, <2>1, <2>2 DEF RunKnows
  <2>4. Moves
    BY <2>2, <2>3
  <2> QED BY <1>d, <2>1, <2>4
<1> QED BY <1>1, <1>2, <1>3, <1>4, <1>5, <1>6, <1>7 DEF HandlerEnds

\* Runs that write a row: before the last step of a run, and for a last time.
LEMMA ProgressEvidence ==
  ASSUME TypeOK, WorkIsOnCreatedJobs, EvidenceInv, NEW r \in Runs, WriteStart(r) \/ WriteRetry(r)
  PROVE  Grows /\ EvidenceInv'
<1> DEFINE j == runs[r].job
<1>1. j \in Jobs
  BY DEF WriteStart, WriteRetry, WorkIsOnCreatedJobs, Created
<1>2. /\ \/ jobs'[j] = StartedRow(jobs[j]) \/ jobs'[j] = RetryPendingRow(jobs[j])
      /\ \A i \in Jobs : i # j => jobs'[i] = jobs[i]
      /\ UNCHANGED <<metrics, returned, calls, sweep>>
  BY <1>1 DEF WriteStart, WriteRetry, Update, TypeOK
<1>3. Keeps(jobs[j], jobs'[j]) /\ jobs'[j].status = "RUNNING"
  <2>1. jobs[j] \in JobRow(Messages)
    BY <1>1 DEF TypeOK
  <2> QED BY <1>2, <2>1, RowKeeps, SomeTypes
<1>4. Grows
  BY <1>2, <1>3 DEF Grows, Keeps
<1>5. RowJustified(jobs'[j], returned'[j])
  BY <1>3 DEF RowJustified, isTerminalJobStatus, TERMINAL_JOB_STATUSES
<1>6. MovesQuietly(r)
  <2>1. CASE WriteStart(r)
    BY <2>1 DEF WriteStart, TypeOK, RunRow, MovesQuietly, QuietPcs
  <2>2. CASE WriteRetry(r)
    BY <2>2, QuietMoves DEF WriteRetry
  <2> QED BY <2>1, <2>2
<1> QED BY <1>2, <1>4, <1>5, <1>6, QuietEvidence DEF MovesQuietly

LEMMA FinishEvidence ==
  ASSUME TypeOK, WorkIsOnCreatedJobs, EvidenceInv, NEW r \in Runs,
         WriteCancelled(r) \/ WriteSuccess(r) \/ WriteFailed(r)
  PROVE  Grows /\ EvidenceInv'
<1> DEFINE j == runs[r].job
<1>1. j \in Jobs /\ jobs[j] \in JobRow(Messages)
  BY DEF WriteCancelled, WriteSuccess, WriteFailed, WorkIsOnCreatedJobs, Created, TypeOK
<1>2. RunKnows(runs[r])
  BY DEF EvidenceInv, RunsKnow
<1>3. /\ \A i \in Jobs : i # j => jobs'[i] = jobs[i]
      /\ UNCHANGED <<metrics, returned, calls, sweep>>
  BY <1>1 DEF WriteCancelled, WriteSuccess, WriteFailed, Update, TypeOK
<1>4. ASSUME NEW outcome, runs' = [runs EXCEPT ![r].pc = "recordMetric", ![r].outcome = outcome]
      PROVE  /\ runs'[r].pc = "recordMetric" /\ runs'[r].job = j /\ runs'[r].outcome = outcome
             /\ \A q \in Runs : q # r => runs'[q] = runs[q]
  BY <1>4 DEF TypeOK, RunRow
<1>5. /\ Keeps(jobs[j], jobs'[j]) /\ RowJustified(jobs'[j], returned'[j])
      /\ RunKnows(runs[r])' /\ \A q \in Runs : q # r => runs'[q] = runs[q]
  <2>1. CASE WriteCancelled(r)
    <3>1. jobs'[j] = CancelledRow(jobs[j]) /\ jobs[j].cancelRequestedAt
      BY <1>1, <1>2, <2>1 DEF WriteCancelled, Update, TypeOK, RunKnows
    <3>2. /\ Keeps(jobs[j], jobs'[j]) /\ jobs'[j].status = "CANCELLED"
          /\ jobs'[j].completedAt /\ jobs'[j].cancelRequestedAt
      BY <1>1, <3>1, EndedRowKeeps, SomeTypes DEF Keeps
    <3>3. RowJustified(jobs'[j], returned'[j])
      BY <3>2 DEF RowJustified
    <3>4. OutcomeJustified(jobs'[j], returned'[j], "CANCELLED")
      BY <3>2 DEF OutcomeJustified
    <3> QED BY <1>4, <2>1, <3>2, <3>3, <3>4 DEF WriteCancelled, RunKnows
  <2>2. CASE WriteSuccess(r)
    <3>1. jobs'[j] = SucceededRow(jobs[j]) /\ returned'[j]
      BY <1>1, <1>2, <2>2 DEF WriteSuccess, Update, TypeOK, RunKnows
    <3>2. /\ Keeps(jobs[j], jobs'[j]) /\ jobs'[j].status = "SUCCEEDED" /\ jobs'[j].completedAt
      BY <1>1, <3>1, EndedRowKeeps, SomeTypes
    <3>3. RowJustified(jobs'[j], returned'[j])
      BY <3>1, <3>2 DEF RowJustified
    <3>4. OutcomeJustified(jobs'[j], returned'[j], "SUCCEEDED")
      BY <3>1, <3>2 DEF OutcomeJustified
    <3> QED BY <1>4, <2>2, <3>2, <3>3, <3>4 DEF WriteSuccess, RunKnows
  <2>3. CASE WriteFailed(r)
    <3>1. jobs'[j] = FailedRow(jobs[j], "JOB_HANDLER_FAILED")
      BY <1>1, <2>3 DEF WriteFailed, Update, TypeOK
    <3>2. /\ Keeps(jobs[j], jobs'[j]) /\ jobs'[j].status = "FAILED" /\ jobs'[j].completedAt
          /\ jobs'[j].errorCode # "null"
      BY <1>1, <3>1, EndedRowKeeps, SomeTypes
    <3>3. RowJustified(jobs'[j], returned'[j])
      BY <3>2 DEF RowJustified
    <3>4. OutcomeJustified(jobs'[j], returned'[j], "FAILED")
      BY <3>2 DEF OutcomeJustified
    <3> QED BY <1>4, <2>3, <3>2, <3>3, <3>4 DEF WriteFailed, RunKnows
  <2> QED BY <2>1, <2>2, <2>3
<1>6. Grows
  BY <1>3, <1>5 DEF Grows, Keeps
<1> QED BY <1>3, <1>5, <1>6, QuietEvidence

LEMMA RecordEvidence ==
  ASSUME TypeOK, WorkIsOnCreatedJobs, EvidenceInv, NEW r \in Runs, RecordMetric(r)
  PROVE  Grows /\ EvidenceInv'
<1> DEFINE j == runs[r].job
<1>1. j \in Jobs /\ OutcomeJustified(jobs[j], returned[j], runs[r].outcome)
  BY DEF RecordMetric, WorkIsOnCreatedJobs, Created, EvidenceInv, RunsKnow, RunKnows
<1>2. /\ UNCHANGED <<jobs, returned, calls, sweep>>
      /\ \A i \in Jobs : metrics'[i] # metrics[i] =>
           i = j /\ metrics[i] = "none" /\ metrics'[i] = runs[r].outcome /\ Unlocked(j)
  BY <1>1 DEF RecordMetric, recordJobMetric, TypeOK
<1>3. Grows
  BY <1>2 DEF Grows, Keeps
<1>4. MovesQuietly(r)
  BY QuietMoves DEF RecordMetric
<1>5. \A q \in Runs : runs'[q] = runs[q] \/ RunKnows(runs[q])'
  BY <1>4 DEF MovesQuietly, RunKnows, QuietPcs
<1>6. SweepKnows'
  BY <1>2 DEF EvidenceInv, SweepKnows, Unlocked, FailKinds
<1> QED BY <1>1, <1>2, <1>3, <1>5, <1>6, EvidenceStays

LEMMA RunEvidence ==
  ASSUME TypeOK, WorkIsOnCreatedJobs, EvidenceInv, NEW r \in Runs,
         RunStep(r) \/ HandlerCheckpoint(r) \/ HandlerEnds(r) \/ DbError(r) \/ Abort(r)
  PROVE  Grows /\ EvidenceInv'
BY ReadEvidence, ProgressEvidence, FinishEvidence, RecordEvidence DEF RunStep

LEMMA QueueEvidence ==
  ASSUME TypeOK, WorkIsOnCreatedJobs, EvidenceInv,
         \/ \E m \in Messages : Expire(m) \/ \E r \in Runs : Deliver(r, m)
         \/ \E j \in Jobs : GoStale(j)
  PROVE  Grows /\ EvidenceInv'
<1>1. ASSUME NEW m \in Messages, Expire(m) PROVE Grows /\ EvidenceInv'
  <2>1. UNCHANGED <<jobs, metrics, returned, runs, calls, sweep>>
    BY <1>1 DEF Expire
  <2>2. Grows
    BY <2>1 DEF Grows, Keeps
  <2> QED BY <2>1, <2>2, EvidenceStays DEF EvidenceInv, SweepKnows
<1>2. ASSUME NEW m \in Messages, NEW r \in Runs, Deliver(r, m) PROVE Grows /\ EvidenceInv'
  <2>1. UNCHANGED <<jobs, metrics, returned, calls, sweep>>
    BY <1>2 DEF Deliver
  <2>2. Grows
    BY <2>1 DEF Grows, Keeps
  <2>3. runs'[r].pc = "checkpoint1" /\ \A q \in Runs : q # r => runs'[q] = runs[q]
    BY <1>2 DEF Deliver, TypeOK, IdleRun
  <2> QED BY <2>1, <2>2, <2>3, QuietEvidence DEF QuietPcs
<1>3. ASSUME NEW j \in Jobs, GoStale(j) PROVE Grows /\ EvidenceInv'
  <2>1. /\ Keeps(jobs[j], [jobs[j] EXCEPT !.fresh = FALSE])
        /\ RowJustified([jobs[j] EXCEPT !.fresh = FALSE], returned[j])
    BY SameRowKeeps DEF TypeOK, EvidenceInv, JobsJustified
  <2>2. /\ jobs'[j] = [jobs[j] EXCEPT !.fresh = FALSE]
        /\ \A i \in Jobs : i # j => jobs'[i] = jobs[i]
        /\ UNCHANGED <<metrics, returned, runs, calls, sweep>>
    BY <1>3 DEF GoStale, Update, TypeOK
  <2>3. Grows
    BY <2>1, <2>2 DEF Grows, Keeps
  <2> QED BY <2>1, <2>2, <2>3, EvidenceStays DEF EvidenceInv, SweepKnows
<1> QED BY <1>1, <1>2, <1>3

LEMMA CommitEvidence ==
  ASSUME TypeOK, WorkIsOnCreatedJobs, EvidenceInv, SweepCommit
  PROVE  Grows /\ EvidenceInv'
<1>1. UNCHANGED <<returned, runs, calls>> /\ SweepKnows'
  BY DEF SweepCommit, SweepKnows, SweepAt, NoPatch, FailKinds
<1>2. CASE sweep.poisoned
  <2>1. UNCHANGED <<jobs, metrics>>
    BY <1>2 DEF SweepCommit
  <2>2. Grows
    BY <1>1, <2>1 DEF Grows, Keeps
  <2> QED BY <1>1, <2>1, <2>2, EvidenceStays
<1>3. CASE ~sweep.poisoned
  <2>1. ASSUME NEW j \in Jobs
        PROVE  /\ jobs'[j] = Patched(jobs[j], sweep.pending[j])
               /\ metrics'[j] = CommittedMetric(j)
    BY <1>3 DEF SweepCommit
  <2>2. ASSUME NEW j \in Jobs
        PROVE  /\ Keeps(jobs[j], jobs'[j]) /\ RowJustified(jobs'[j], returned'[j])
               /\ metrics[j] # "none" => metrics'[j] = metrics[j]
               /\ metrics'[j] # metrics[j] => OutcomeJustified(jobs'[j], returned'[j], metrics'[j])
    <3> DEFINE p == sweep.pending[j]
    <3>0. /\ jobs[j] \in JobRow(Messages) /\ RowJustified(jobs[j], returned[j])
          /\ p.kind \in {"none", "linked", "requeued", "enqueue_failed", "stale_failed"}
      BY DEF TypeOK, SweepRow, Patch, EvidenceInv, JobsJustified
    <3>1. CASE p.kind \in FailKinds
      <4>1. PICK code \in ErrorCodes : jobs'[j] = FailedRow(jobs[j], code)
        BY <2>1, <3>1, SomeTypes DEF Patched, FailKinds
      <4>2. /\ Keeps(jobs[j], jobs'[j]) /\ jobs'[j].status = "FAILED" /\ jobs'[j].completedAt
            /\ jobs'[j].errorCode # "null"
        BY <3>0, <4>1, EndedRowKeeps
      <4>3. metrics'[j] = "FAILED" /\ metrics[j] = "none"
        BY <1>3, <2>1, <3>1 DEF CommittedMetric, FailKinds, EvidenceInv, SweepKnows
      <4> QED BY <4>2, <4>3 DEF RowJustified, OutcomeJustified
    <3>2. CASE p.kind \notin FailKinds
      <4>1. metrics'[j] = metrics[j]
        BY <2>1, <3>2 DEF CommittedMetric, FailKinds
      <4>2. CASE p.kind = "none"
        BY <1>1, <2>1, <3>0, <4>1, <4>2 DEF Patched, Keeps
      <4>3. CASE p.kind = "linked"
        <5>1. jobs'[j] = LinkedRow(jobs[j], p.message)
          BY <2>1, <4>3 DEF Patched
        <5> QED BY <1>1, <3>0, <4>1, <5>1, SameRowKeeps
      <4>4. CASE p.kind = "requeued"
        <5>1. jobs'[j] = RequeuedRow(jobs[j], p.message)
          BY <2>1, <4>4 DEF Patched
        <5>2. Keeps(jobs[j], jobs'[j]) /\ jobs'[j].status = "QUEUED"
          BY <3>0, <5>1, RowKeeps, SomeTypes
        <5> QED BY <4>1, <5>2 DEF RowJustified, isTerminalJobStatus, TERMINAL_JOB_STATUSES
      <4> QED BY <3>0, <3>2, <4>2, <4>3, <4>4 DEF FailKinds
    <3> QED BY <3>1, <3>2
  <2>3. Grows
    BY <1>1, <2>2 DEF Grows
  <2> QED BY <1>1, <2>2, <2>3, EvidenceStays
<1> QED BY <1>2, <1>3

LEMMA SweepEvidence ==
  ASSUME TypeOK, WorkIsOnCreatedJobs, EvidenceInv,
         SweepStep \/ StartWorker \/ StopWorker \/ WorkerExit \/ Crash
  PROVE  Grows /\ EvidenceInv'
<1>a. ASSUME SweepKnows', UNCHANGED <<jobs, metrics, returned, calls>>,
             \A r \in Runs : runs'[r] = runs[r] \/ runs'[r].pc = "idle"
      PROVE  Grows /\ EvidenceInv'
  <2>1. Grows
    BY <1>a DEF Grows, Keeps
  <2> QED BY <1>a, <2>1, EvidenceStays
<1>b. ASSUME NEW phase, sweep' = SweepAt(phase) PROVE SweepKnows'
  BY <1>b DEF SweepAt, NoPatch, SweepKnows, FailKinds
<1>1. CASE SweepCommit
  BY <1>1, CommitEvidence
<1>2. CASE ScanQueued \/ ScanStale
  <2>1. \A j \in Jobs : sweep'.pending[j].kind = "none"
    <3>1. CASE ScanQueued
      BY <3>1 DEF ScanQueued, SweepAt, NoPatch
    <3>2. CASE ScanStale
      BY <3>2 DEF ScanStale, SweepAt, NoPatch
    <3> QED BY <1>2, <3>1, <3>2
  <2>2. SweepKnows'
    BY <2>1 DEF SweepKnows, FailKinds
  <2> QED BY <1>2, <1>a, <2>2 DEF ScanQueued, ScanStale
<1>3. ASSUME NEW j \in Jobs, SweepSend(j) PROVE Grows /\ EvidenceInv'
  <2>1. sweep'.poisoned = sweep.poisoned /\ sweep'.pending = sweep.pending
    BY <1>3 DEF SweepSend, TypeOK, SweepRow
  <2>2. SweepKnows'
    BY <1>3, <2>1 DEF SweepSend, SweepKnows, EvidenceInv
  <2> QED BY <1>3, <1>a, <2>2 DEF SweepSend
<1>4. ASSUME NEW j \in Jobs, NEW kind, SweepFails(j, kind), ~sweep.poisoned, UNCHANGED metrics
      PROVE  SweepKnows'
  <2>1. /\ sweep'.poisoned = (sweep.poisoned \/ metrics[j] # "none")
        /\ \A i \in Jobs : i # j => sweep'.pending[i] = sweep.pending[i]
    BY <1>4 DEF SweepFails, TypeOK, SweepRow
  <2> QED BY <1>4, <2>1 DEF SweepKnows, EvidenceInv
<1>5. ASSUME NEW j \in Jobs, SweepSendFails(j) PROVE Grows /\ EvidenceInv'
  BY <1>4, <1>5, <1>a DEF SweepSendFails
<1>6. ASSUME NEW j \in Jobs, SweepFailStale(j) PROVE Grows /\ EvidenceInv'
  BY <1>4, <1>6, <1>a DEF SweepFailStale
<1>7. CASE SweepWrite
  <2>1. /\ sweep'.poisoned = sweep.poisoned
        /\ \A i \in Jobs : i # sweep.held => sweep'.pending[i] = sweep.pending[i]
        /\ sweep.held \in Jobs => sweep'.pending[sweep.held].kind \in {"linked", "requeued"}
    BY <1>7 DEF SweepWrite, TypeOK, SweepRow
  <2>2. SweepKnows'
    BY <1>7, <2>1 DEF SweepWrite, SweepKnows, FailKinds, EvidenceInv
  <2> QED BY <1>7, <1>a, <2>2 DEF SweepWrite
<1>8. CASE SweepRollback \/ StartWorker \/ StopWorker
  BY <1>8, <1>a, <1>b DEF SweepRollback, StartWorker, StopWorker
<1>9. CASE WorkerExit \/ Crash
  BY <1>9, <1>a, <1>b DEF WorkerExit, Crash, IdleRun
<1> QED BY <1>1, <1>2, <1>3, <1>5, <1>6, <1>7, <1>8, <1>9 DEF SweepStep

LEMMA EvidenceStep ==
  TypeOK /\ WorkIsOnCreatedJobs /\ EvidenceInv /\ [Next]_vars => Grows /\ EvidenceInv'
<1> SUFFICES ASSUME TypeOK, WorkIsOnCreatedJobs, EvidenceInv, [Next]_vars
             PROVE  Grows /\ EvidenceInv'
  OBVIOUS
<1>1. CASE UNCHANGED vars
  <2>1. Grows
    BY <1>1 DEF vars, Grows, Keeps
  <2> QED BY <1>1, <2>1, EvidenceStays DEF vars, EvidenceInv, SweepKnows
<1> QED
  BY <1>1, StepCases, EnqueueEvidence, CancelEvidence, RunEvidence, QueueEvidence, SweepEvidence

LEMMA EvidenceCorrect == Spec => [](TypeOK /\ WorkIsOnCreatedJobs /\ EvidenceInv)
<1>1. Init => TypeOK /\ WorkIsOnCreatedJobs /\ EvidenceInv
  BY InitTypes, InitWork, InitEvidence
<1> QED BY <1>1, TypeStep, EvidenceStep, PTL DEF Spec

\* No job is ever shown CANCELLED that nobody asked to cancel.
THEOREM CancelledOnlyOnRequest == Spec => []CancelledWasRequested
<1>1. EvidenceInv => CancelledWasRequested
  BY DEF EvidenceInv, JobsJustified, RowJustified, CancelledWasRequested
<1> QED BY <1>1, EvidenceCorrect, PTL

\* No row with a final status lacks its completion time.
THEOREM TerminalIsStamped == Spec => []TerminalHasCompletedAt
<1>1. EvidenceInv => TerminalHasCompletedAt
  BY DEF EvidenceInv, JobsJustified, RowJustified, TerminalHasCompletedAt
<1> QED BY <1>1, EvidenceCorrect, PTL

\* No failed job lacks its error code.
THEOREM FailedIsCoded == Spec => []FailedHasErrorCode
<1>1. EvidenceInv => FailedHasErrorCode
  BY DEF EvidenceInv, JobsJustified, RowJustified, FailedHasErrorCode
<1> QED BY <1>1, EvidenceCorrect, PTL

\* No job is shown SUCCEEDED whose handler never returned.
THEOREM SuccessOnlyAfterReturn == Spec => []SucceededHasReturned
<1>1. EvidenceInv => SucceededHasReturned
  BY DEF EvidenceInv, JobsJustified, RowJustified, SucceededHasReturned
<1> QED BY <1>1, EvidenceCorrect, PTL

\* Every recorded outcome is one the job had the evidence for.
THEOREM MetricsAreJustified == Spec => []MetricIsJustified
<1>1. EvidenceInv => MetricIsJustified
  BY DEF EvidenceInv, JobsJustified, OutcomeJustified, MetricIsJustified
<1> QED BY <1>1, EvidenceCorrect, PTL

\* However writers of a job overlap, its row and its metric have their grounds.
THEOREM JustifiedOutcomes == Spec => []OutcomesAreJustified
<1>1. CancelledWasRequested /\ TerminalHasCompletedAt /\ FailedHasErrorCode
        /\ SucceededHasReturned /\ MetricIsJustified => OutcomesAreJustified
  BY DEF OutcomesAreJustified
<1> QED
  BY <1>1, CancelledOnlyOnRequest, TerminalIsStamped, FailedIsCoded, SuccessOnlyAfterReturn,
     MetricsAreJustified, PTL

\* The job system implements JobEvidence: through every race and every fault
\* evidence is only added, and statuses and outcomes carry theirs.
THEOREM ImplementsEvidence == Spec => KeepsEvidence
<1> DEFINE e(j) == [status |-> jobs[j].status, requested |-> jobs[j].cancelRequestedAt,
                    returned |-> returned[j], finished |-> jobs[j].completedAt,
                    coded |-> jobs[j].errorCode # "null", outcome |-> metrics[j]]
           evidence == [j \in Jobs |-> e(j)]
<1>1. Init => Evidence!Init
  <2>1. ASSUME Init, NEW j \in Jobs PROVE e(j) = Evidence!Nothing
    BY <2>1 DEF Init, Evidence!Nothing, NoRow
  <2> QED BY <2>1 DEF Evidence!Init
<1>2. ASSUME TypeOK, TypeOK', EvidenceInv', Grows PROVE Evidence!Next
  <2>1. ASSUME NEW j \in Jobs PROVE evidence'[j] \in Evidence!Row
    BY <1>2 DEF TypeOK, JobRow, Evidence!Row, Evidence!JobStatus, JobStatus,
                Evidence!TERMINAL_JOB_STATUSES, TERMINAL_JOB_STATUSES
  <2>2. ASSUME NEW j \in Jobs PROVE Evidence!Learns(evidence[j], evidence'[j])
    <3>1. /\ Evidence!Justified(evidence'[j], jobs'[j].status)
          /\ Evidence!Justified(evidence'[j], metrics'[j])
      BY <1>2 DEF EvidenceInv, JobsJustified, RowJustified, OutcomeJustified,
                  Evidence!Justified, Evidence!isTerminalJobStatus,
                  Evidence!TERMINAL_JOB_STATUSES, isTerminalJobStatus, TERMINAL_JOB_STATUSES
    <3> QED BY <1>2, <3>1 DEF Grows, Keeps, Evidence!Learns
  <2>3. evidence' \in [Jobs -> Evidence!Row]
    BY <2>1
  <2> QED BY <2>2, <2>3 DEF Evidence!Next
<1>3. TypeOK /\ WorkIsOnCreatedJobs /\ EvidenceInv /\ [Next]_vars => [Evidence!Next]_evidence
  BY <1>2, TypeStep, EvidenceStep
<1> QED BY <1>1, <1>3, EvidenceCorrect, PTL DEF Spec, KeepsEvidence, Evidence!Spec

-----------------------------------------------------------------------------
(* The books.  Two parties keep each of them of one job, and they agree:   *)
(* the attempts counted in the row and the retries counted by pg-boss, the *)
(* message the row names and the job that message was sent for, the code   *)
(* of a stale failure and its metric.                                      *)

\* Message m was sent for job j.
Owns(j, m) == m \in Messages /\ msgs[m].job = j

\* How often pg-boss has handed out a message.
Counted(msg) == msg.retryCount + (IF msg.state = "created" THEN 0 ELSE 1)

Delivered(j, m) == IF Owns(j, m) THEN Counted(msgs[m]) ELSE 0

\* Runs that were handed a message of the job and have not yet counted their attempt.
StartPcs == {"checkpoint1", "readStart", "writeStart"}

Starting(j) == {r \in Runs : runs[r].job = j /\ runs[r].pc \in StartPcs}

\* What has been sent belongs to a job and is retried within the job's limit.
MessagesAreSent ==
  \A m \in Messages :
    IF m <= sent
    THEN msgs[m].job \in Jobs /\ msgs[m].retryCount <= retryLimit(msgs[m].job)
    ELSE msgs[m] = Unsent

\* Every link to a message, written or on its way, is to a message of the job.
LinkKinds == {"linked", "requeued"}

RowLinks == \A j \in Jobs : jobs[j].queueMessageId # 0 => Owns(j, jobs[j].queueMessageId)
CallLinks == \A j \in Jobs : calls[j].pc = "link" => Owns(j, calls[j].message)
HeldLinks == sweep.held # NoJob => Owns(sweep.held, sweep.message)
PendingLinks ==
  \A j \in Jobs : sweep.pending[j].kind \in LinkKinds => Owns(j, sweep.pending[j].message)

LinksAreOwn == RowLinks /\ CallLinks /\ HeldLinks /\ PendingLinks

\* A job with at most one message has counted no attempt, and will count none in
\* the runs under way, that was not a delivery of this message.
AttemptsAreDelivered(j) ==
  /\ IsFiniteSet(Starting(j))
  /\ \A m \in Messages \cup {0} : MessagesOf(j) \subseteq {m} =>
       jobs[j].attempts + Cardinality(Starting(j)) <= Delivered(j, m)

BooksInv ==
  /\ MessagesAreSent /\ LinksAreOwn /\ StaleFailureIsMeasured
  /\ \A j \in Jobs : AttemptsAreDelivered(j)

-----------------------------------------------------------------------------
(* What every step keeps.                                                  *)

\* A message that is known stays the job's and is handed out no less often.
MessagesGrow ==
  \A m \in Messages : msgs[m].job \in Jobs =>
    msgs'[m].job = msgs[m].job /\ Counted(msgs[m]) <= Counted(msgs'[m])

\* What pg-boss does to a message that was sent.
Advances(old, new) ==
  /\ new.job = old.job /\ Counted(old) <= Counted(new)
  /\ old.retryCount <= retryLimit(old.job) => new.retryCount <= retryLimit(old.job)

MessagesAdvance ==
  /\ UNCHANGED sent
  /\ \A m \in Messages : \/ msgs'[m] = msgs[m]
                         \/ msgs[m].state # "unsent" /\ Advances(msgs[m], msgs'[m])

\* A failed message is retried within the limit of its job, and counts as handed out.
LEMMA FailingAdvances ==
  ASSUME NEW msg \in MessageRow, msg.job \in Jobs
  PROVE  Advances(msg, MessageFailed(msg))
<1> PICK limit \in Nat : limit = retryLimit(msg.job)
  BY AttemptsAssumption DEF retryLimit
<1>1. msg.retryCount \in Nat
  BY DEF MessageRow
<1>2. CASE msg.retryCount < limit
  <2>1. PICK new : new = [msg EXCEPT !.state = "created", !.retryCount = msg.retryCount + 1]
    OBVIOUS
  <2>2. new.job = msg.job /\ new.state = "created" /\ new.retryCount = msg.retryCount + 1
    BY <2>1 DEF MessageRow
  <2>3. MessageFailed(msg) = new
    BY <1>2, <2>1 DEF MessageFailed
  <2> QED BY <1>1, <1>2, <2>2, <2>3 DEF Advances, Counted
<1>3. CASE ~(msg.retryCount < limit)
  <2>1. PICK new : new = [msg EXCEPT !.state = "failed"]
    OBVIOUS
  <2>2. new.job = msg.job /\ new.state = "failed" /\ new.retryCount = msg.retryCount
    BY <2>1 DEF MessageRow
  <2>3. MessageFailed(msg) = new
    BY <1>3, <2>1 DEF MessageFailed
  <2> QED BY <1>1, <2>2, <2>3 DEF Advances, Counted
<1> QED BY <1>2, <1>3

\* So does one that is taken or completed.
LEMMA SettlingAdvances ==
  ASSUME NEW msg \in MessageRow, NEW state \in {"active", "completed"}
  PROVE  Advances(msg, [msg EXCEPT !.state = state])
<1>1. msg.retryCount \in Nat
  BY DEF MessageRow
<1>2. PICK new : new = [msg EXCEPT !.state = state]
  OBVIOUS
<1>3. new.job = msg.job /\ new.state = state /\ new.retryCount = msg.retryCount
  BY <1>2 DEF MessageRow
<1> QED BY <1>1, <1>2, <1>3 DEF Advances, Counted

\* Steps that send nothing.
LEMMA AdvanceGrows ==
  ASSUME TypeOK, MessagesAreSent, MessagesAdvance
  PROVE  MessagesGrow /\ MessagesAreSent'
<1>0. \A m \in Messages : msgs[m].retryCount \in Nat /\ Counted(msgs[m]) \in Nat
  <2>1. \A m \in Messages : msgs[m].retryCount \in Nat
    BY DEF TypeOK, MessageRow
  <2> QED BY <2>1 DEF Counted
<1>1. MessagesGrow
  BY <1>0 DEF MessagesGrow, MessagesAdvance, Advances
<1>2. ASSUME NEW m \in Messages
      PROVE  IF m <= sent THEN msgs'[m].job \in Jobs /\ msgs'[m].retryCount <= retryLimit(msgs'[m].job)
             ELSE msgs'[m] = Unsent
  BY DEF MessagesAreSent, MessagesAdvance, Advances, Unsent
<1> QED BY <1>1, <1>2 DEF MessagesAreSent, MessagesAdvance

\* Steps that send one message.
LEMMA SendGrows ==
  ASSUME TypeOK, MessagesAreSent, NEW j \in Jobs, Send(j)
  PROVE  MessagesGrow /\ MessagesAreSent' /\ sent + 1 \in Messages /\ msgs'[sent + 1].job = j
<1>0. sent \in Nat /\ sent + 1 \in Messages /\ retryLimit(j) \in Nat
  BY AttemptsAssumption, SendTypes, BoundsAssumption DEF TypeOK, retryLimit
<1>1. msgs[sent + 1] = Unsent
  BY <1>0 DEF MessagesAreSent, Messages
<1>2. /\ msgs'[sent + 1].job = j /\ msgs'[sent + 1].retryCount = 0
      /\ \A m \in Messages : m # sent + 1 => msgs'[m] = msgs[m]
  BY <1>0 DEF TypeOK, Send
<1>3. MessagesGrow
  <2>1. \A m \in Messages : Counted(msgs[m]) \in Nat
    BY DEF TypeOK, MessageRow, Counted
  <2> QED BY <1>1, <1>2, <2>1, JobsAssumption DEF MessagesGrow, Unsent
<1>4. MessagesAreSent'
  <2>1. ASSUME NEW m \in Messages
        PROVE  IF m <= sent + 1
               THEN msgs'[m].job \in Jobs /\ msgs'[m].retryCount <= retryLimit(msgs'[m].job)
               ELSE msgs'[m] = Unsent
    <3>1. CASE m = sent + 1
      BY <1>0, <1>2, <3>1
    <3>2. CASE m # sent + 1
      <4>1. m <= sent + 1 <=> m <= sent
        BY <1>0, <3>2 DEF Messages
      <4> QED BY <1>2, <3>2, <4>1 DEF MessagesAreSent
    <3> QED BY <3>1, <3>2
  <2> QED BY <2>1 DEF MessagesAreSent, Send
<1> QED BY <1>0, <1>2, <1>3, <1>4

-----------------------------------------------------------------------------
(* How each part of the invariant is kept.                                 *)

\* Rows, calls, the sweep and runs as most steps leave them.
RowQuiet(j) ==
  /\ jobs'[j].attempts <= jobs[j].attempts
  /\ jobs'[j].errorCode = "JOB_WORKER_STALE" =>
        jobs[j].errorCode = "JOB_WORKER_STALE" \/ metrics'[j] # "none"
  /\ \/ jobs'[j].queueMessageId \in {0, jobs[j].queueMessageId}
     \/ Owns(j, jobs'[j].queueMessageId)

RowsQuiet == \A j \in Jobs : RowQuiet(j)

CallsQuiet ==
  \A j \in Jobs : \/ calls'[j].pc = "link" => calls'[j] = calls[j]
                  \/ calls'[j].message \in Messages /\ msgs'[calls'[j].message].job = j

HeldQuiet ==
  \/ sweep'.held # NoJob => sweep'.held = sweep.held /\ sweep'.message = sweep.message
  \/ sweep'.message \in Messages /\ msgs'[sweep'.message].job = sweep'.held

PendingQuiet ==
  \A j \in Jobs : sweep'.pending[j].kind \in LinkKinds =>
     \/ sweep'.pending[j] = sweep.pending[j]
     \/ Owns(j, sweep'.pending[j].message)

SweepQuiet == HeldQuiet /\ PendingQuiet

RunsQuiet ==
  \A r \in Runs : runs'[r].pc \in StartPcs =>
    runs[r].pc \in StartPcs /\ runs'[r].job = runs[r].job

\* A link stays own, whoever carries it on.
LEMMA LinksFollow ==
  ASSUME TypeOK, LinksAreOwn, MessagesGrow, CallsQuiet, SweepQuiet,
         \A j \in Jobs : \/ jobs'[j].queueMessageId \in {0, jobs[j].queueMessageId}
                         \/ Owns(j, jobs'[j].queueMessageId)
  PROVE  LinksAreOwn'
<1> USE DEF CallsQuiet, SweepQuiet, HeldQuiet, PendingQuiet
<1>1. \A j \in Jobs : \A m : Owns(j, m) => m \in Messages /\ msgs'[m].job = j
  BY DEF Owns, MessagesGrow
<1>2. RowLinks'
  <2>1. \A j \in Jobs : jobs'[j].queueMessageId # 0 =>
          jobs'[j].queueMessageId \in Messages /\ msgs'[jobs'[j].queueMessageId].job = j
    BY <1>1 DEF LinksAreOwn, RowLinks
  <2> QED BY <2>1 DEF RowLinks, Owns
<1>3. CallLinks'
  <2>1. \A j \in Jobs : calls'[j].pc = "link" =>
          calls'[j].message \in Messages /\ msgs'[calls'[j].message].job = j
    BY <1>1 DEF LinksAreOwn, CallLinks
  <2> QED BY <2>1 DEF CallLinks, Owns
<1>4. HeldLinks'
  <2>1. sweep.held # NoJob => sweep.held \in Jobs
    BY DEF TypeOK, SweepRow
  <2>2. sweep'.held # NoJob =>
          sweep'.message \in Messages /\ msgs'[sweep'.message].job = sweep'.held
    BY <1>1, <2>1 DEF LinksAreOwn, HeldLinks
  <2> QED BY <2>2 DEF HeldLinks, Owns
<1>5. PendingLinks'
  <2>1. \A j \in Jobs : sweep'.pending[j].kind \in LinkKinds =>
          sweep'.pending[j].message \in Messages /\ msgs'[sweep'.pending[j].message].job = j
    BY <1>1 DEF LinksAreOwn, PendingLinks
  <2> QED BY <2>1 DEF PendingLinks, Owns
<1> QED BY <1>2, <1>3, <1>4, <1>5 DEF LinksAreOwn

\* Attempts of a job no run of which starts a further one.
LEMMA AttemptsFollow ==
  ASSUME TypeOK, TypeOK', MessagesGrow, NEW j \in Jobs, AttemptsAreDelivered(j),
         Starting(j)' \subseteq Starting(j), jobs'[j].attempts <= jobs[j].attempts
  PROVE  AttemptsAreDelivered(j)'
<1> PICK old, new : old = Starting(j) /\ new = Starting(j)'
  OBVIOUS
<1>1. /\ IsFiniteSet(old) /\ IsFiniteSet(new)
      /\ Cardinality(new) \in Nat /\ Cardinality(old) \in Nat
      /\ Cardinality(new) <= Cardinality(old)
  BY FS_Subset, FS_CardinalityType DEF AttemptsAreDelivered
<1>2. jobs[j].attempts \in Nat /\ jobs'[j].attempts \in Nat
  BY DEF TypeOK, JobRow
<1>3. MessagesOf(j) \subseteq MessagesOf(j)'
  BY DEF MessagesOf, MessagesGrow
<1>4. ASSUME NEW m PROVE Delivered(j, m) \in Nat /\ Delivered(j, m)' \in Nat
                         /\ Delivered(j, m) <= Delivered(j, m)'
  <2>1. ASSUME m \in Messages
        PROVE  Counted(msgs[m]) \in Nat /\ Counted(msgs[m])' \in Nat
    <3>1. msgs[m].retryCount \in Nat /\ msgs'[m].retryCount \in Nat
      BY <2>1 DEF TypeOK, MessageRow
    <3> QED BY <3>1 DEF Counted
  <2>2. CASE Owns(j, m)
    BY <2>1, <2>2 DEF Delivered, Owns, MessagesGrow
  <2>3. CASE ~Owns(j, m)
    BY <2>1, <2>3 DEF Delivered, Owns
  <2> QED BY <2>2, <2>3
<1>5. ASSUME NEW m \in Messages \cup {0}, MessagesOf(j)' \subseteq {m}
      PROVE  jobs'[j].attempts + Cardinality(new) <= Delivered(j, m)'
  <2>1. jobs[j].attempts + Cardinality(old) <= Delivered(j, m)
    BY <1>3, <1>5 DEF AttemptsAreDelivered
  <2> QED BY <1>1, <1>2, <1>4, <2>1
<1>6. \A m : m \in (Messages \cup {0})' <=> m \in Messages \cup {0}
  BY DEF Messages
<1> QED BY <1>1, <1>5, <1>6 DEF AttemptsAreDelivered

\* Steps that leave rows, calls, the sweep and runs as they are, for the books.
LEMMA BooksStay ==
  ASSUME TypeOK, TypeOK', BooksInv, Grows, MessagesGrow, MessagesAreSent',
         RowsQuiet, CallsQuiet, SweepQuiet, RunsQuiet
  PROVE  BooksInv'
<1>1. LinksAreOwn'
  BY LinksFollow DEF BooksInv, RowsQuiet, RowQuiet
<1>2. StaleFailureIsMeasured'
  BY DEF BooksInv, StaleFailureIsMeasured, RowsQuiet, RowQuiet, Grows
<1>3. ASSUME NEW j \in Jobs PROVE AttemptsAreDelivered(j)'
  <2>1. Starting(j)' \subseteq Starting(j)
    BY DEF Starting, RunsQuiet
  <2> QED BY <2>1, AttemptsFollow DEF BooksInv, RowsQuiet, RowQuiet
<1> QED BY <1>1, <1>2, <1>3 DEF BooksInv

\* The updates of job.service.ts that say nothing of messages and attempts.
SameBooks(row, new) ==
  /\ new.attempts = row.attempts /\ new.queueMessageId = row.queueMessageId
  /\ new.errorCode \in {row.errorCode} \cup (ErrorCodes \ {"JOB_WORKER_STALE"})

LEMMA UpdatesKeepBooks ==
  ASSUME NEW row \in JobRow(Messages)
  PROVE  /\ SameBooks(row, row) /\ SameBooks(row, RetryPendingRow(row))
         /\ SameBooks(row, CancelRequestedRow(row)) /\ SameBooks(row, CancelledRow(row))
         /\ SameBooks(row, SucceededRow(row))
         /\ \A code \in ErrorCodes \ {"JOB_WORKER_STALE"} : SameBooks(row, FailedRow(row, code))
         /\ SameBooks(row, [row EXCEPT !.fresh = FALSE])
<1> USE DEF JobRow, SameBooks
<1>1. SameBooks(row, row)
  OBVIOUS
<1>2. SameBooks(row, RetryPendingRow(row))
  BY DEF RetryPendingRow
<1>3. SameBooks(row, CancelRequestedRow(row))
  BY DEF CancelRequestedRow
<1>4. SameBooks(row, CancelledRow(row))
  BY DEF CancelledRow
<1>5. SameBooks(row, SucceededRow(row))
  BY DEF SucceededRow
<1>6. \A code \in ErrorCodes \ {"JOB_WORKER_STALE"} : SameBooks(row, FailedRow(row, code))
  BY DEF FailedRow
<1>7. SameBooks(row, [row EXCEPT !.fresh = FALSE])
  OBVIOUS
<1> QED BY <1>1, <1>2, <1>3, <1>4, <1>5, <1>6, <1>7

\* A row that is not written, or written by one of them, is quiet.
LEMMA SameBooksAreQuiet ==
  ASSUME TypeOK, NEW j \in Jobs, SameBooks(jobs[j], jobs'[j])
  PROVE  RowQuiet(j)
<1>1. jobs[j].attempts \in Nat
  BY DEF TypeOK, JobRow
<1> QED BY <1>1 DEF SameBooks, RowQuiet

-----------------------------------------------------------------------------
(* The actions.                                                            *)

LEMMA InitBooks == Init => BooksInv
<1> SUFFICES ASSUME Init PROVE BooksInv
  OBVIOUS
<1>1. MessagesAreSent
  BY BoundsAssumption DEF Init, MessagesAreSent, Messages
<1>2. LinksAreOwn
  BY DEF Init, LinksAreOwn, RowLinks, CallLinks, HeldLinks, PendingLinks, NoRow, SweepAt, NoPatch,
         LinkKinds
<1>3. StaleFailureIsMeasured
  BY DEF Init, StaleFailureIsMeasured, NoRow
<1>4. ASSUME NEW j \in Jobs PROVE AttemptsAreDelivered(j)
  <2>1. Starting(j) = {} /\ jobs[j].attempts = 0
    BY DEF Init, Starting, StartPcs, IdleRun, NoRow
  <2>2. MessagesOf(j) = {}
    BY JobsAssumption DEF Init, MessagesOf, Unsent
  <2>3. \A m : Delivered(j, m) = 0
    BY JobsAssumption DEF Init, Delivered, Owns, Unsent
  <2>4. IsFiniteSet({}) /\ Cardinality({}) = 0
    BY FS_EmptySet
  <2> QED BY <2>1, <2>3, <2>4 DEF AttemptsAreDelivered
<1> QED BY <1>1, <1>2, <1>3, <1>4 DEF BooksInv

\* Steps that do not touch the messages.
LEMMA NothingSent ==
  ASSUME TypeOK, BooksInv, UNCHANGED <<msgs, sent>>
  PROVE  MessagesGrow /\ MessagesAreSent'
BY AdvanceGrows DEF BooksInv, MessagesAdvance

\* The sweep and the runs, left alone or ended.
LEMMA LeftAlone ==
  /\ UNCHANGED sweep => SweepQuiet
  /\ UNCHANGED calls => CallsQuiet
  /\ UNCHANGED runs => RunsQuiet
  /\ \A phase : sweep' = SweepAt(phase) => SweepQuiet
  /\ runs' = [r \in Runs |-> IdleRun] => RunsQuiet
<1>1. UNCHANGED sweep => SweepQuiet
  BY DEF SweepQuiet, HeldQuiet, PendingQuiet
<1>2. UNCHANGED calls => CallsQuiet
  BY DEF CallsQuiet
<1>3. UNCHANGED runs => RunsQuiet
  BY DEF RunsQuiet
<1>4. \A phase : sweep' = SweepAt(phase) => SweepQuiet
  BY DEF SweepQuiet, HeldQuiet, PendingQuiet, SweepAt, NoPatch, LinkKinds
<1>5. runs' = [r \in Runs |-> IdleRun] => RunsQuiet
  BY DEF RunsQuiet, IdleRun, StartPcs
<1> QED BY <1>1, <1>2, <1>3, <1>4, <1>5

\* An update of one row is quiet for the others.
LEMMA OneRowQuiet ==
  ASSUME TypeOK, NEW j \in Jobs, NEW row, jobs' = [jobs EXCEPT ![j] = row],
         SameBooks(jobs[j], row) \/ RowQuiet(j)
  PROVE  RowsQuiet
<1>1. ASSUME NEW i \in Jobs, i # j PROVE RowQuiet(i)
  <2>1. jobs[i] \in JobRow(Messages) /\ jobs'[i] = jobs[i]
    BY <1>1 DEF TypeOK
  <2>2. SameBooks(jobs[i], jobs'[i])
    BY <2>1, UpdatesKeepBooks
  <2> QED BY <2>2, SameBooksAreQuiet
<1>2. RowQuiet(j)
  <2>1. jobs'[j] = row
    BY DEF TypeOK
  <2> QED BY <2>1, SameBooksAreQuiet
<1> QED BY <1>1, <1>2 DEF RowsQuiet

LEMMA NoRowWritten ==
  ASSUME TypeOK, UNCHANGED jobs
  PROVE  RowsQuiet
<1>1. ASSUME NEW i \in Jobs PROVE RowQuiet(i)
  <2>1. SameBooks(jobs[i], jobs'[i])
    BY DEF SameBooks
  <2> QED BY <2>1, SameBooksAreQuiet
<1> QED BY <1>1 DEF RowsQuiet

\* The enqueue call: what it sends it sends for its job, what it links it has sent.
LEMMA EnqueueBooks ==
  ASSUME TypeOK, TypeOK', WorkIsOnCreatedJobs, BooksInv, Grows, NEW j \in Jobs,
         CreateJob(j) \/ EnqueueStep(j) \/ EnqueueSendFails(j) \/ EnqueueLost(j)
  PROVE  BooksInv'
<1>a. jobs[j] \in JobRow(Messages) /\ MessagesAreSent
  BY DEF TypeOK, BooksInv
<1>b. ASSUME NEW pc \in {"send", "fail", "recordMetric", "done"}, calls' = [calls EXCEPT ![j].pc = pc]
      PROVE  CallsQuiet
  BY <1>b DEF CallsQuiet, TypeOK, CallRow
<1>1. CASE CreateJob(j)
  <2>1. jobs'[j] = QueuedRow
    BY <1>1 DEF CreateJob, TypeOK
  <2>2. RowQuiet(j)
    <3>1. /\ jobs'[j].attempts = 0 /\ jobs'[j].queueMessageId = 0
          /\ jobs'[j].errorCode = "null" /\ jobs[j].attempts \in Nat
      BY <1>a, <2>1 DEF QueuedRow, NoRow, JobRow
    <3> QED BY <3>1 DEF RowQuiet
  <2>3. RowsQuiet
    BY <1>1, <2>2, OneRowQuiet DEF CreateJob
  <2> QED BY <1>1, <1>b, <2>3, BooksStay, NothingSent, LeftAlone DEF CreateJob
<1>2. CASE EnqueueSend(j)
  <2>1. MessagesGrow /\ MessagesAreSent' /\ sent + 1 \in Messages /\ msgs'[sent + 1].job = j
    BY <1>2, <1>a, SendGrows DEF EnqueueSend
  <2>2. CallsQuiet
    BY <1>2, <2>1 DEF EnqueueSend, CallsQuiet, TypeOK
  <2> QED BY <1>2, <2>1, <2>2, BooksStay, LeftAlone, NoRowWritten DEF EnqueueSend
<1>3. CASE EnqueueSendFails(j)
  <2>1. MessagesGrow /\ MessagesAreSent'
    BY <1>3, <1>a, SendGrows, NothingSent DEF EnqueueSendFails
  <2> QED BY <1>3, <1>b, <2>1, BooksStay, LeftAlone, NoRowWritten DEF EnqueueSendFails
<1>4. CASE EnqueueLink(j)
  <2>1. jobs' = [jobs EXCEPT ![j] = LinkedRow(jobs[j], calls[j].message)]
    BY <1>4 DEF EnqueueLink, Update
  <2>2. jobs'[j] = LinkedRow(jobs[j], calls[j].message)
    BY <2>1 DEF TypeOK
  <2>3. Owns(j, calls[j].message)
    BY <1>4 DEF EnqueueLink, BooksInv, LinksAreOwn, CallLinks
  <2>4. RowQuiet(j)
    BY <1>a, <2>2, <2>3 DEF RowQuiet, LinkedRow, JobRow
  <2>5. RowsQuiet
    BY <2>1, <2>4, OneRowQuiet
  <2>6. CallsQuiet
    BY <1>4 DEF EnqueueLink, CallsQuiet, TypeOK
  <2> QED BY <1>4, <2>5, <2>6, BooksStay, NothingSent, LeftAlone DEF EnqueueLink
<1>5. CASE EnqueueMarkFailed(j)
  <2>1. jobs' = [jobs EXCEPT ![j] = FailedRow(jobs[j], "JOB_QUEUE_ENQUEUE_FAILED")]
    BY <1>5 DEF EnqueueMarkFailed, Update
  <2>2. SameBooks(jobs[j], FailedRow(jobs[j], "JOB_QUEUE_ENQUEUE_FAILED"))
    BY <1>a, UpdatesKeepBooks DEF ErrorCodes
  <2>3. RowsQuiet
    BY <2>1, <2>2, OneRowQuiet
  <2> QED BY <1>5, <1>b, <2>3, BooksStay, NothingSent, LeftAlone DEF EnqueueMarkFailed
<1>6. CASE EnqueueRecordMetric(j)
  BY <1>6, <1>b, BooksStay, NothingSent, LeftAlone, NoRowWritten DEF EnqueueRecordMetric
<1>7. CASE EnqueueLost(j)
  <2>1. CallsQuiet
    BY <1>7 DEF EnqueueLost, CallsQuiet, TypeOK
  <2> QED BY <1>7, <2>1, BooksStay, NothingSent, LeftAlone, NoRowWritten DEF EnqueueLost
<1> QED BY <1>1, <1>2, <1>3, <1>4, <1>5, <1>6, <1>7 DEF EnqueueStep

\* The cancel call.
LEMMA CancelBooks ==
  ASSUME TypeOK, TypeOK', WorkIsOnCreatedJobs, BooksInv, Grows, NEW c \in Cancels,
         CancelWrite(c) \/ \E j \in Jobs : CancelRead(c, j)
  PROVE  BooksInv'
<1>1. CASE CancelWrite(c)
  <2> PICK j : j = cancels[c].job
    OBVIOUS
  <2>1. j \in Jobs /\ jobs[j] \in JobRow(Messages)
    BY <1>1 DEF CancelWrite, WorkIsOnCreatedJobs, Created, TypeOK
  <2>2. jobs' = [jobs EXCEPT ![j] = CancelRequestedRow(jobs[j])]
    BY <1>1 DEF CancelWrite, Update
  <2>3. SameBooks(jobs[j], CancelRequestedRow(jobs[j]))
    BY <2>1, UpdatesKeepBooks
  <2>4. RowsQuiet
    BY <2>1, <2>2, <2>3, OneRowQuiet
  <2> QED BY <1>1, <2>4, BooksStay, NothingSent, LeftAlone DEF CancelWrite
<1>2. ASSUME NEW j \in Jobs, CancelRead(c, j) PROVE BooksInv'
  BY <1>2, BooksStay, NothingSent, LeftAlone, NoRowWritten DEF CancelRead
<1> QED BY <1>1, <1>2

\* A run that goes on or settles starts nothing, and its message is at most failed.
LEMMA RunMovesQuietly ==
  ASSUME TypeOK, WorkIsOnCreatedJobs, NEW r \in Runs, runs[r].pc # "idle", UNCHANGED sent
  PROVE  /\ \A pc : Goto(r, pc) /\ (pc \notin StartPcs \/ runs[r].pc \in StartPcs) => RunsQuiet
         /\ UNCHANGED msgs => MessagesAdvance
         /\ Resolve(r) \/ Reject(r) => RunsQuiet /\ MessagesAdvance
         /\ Caught(r) => RunsQuiet /\ MessagesAdvance
<1>1. ASSUME NEW pc, Goto(r, pc), pc \notin StartPcs \/ runs[r].pc \in StartPcs
      PROVE  RunsQuiet
  BY <1>1 DEF Goto, TypeOK, RunRow, RunsQuiet
<1>2. UNCHANGED msgs => MessagesAdvance
  BY DEF MessagesAdvance
<1>3. ASSUME Resolve(r) \/ Reject(r) PROVE RunsQuiet /\ MessagesAdvance
  <2>1. runs' = [runs EXCEPT ![r] = IdleRun]
    BY <1>3 DEF Resolve, Reject
  <2>2. RunsQuiet
    BY <2>1 DEF RunsQuiet, IdleRun, StartPcs, TypeOK
  <2> PICK m : m = runs[r].message
    OBVIOUS
  <2>3. m \in Messages /\ msgs[m] \in MessageRow /\ msgs[m].state # "unsent" /\ msgs[m].job \in Jobs
    BY DEF WorkIsOnCreatedJobs, Created, TypeOK
  <2>4. \/ msgs' = msgs
        \/ msgs' = [msgs EXCEPT ![m] = [msgs[m] EXCEPT !.state = "completed"]]
        \/ msgs' = [msgs EXCEPT ![m] = MessageFailed(msgs[m])]
    BY <1>3 DEF Resolve, Reject
  <2>5. /\ Advances(msgs[m], [msgs[m] EXCEPT !.state = "completed"])
        /\ Advances(msgs[m], MessageFailed(msgs[m]))
    BY <2>3, FailingAdvances, SettlingAdvances
  <2>6. MessagesAdvance
    BY <2>3, <2>4, <2>5 DEF MessagesAdvance, TypeOK
  <2> QED BY <2>2, <2>6
<1>4. ASSUME Caught(r) PROVE RunsQuiet /\ MessagesAdvance
  <2>1. "catchCheckpoint" \notin StartPcs
    BY DEF StartPcs
  <2>2. Reject(r) \/ (Goto(r, "catchCheckpoint") /\ UNCHANGED msgs)
    BY <1>4 DEF Caught
  <2>3. CASE Reject(r)
    BY <1>3, <2>3
  <2>4. CASE Goto(r, "catchCheckpoint") /\ UNCHANGED msgs
    BY <1>1, <1>2, <2>1, <2>4
  <2> QED BY <2>2, <2>3, <2>4
<1> QED BY <1>1, <1>2, <1>3, <1>4

\* A run that writes nothing that counts.
LEMMA RunBooksStay ==
  ASSUME TypeOK, TypeOK', BooksInv, Grows, RunsQuiet, MessagesAdvance, RowsQuiet,
         UNCHANGED <<calls, sweep>>
  PROVE  BooksInv'
BY AdvanceGrows, BooksStay, LeftAlone DEF BooksInv

\* The start of an attempt counts it, and says nothing else of the books.
LEMMA StartCounts ==
  ASSUME NEW row \in JobRow(Messages)
  PROVE  /\ StartedRow(row).attempts = row.attempts + 1
         /\ StartedRow(row).queueMessageId = row.queueMessageId
         /\ StartedRow(row).errorCode = row.errorCode
<1> PICK n : n = row.attempts + 1
  OBVIOUS
<1>1. StartedRow(row) = [row EXCEPT !.status = "RUNNING", !.attempts = n, !.fresh = TRUE]
  BY DEF StartedRow
<1>2. [row EXCEPT !.status = "RUNNING", !.attempts = n, !.fresh = TRUE].attempts = n
  BY DEF JobRow
<1> QED BY <1>1, <1>2 DEF JobRow

\* A run that counts its attempt is no longer about to start one.
LEMMA WriteStartBooks ==
  ASSUME TypeOK, TypeOK', WorkIsOnCreatedJobs, BooksInv, Grows, NEW r \in Runs, WriteStart(r)
  PROVE  BooksInv'
<1> PICK j : j = runs[r].job
  OBVIOUS
<1>1. runs[r].pc = "writeStart" /\ j \in Jobs /\ jobs[j] \in JobRow(Messages)
  BY DEF WriteStart, WorkIsOnCreatedJobs, Created, TypeOK
<1>2. jobs' = [jobs EXCEPT ![j] = StartedRow(jobs[j])] /\ jobs'[j] = StartedRow(jobs[j])
  BY <1>1 DEF WriteStart, Update, TypeOK
<1>3. /\ jobs'[j].attempts = jobs[j].attempts + 1
      /\ jobs'[j].queueMessageId = jobs[j].queueMessageId
      /\ jobs'[j].errorCode = jobs[j].errorCode
  BY <1>1, <1>2, StartCounts
<1>4. \A i \in Jobs : i # j => jobs'[i] = jobs[i]
  BY <1>2 DEF TypeOK
<1>5. MessagesGrow /\ MessagesAreSent'
  BY NothingSent DEF WriteStart
<1>6. LinksAreOwn'
  <2>1. \A i \in Jobs : jobs'[i].queueMessageId = jobs[i].queueMessageId
    BY <1>3, <1>4
  <2> QED BY <1>5, <2>1, LinksFollow, LeftAlone DEF WriteStart, BooksInv
<1>7. StaleFailureIsMeasured'
  BY <1>3, <1>4 DEF WriteStart, BooksInv, StaleFailureIsMeasured
<1>8. /\ runs'[r].pc = "checkpoint2"
      /\ \A q \in Runs : q # r => runs'[q] = runs[q]
  BY DEF WriteStart, TypeOK, RunRow
<1>9. \A i \in Jobs : Starting(i)' = Starting(i) \ {r}
  BY <1>8 DEF Starting, StartPcs
<1>10. ASSUME NEW i \in Jobs, i # j PROVE AttemptsAreDelivered(i)'
  <2>1. jobs'[i].attempts <= jobs[i].attempts
    BY <1>4, <1>10 DEF TypeOK, JobRow
  <2>2. Starting(i)' \subseteq Starting(i)
    BY <1>9
  <2> QED BY <1>5, <2>1, <2>2, AttemptsFollow DEF BooksInv
<1>11. AttemptsAreDelivered(j)'
  <2> PICK old, new : old = Starting(j) /\ new = Starting(j)'
    OBVIOUS
  <2>1. r \in old /\ new = old \ {r} /\ IsFiniteSet(old)
    BY <1>1, <1>9 DEF Starting, StartPcs, BooksInv, AttemptsAreDelivered
  <2>2. IsFiniteSet(new) /\ Cardinality(new) = Cardinality(old) - 1 /\ Cardinality(old) \in Nat
    BY <2>1, FS_RemoveElement, FS_CardinalityType
  <2>3. jobs[j].attempts \in Nat
    BY <1>1 DEF JobRow
  <2>4. jobs'[j].attempts + Cardinality(new) = jobs[j].attempts + Cardinality(old)
    BY <1>3, <2>2, <2>3
  <2>5. /\ MessagesOf(j)' = MessagesOf(j) /\ \A m : Delivered(j, m)' = Delivered(j, m)
        /\ (Messages \cup {0})' = Messages \cup {0}
    BY DEF WriteStart, MessagesOf, Delivered, Owns, Messages
  <2> QED BY <1>1, <2>2, <2>4, <2>5 DEF BooksInv, AttemptsAreDelivered
<1> QED BY <1>5, <1>6, <1>7, <1>10, <1>11 DEF BooksInv

\* The write of a run that ends or hands back its attempt.
LEMMA RunWriteQuiet ==
  ASSUME TypeOK, WorkIsOnCreatedJobs, NEW r \in Runs, runs[r].pc # "idle",
         \/ Update(runs[r].job, CancelledRow(jobs[runs[r].job]))
         \/ Update(runs[r].job, SucceededRow(jobs[runs[r].job]))
         \/ Update(runs[r].job, FailedRow(jobs[runs[r].job], "JOB_HANDLER_FAILED"))
         \/ Update(runs[r].job, RetryPendingRow(jobs[runs[r].job]))
  PROVE  RowsQuiet
<1> PICK j : j = runs[r].job
  OBVIOUS
<1>1. j \in Jobs /\ jobs[j] \in JobRow(Messages)
  BY DEF WorkIsOnCreatedJobs, Created, TypeOK
<1>2. PICK row : /\ jobs' = [jobs EXCEPT ![j] = row]
                 /\ \/ row = CancelledRow(jobs[j]) \/ row = SucceededRow(jobs[j])
                    \/ row = FailedRow(jobs[j], "JOB_HANDLER_FAILED")
                    \/ row = RetryPendingRow(jobs[j])
  BY DEF Update
<1>3. SameBooks(jobs[j], row)
  BY <1>1, <1>2, UpdatesKeepBooks DEF ErrorCodes
<1> QED BY <1>1, <1>2, <1>3, OneRowQuiet

\* The runs, apart from the start of an attempt.
LEMMA RunBooks ==
  ASSUME TypeOK, TypeOK', WorkIsOnCreatedJobs, BooksInv, Grows, NEW r \in Runs,
         RunStep(r) \/ HandlerCheckpoint(r) \/ HandlerEnds(r) \/ DbError(r) \/ Abort(r)
  PROVE  BooksInv'
<1>a. runs[r].pc # "idle" /\ UNCHANGED <<sent, calls, sweep>>
  BY RunStepTouches DEF RunTouches
<1>b. ASSUME RunsQuiet, MessagesAdvance, RowsQuiet \/ UNCHANGED jobs PROVE BooksInv'
  BY <1>a, <1>b, RunBooksStay, NoRowWritten
<1>c. ASSUME NEW pc \in RunPcs \ StartPcs, Goto(r, pc), UNCHANGED msgs PROVE RunsQuiet /\ MessagesAdvance
  BY <1>a, <1>c, RunMovesQuietly
<1>d. Resolve(r) \/ Reject(r) \/ Caught(r) => RunsQuiet /\ MessagesAdvance
  BY <1>a, RunMovesQuietly
<1>e. ASSUME NEW outcome, runs' = [runs EXCEPT ![r].pc = "recordMetric", ![r].outcome = outcome]
      PROVE  RunsQuiet
  BY <1>e DEF RunsQuiet, TypeOK, RunRow, StartPcs
<1>f. UNCHANGED msgs => MessagesAdvance
  BY <1>a, RunMovesQuietly
<1>g. {"writeCancelled", "catchWriteCancelled", "handlerCheckpoint", "checkpoint3", "writeSuccess",
       "writeFailed", "writeRetry", "handler", "readSuccess", "readFailure"} \subseteq RunPcs \ StartPcs
  BY DEF RunPcs, TryPcs, CatchPcs, StartPcs
<1>1. CASE Checkpoint(r)
  <2>1. PICK pc : pc = AfterCheckpoint[runs[r].pc]
    OBVIOUS
  <2>2. Goto(r, pc) => RunsQuiet
    <3>1. CASE runs[r].pc = "checkpoint1"
      BY <1>a, <3>1, RunMovesQuietly DEF StartPcs
    <3>2. CASE runs[r].pc # "checkpoint1"
      <4>1. pc \notin StartPcs
        BY <1>1, <2>1, <3>2 DEF Checkpoint, AfterCheckpoint, StartPcs
      <4> QED BY <1>a, <4>1, RunMovesQuietly
    <3> QED BY <3>1, <3>2
  <2>3. RunsQuiet /\ MessagesAdvance
    BY <1>1, <1>c, <1>d, <1>f, <1>g, <2>1, <2>2 DEF Checkpoint
  <2> QED BY <1>1, <1>b, <2>3 DEF Checkpoint
<1>2. CASE WriteCancelled(r)
  BY <1>2, <1>a, <1>b, <1>e, <1>f, RunWriteQuiet DEF WriteCancelled
<1>3. CASE ReadStart(r)
  <2>1. Goto(r, "writeStart") => RunsQuiet
    BY <1>3, <1>a, RunMovesQuietly DEF ReadStart, StartPcs
  <2> QED BY <1>3, <1>b, <1>c, <1>d, <1>f, <1>g, <2>1 DEF ReadStart
<1>4. CASE WriteStart(r)
  BY <1>4, WriteStartBooks
<1>5. CASE ReadSuccess(r)
  BY <1>5, <1>b, <1>c, <1>d, <1>g DEF ReadSuccess
<1>6. CASE WriteSuccess(r)
  BY <1>6, <1>a, <1>b, <1>e, <1>f, RunWriteQuiet DEF WriteSuccess
<1>7. CASE ReadFailure(r)
  BY <1>7, <1>b, <1>c, <1>d, <1>g DEF ReadFailure
<1>8. CASE WriteFailed(r)
  BY <1>8, <1>a, <1>b, <1>e, <1>f, RunWriteQuiet DEF WriteFailed
<1>9. CASE WriteRetry(r)
  BY <1>9, <1>a, <1>b, <1>d, RunWriteQuiet DEF WriteRetry
<1>10. CASE RecordMetric(r)
  BY <1>10, <1>b, <1>d DEF RecordMetric
<1>11. CASE HandlerCheckpoint(r)
  BY <1>11, <1>b, <1>c, <1>g DEF HandlerCheckpoint
<1>12. CASE HandlerReturns(r)
  BY <1>12, <1>b, <1>c, <1>d, <1>g DEF HandlerReturns
<1>13. CASE HandlerThrows(r)
  BY <1>13, <1>b, <1>d DEF HandlerThrows
<1>14. CASE DbError(r)
  BY <1>14, <1>b, <1>d DEF DbError
<1>15. CASE Abort(r)
  <2>1. RunsQuiet
    BY <1>15 DEF Abort, RunsQuiet, TypeOK, RunRow
  <2> PICK m : m = runs[r].message
    OBVIOUS
  <2>2. m \in Messages /\ msgs[m] \in MessageRow /\ msgs[m].state # "unsent" /\ msgs[m].job \in Jobs
    BY <1>a DEF WorkIsOnCreatedJobs, Created, TypeOK
  <2>3. msgs' = [msgs EXCEPT ![m] = MessageFailed(msgs[m])]
    BY <1>15 DEF Abort
  <2>4. Advances(msgs[m], MessageFailed(msgs[m]))
    BY <2>2, FailingAdvances
  <2>5. MessagesAdvance
    BY <1>a, <2>2, <2>3, <2>4 DEF MessagesAdvance, TypeOK
  <2> QED BY <1>15, <1>b, <2>1, <2>5 DEF Abort
<1> QED
  BY <1>1, <1>2, <1>3, <1>4, <1>5, <1>6, <1>7, <1>8, <1>9, <1>10, <1>11, <1>12, <1>13, <1>14,
     <1>15 DEF RunStep, HandlerEnds

\* A delivery is counted by pg-boss when it starts an attempt to be.
LEMMA DeliverBooks ==
  ASSUME TypeOK, TypeOK', WorkIsOnCreatedJobs, BooksInv, Grows,
         NEW m \in Messages, NEW r \in Runs, Deliver(r, m)
  PROVE  BooksInv'
<1> PICK j : j = msgs[m].job
  OBVIOUS
<1>1. /\ j \in Jobs /\ msgs[m] \in MessageRow /\ msgs[m].state = "created"
      /\ runs[r].pc = "idle" /\ msgs[m].retryCount \in Nat
  BY DEF Deliver, WorkIsOnCreatedJobs, Created, TypeOK, MessageRow
<1> PICK new : new = [msgs[m] EXCEPT !.state = "active"]
  OBVIOUS
<1>2. msgs' = [msgs EXCEPT ![m] = new] /\ msgs'[m] = new
  BY DEF Deliver, TypeOK
<1>3. new.job = j /\ new.state = "active" /\ new.retryCount = msgs[m].retryCount
  BY <1>1 DEF MessageRow
<1>4. Counted(new) = Counted(msgs[m]) + 1
  BY <1>1, <1>3 DEF Counted
<1>5. MessagesGrow /\ MessagesAreSent'
  <2>1. Advances(msgs[m], new)
    BY <1>1, SettlingAdvances
  <2>2. MessagesAdvance
    BY <1>1, <1>2, <2>1 DEF MessagesAdvance, Deliver, TypeOK
  <2> QED BY <2>2, AdvanceGrows DEF BooksInv
<1>6. LinksAreOwn'
  <2>1. \A i \in Jobs : jobs'[i].queueMessageId = jobs[i].queueMessageId
    BY DEF Deliver
  <2> QED BY <1>5, <2>1, LinksFollow, LeftAlone DEF Deliver, BooksInv
<1>7. StaleFailureIsMeasured'
  BY DEF Deliver, BooksInv, StaleFailureIsMeasured
<1>8. /\ runs'[r].pc = "checkpoint1" /\ runs'[r].job = j
      /\ \A q \in Runs : q # r => runs'[q] = runs[q]
  BY DEF Deliver, TypeOK, RunRow, IdleRun
<1>9. ASSUME NEW i \in Jobs, i # j PROVE AttemptsAreDelivered(i)'
  <2>1. jobs'[i].attempts <= jobs[i].attempts
    BY DEF Deliver, TypeOK, JobRow
  <2>2. Starting(i)' \subseteq Starting(i)
    BY <1>8, <1>9 DEF Starting
  <2> QED BY <1>5, <2>1, <2>2, AttemptsFollow DEF BooksInv
<1>10. AttemptsAreDelivered(j)'
  <2> PICK before, after : before = Starting(j) /\ after = Starting(j)'
    OBVIOUS
  <2>1. r \notin before /\ after = before \cup {r} /\ IsFiniteSet(before)
    BY <1>1, <1>8 DEF Starting, StartPcs, BooksInv, AttemptsAreDelivered
  <2>2. IsFiniteSet(after) /\ Cardinality(after) = Cardinality(before) + 1 /\ Cardinality(before) \in Nat
    BY <2>1, FS_AddElement, FS_CardinalityType
  <2>3. jobs'[j].attempts = jobs[j].attempts /\ jobs[j].attempts \in Nat
    BY <1>1 DEF Deliver, TypeOK, JobRow
  <2>4. ASSUME NEW n \in Messages \cup {0}, MessagesOf(j)' \subseteq {n}
        PROVE  jobs'[j].attempts + Cardinality(after) <= Delivered(j, n)'
    <3>1. m \in MessagesOf(j)' /\ MessagesOf(j) \subseteq MessagesOf(j)'
      BY <1>1, <1>2, <1>3, <1>5 DEF MessagesOf, MessagesGrow, Messages
    <3>2. n = m
      BY <2>4, <3>1
    <3>3. jobs[j].attempts + Cardinality(before) <= Delivered(j, m)
      BY <1>1, <2>4, <3>1, <3>2 DEF BooksInv, AttemptsAreDelivered
    <3>4. Delivered(j, m) = Counted(msgs[m]) /\ Delivered(j, m)' = Counted(new)
      BY <1>2, <1>3 DEF Delivered, Owns, Messages, Counted
    <3>5. Counted(msgs[m]) \in Nat
      BY <1>1 DEF Counted
    <3> QED BY <1>4, <2>2, <2>3, <3>2, <3>3, <3>4, <3>5
  <2>5. (Messages \cup {0})' = Messages \cup {0}
    BY DEF Messages
  <2> QED BY <2>2, <2>4, <2>5 DEF AttemptsAreDelivered
<1> QED BY <1>5, <1>6, <1>7, <1>9, <1>10 DEF BooksInv

\* pg-boss and the clock.
LEMMA QueueBooks ==
  ASSUME TypeOK, TypeOK', WorkIsOnCreatedJobs, BooksInv, Grows,
         \/ \E m \in Messages : Expire(m) \/ \E r \in Runs : Deliver(r, m)
         \/ \E j \in Jobs : GoStale(j)
  PROVE  BooksInv'
<1>1. ASSUME NEW m \in Messages, Expire(m) PROVE BooksInv'
  <2>1. msgs[m] \in MessageRow /\ msgs[m].state # "unsent" /\ msgs[m].job \in Jobs
    BY <1>1 DEF Expire, WorkIsOnCreatedJobs, Created, TypeOK
  <2>2. msgs' = [msgs EXCEPT ![m] = MessageFailed(msgs[m])]
    BY <1>1 DEF Expire
  <2>3. Advances(msgs[m], MessageFailed(msgs[m]))
    BY <2>1, FailingAdvances
  <2>4. MessagesAdvance
    BY <1>1, <2>1, <2>2, <2>3 DEF Expire, MessagesAdvance, TypeOK
  <2> QED BY <1>1, <2>4, RunBooksStay, NoRowWritten, LeftAlone DEF Expire
<1>2. ASSUME NEW m \in Messages, NEW r \in Runs, Deliver(r, m) PROVE BooksInv'
  BY <1>2, DeliverBooks
<1>3. ASSUME NEW j \in Jobs, GoStale(j) PROVE BooksInv'
  <2>1. jobs' = [jobs EXCEPT ![j] = [jobs[j] EXCEPT !.fresh = FALSE]] /\ jobs[j] \in JobRow(Messages)
    BY <1>3 DEF GoStale, Update, TypeOK
  <2>2. SameBooks(jobs[j], [jobs[j] EXCEPT !.fresh = FALSE])
    BY <2>1, UpdatesKeepBooks
  <2>3. RowsQuiet
    BY <2>1, <2>2, OneRowQuiet
  <2>4. MessagesAdvance
    BY <1>3 DEF GoStale, MessagesAdvance
  <2> QED BY <1>3, <2>3, <2>4, RunBooksStay, LeftAlone DEF GoStale
<1> QED BY <1>1, <1>2, <1>3

\* What the transaction of a sweep writes to a row: a link of the job, or a failure
\* and, where it is a stale one, its metric.
LEMMA CommitBooks ==
  ASSUME TypeOK, BooksInv, NEW j \in Jobs,
         jobs'[j] = Patched(jobs[j], sweep.pending[j]), metrics'[j] = CommittedMetric(j)
  PROVE  RowQuiet(j)
<1> PICK p : p = sweep.pending[j]
  OBVIOUS
<1> PICK row : row = jobs[j]
  OBVIOUS
<1>1. row \in JobRow(Messages) /\ row.attempts \in Nat
      /\ p.kind \in {"none", "linked", "requeued", "enqueue_failed", "stale_failed"}
  BY DEF TypeOK, SweepRow, Patch, JobRow
<1>2. p.kind \in LinkKinds => Owns(j, p.message)
  BY DEF BooksInv, LinksAreOwn, PendingLinks
<1>3. CASE p.kind \in LinkKinds
  <2>1. jobs'[j] = LinkedRow(row, p.message) \/ jobs'[j] = RequeuedRow(row, p.message)
    BY <1>3 DEF LinkKinds, Patched
  <2>2. /\ jobs'[j].attempts = row.attempts /\ jobs'[j].errorCode = row.errorCode
        /\ jobs'[j].queueMessageId = p.message
    BY <1>1, <2>1 DEF LinkedRow, RequeuedRow, JobRow
  <2> QED BY <1>1, <1>2, <1>3, <2>2 DEF RowQuiet
<1>4. CASE p.kind = "enqueue_failed"
  <2>1. jobs'[j] = FailedRow(row, "JOB_QUEUE_ENQUEUE_FAILED")
    BY <1>4 DEF Patched
  <2>2. SameBooks(jobs[j], jobs'[j])
    BY <1>1, <2>1, UpdatesKeepBooks DEF ErrorCodes
  <2> QED BY <2>2, SameBooksAreQuiet
<1>5. CASE p.kind = "stale_failed"
  <2>1. jobs'[j] = FailedRow(row, "JOB_WORKER_STALE") /\ metrics'[j] = "FAILED"
    BY <1>5 DEF Patched, CommittedMetric
  <2>2. jobs'[j].attempts = row.attempts /\ jobs'[j].queueMessageId = row.queueMessageId
    BY <1>1, <2>1 DEF FailedRow, JobRow
  <2> QED BY <1>1, <2>1, <2>2 DEF RowQuiet
<1>6. CASE p.kind = "none"
  <2>1. jobs'[j] = jobs[j]
    BY <1>6 DEF Patched
  <2>2. SameBooks(jobs[j], jobs'[j])
    BY <2>1 DEF SameBooks
  <2> QED BY <2>2, SameBooksAreQuiet
<1> QED BY <1>1, <1>3, <1>4, <1>5, <1>6 DEF LinkKinds

\* The worker process and its sweeps: what a sweep holds and will write it has sent.
LEMMA SweepBooks ==
  ASSUME TypeOK, TypeOK', WorkIsOnCreatedJobs, BooksInv, Grows,
         SweepStep \/ StartWorker \/ StopWorker \/ WorkerExit \/ Crash
  PROVE  BooksInv'
<1>1. CASE SweepCommit
  <2>1. RowsQuiet
    <3>1. CASE sweep.poisoned
      BY <1>1, <3>1, NoRowWritten DEF SweepCommit
    <3>2. CASE ~sweep.poisoned
      BY <1>1, <3>2, CommitBooks DEF SweepCommit, RowsQuiet
    <3> QED BY <3>1, <3>2
  <2> QED BY <1>1, <2>1, BooksStay, NothingSent, LeftAlone DEF SweepCommit
<1>2. CASE ScanQueued \/ ScanStale
  <2>1. /\ sweep'.held = NoJob /\ \A j \in Jobs : sweep'.pending[j].kind = "none"
        /\ UNCHANGED <<jobs, msgs, sent, runs, calls>>
    <3>1. CASE ScanQueued
      BY <3>1 DEF ScanQueued, SweepAt, NoPatch
    <3>2. CASE ScanStale
      BY <3>2 DEF ScanStale, SweepAt, NoPatch
    <3> QED BY <1>2, <3>1, <3>2
  <2>2. SweepQuiet
    BY <2>1 DEF SweepQuiet, HeldQuiet, PendingQuiet, LinkKinds
  <2> QED BY <2>1, <2>2, BooksStay, NothingSent, LeftAlone, NoRowWritten
<1>3. ASSUME NEW j \in Jobs, SweepSend(j) PROVE BooksInv'
  <2>1. MessagesGrow /\ MessagesAreSent' /\ sent + 1 \in Messages /\ msgs'[sent + 1].job = j
    BY <1>3, SendGrows DEF SweepSend, BooksInv
  <2>2. /\ sweep'.held = j /\ sweep'.message = sent + 1 /\ sweep'.pending = sweep.pending
        /\ UNCHANGED <<jobs, runs, calls>>
    BY <1>3 DEF SweepSend, TypeOK, SweepRow
  <2>3. SweepQuiet
    BY <2>1, <2>2 DEF SweepQuiet, HeldQuiet, PendingQuiet
  <2> QED BY <2>1, <2>2, <2>3, BooksStay, LeftAlone, NoRowWritten
<1>4. ASSUME NEW j \in Jobs, NEW kind, kind \notin LinkKinds, SweepFails(j, kind) PROVE SweepQuiet
  <2>1. /\ sweep'.held = sweep.held /\ sweep'.message = sweep.message
        /\ sweep'.pending[j].kind = kind
        /\ \A i \in Jobs : i # j => sweep'.pending[i] = sweep.pending[i]
    BY <1>4 DEF SweepFails, TypeOK, SweepRow
  <2> QED BY <1>4, <2>1 DEF SweepQuiet, HeldQuiet, PendingQuiet
<1>5. ASSUME NEW j \in Jobs, SweepSendFails(j) PROVE BooksInv'
  <2>1. MessagesGrow /\ MessagesAreSent'
    BY <1>5, SendGrows, NothingSent DEF SweepSendFails, BooksInv
  <2>2. SweepQuiet /\ UNCHANGED <<jobs, runs, calls>>
    BY <1>4, <1>5 DEF SweepSendFails, LinkKinds
  <2> QED BY <2>1, <2>2, BooksStay, LeftAlone, NoRowWritten
<1>6. ASSUME NEW j \in Jobs, SweepFailStale(j) PROVE BooksInv'
  <2>1. SweepQuiet /\ UNCHANGED <<jobs, runs, calls, msgs, sent>>
    BY <1>4, <1>6 DEF SweepFailStale, LinkKinds
  <2> QED BY <2>1, BooksStay, NothingSent, LeftAlone, NoRowWritten
<1>7. CASE SweepWrite
  <2>1. Owns(sweep.held, sweep.message) /\ sweep.held \in Jobs
    BY <1>7 DEF SweepWrite, BooksInv, LinksAreOwn, HeldLinks, TypeOK, SweepRow
  <2>2. /\ sweep'.held = NoJob /\ sweep'.pending[sweep.held].message = sweep.message
        /\ \A i \in Jobs : i # sweep.held => sweep'.pending[i] = sweep.pending[i]
    BY <1>7, <2>1 DEF SweepWrite, TypeOK, SweepRow
  <2>3. SweepQuiet
    BY <2>1, <2>2 DEF SweepQuiet, HeldQuiet, PendingQuiet
  <2> QED BY <1>7, <2>3, BooksStay, NothingSent, LeftAlone, NoRowWritten DEF SweepWrite
<1>8. CASE SweepRollback \/ StartWorker \/ StopWorker
  BY <1>8, BooksStay, NothingSent, LeftAlone, NoRowWritten DEF SweepRollback, StartWorker, StopWorker
<1>9. CASE WorkerExit \/ Crash
  BY <1>9, BooksStay, NothingSent, LeftAlone, NoRowWritten DEF WorkerExit, Crash
<1> QED BY <1>1, <1>2, <1>3, <1>5, <1>6, <1>7, <1>8, <1>9 DEF SweepStep

-----------------------------------------------------------------------------
(* Theorems.                                                               *)

LEMMA BooksStep ==
  TypeOK /\ WorkIsOnCreatedJobs /\ EvidenceInv /\ BooksInv /\ [Next]_vars => BooksInv'
<1> SUFFICES ASSUME TypeOK, WorkIsOnCreatedJobs, EvidenceInv, BooksInv, [Next]_vars
             PROVE  BooksInv'
  OBVIOUS
<1>1. TypeOK' /\ Grows
  BY TypeStep, EvidenceStep
<1>2. CASE UNCHANGED vars
  BY <1>1, <1>2, BooksStay, NothingSent, LeftAlone, NoRowWritten DEF vars
<1> QED
  BY <1>1, <1>2, StepCases, EnqueueBooks, CancelBooks, RunBooks, QueueBooks, SweepBooks

LEMMA BooksCorrect ==
  Spec => [](TypeOK /\ WorkIsOnCreatedJobs /\ EvidenceInv /\ BooksInv)
<1>1. Init => TypeOK /\ WorkIsOnCreatedJobs /\ EvidenceInv /\ BooksInv
  BY InitTypes, InitWork, InitEvidence, InitBooks
<1> QED BY <1>1, TypeStep, EvidenceStep, BooksStep, PTL DEF Spec

\* A job with one message at most stays within its attempts: every attempt was one of
\* the deliveries of this message, and pg-boss retries it within the limit.
LEMMA WithinBudget ==
  ASSUME TypeOK, BooksInv
  PROVE  AttemptsWithinBudget
<1> SUFFICES ASSUME NEW j \in Jobs, Cardinality(MessagesOf(j)) <= 1
             PROVE  jobs[j].attempts <= MaxAttempts[j]
  BY DEF AttemptsWithinBudget
<1>0. MaxAttempts[j] \in Nat \ {0} /\ retryLimit(j) = MaxAttempts[j] - 1 /\ jobs[j].attempts \in Nat
  BY AttemptsAssumption DEF retryLimit, TypeOK, JobRow
<1>1. IsFiniteSet(MessagesOf(j))
  <2>1. MessagesOf(j) \subseteq 1..MaxMessages
    BY DEF MessagesOf, Messages
  <2> QED BY <2>1, BoundsAssumption, FS_Interval, FS_Subset, SMTT(60)
<1>2. PICK m \in Messages \cup {0} : MessagesOf(j) \subseteq {m}
  <2>1. CASE MessagesOf(j) = {}
    BY <2>1
  <2>2. ASSUME NEW m \in MessagesOf(j) PROVE MessagesOf(j) \subseteq {m}
    <3>1. /\ IsFiniteSet(MessagesOf(j) \ {m})
          /\ Cardinality(MessagesOf(j) \ {m}) = Cardinality(MessagesOf(j)) - 1
      BY <1>1, <2>2, FS_RemoveElement
    <3>2. Cardinality(MessagesOf(j)) \in Nat /\ Cardinality(MessagesOf(j) \ {m}) \in Nat
      BY <1>1, <3>1, FS_CardinalityType
    <3>3. Cardinality(MessagesOf(j) \ {m}) = 0
      BY <3>1, <3>2
    <3>4. MessagesOf(j) \ {m} = {}
      BY <3>1, <3>3, FS_EmptySet
    <3> QED BY <3>4
  <2>3. MessagesOf(j) \subseteq Messages
    BY DEF MessagesOf
  <2> QED BY <2>1, <2>2, <2>3
<1>d. Delivered(j, m) \in Nat
  <2>1. m \in Messages => msgs[m].retryCount \in Nat
    BY DEF TypeOK, MessageRow
  <2> QED BY <2>1 DEF Delivered, Counted, Owns
<1>3. jobs[j].attempts <= Delivered(j, m)
  <2>1. /\ IsFiniteSet(Starting(j))
        /\ jobs[j].attempts + Cardinality(Starting(j)) <= Delivered(j, m)
    BY <1>2 DEF BooksInv, AttemptsAreDelivered
  <2>2. Cardinality(Starting(j)) \in Nat
    BY <2>1, FS_CardinalityType
  <2> QED BY <1>0, <1>d, <2>1, <2>2
<1>4. Delivered(j, m) <= MaxAttempts[j]
  <2>1. CASE Owns(j, m)
    <3>1. m \in Messages /\ msgs[m].job = j /\ msgs[m].retryCount \in Nat
      BY <2>1 DEF Owns, TypeOK, MessageRow
    <3>2. msgs[m].retryCount <= retryLimit(j)
      BY <3>1, JobsAssumption DEF BooksInv, MessagesAreSent, Unsent
    <3> QED BY <1>0, <2>1, <3>1, <3>2 DEF Delivered, Counted
  <2>2. CASE ~Owns(j, m)
    BY <1>0, <2>2 DEF Delivered
  <2> QED BY <2>1, <2>2
<1> QED BY <1>0, <1>3, <1>4, <1>d

\* The queueMessageId of a row is a message that was sent for this job.
LEMMA LinkedIsOwn ==
  ASSUME BooksInv
  PROVE  LinkedMessageIsOwn
BY DEF BooksInv, LinksAreOwn, RowLinks, Owns, LinkedMessageIsOwn

\* The attempt counter and pg-boss's retry count do not drift apart, through aborts,
\* crashes and errors of the database: no job is attempted more often than its maxAttempts
\* as long as one message was sent for it.
THEOREM AttemptsStayWithinBudget == Spec => []AttemptsWithinBudget
<1>1. TypeOK /\ BooksInv => AttemptsWithinBudget
  BY WithinBudget
<1> QED BY <1>1, BooksCorrect, PTL

\* The books two parties keep of one job agree: attempts and deliveries, message ids and
\* messages, stale failures and metrics.
THEOREM BooksAlwaysAgree == Spec => []BooksAgree
<1>1. TypeOK /\ BooksInv => BooksAgree
  BY WithinBudget, LinkedIsOwn DEF BooksInv, BooksAgree
<1> QED BY <1>1, BooksCorrect, PTL
=============================================================================
