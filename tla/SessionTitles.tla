---------------------------- MODULE SessionTitles ---------------------------
(***************************************************************************)
(* Titles of chat sessions: replies that make a session eligible and the   *)
(* users' own edits (chat.repository.ts), the schedulers of the workers    *)
(* that claim a reply under an advisory lock and enqueue one job for it,   *)
(* and the jobs that ask the model and apply its answer.                   *)
(*                                                                         *)
(* The job service is taken from JobSystem as what it promises here: a     *)
(* title job has one attempt, may be cancelled, and fails when its worker  *)
(* died or its queue message could not be sent.                            *)
(***************************************************************************)
EXTENDS JobLifecycle, FiniteSetsExt

CONSTANTS
  MaxSessions,   \* sessions 1..MaxSessions, in the order of their ids
  MaxReplies,    \* bound on the assistant messages ever inserted
  MaxJobs,       \* bound on the title jobs ever created
  Workers,       \* worker processes, each with one scheduler
  NoWorker,      \* null worker
  MaxExchanges,  \* MAX_EXCHANGES, 3 in the code
  PageSize,      \* SESSION_TITLE_ASSISTANT_PAGE_SIZE, 25 in the code
  BatchSize,     \* SESSION_TITLE_SCHEDULER_BATCH_SIZE, 50 by default
  MaxFaults      \* bound on crashes, shutdowns, aborted runs, failed sends, rolled back
                 \* replies and deletions of the workspace

ASSUME TitleBounds ==
  /\ {MaxSessions, MaxReplies, MaxJobs, MaxExchanges, PageSize, BatchSize} \subseteq Nat \ {0}
  /\ MaxFaults \in Nat /\ NoWorker \notin Workers

VARIABLES
  sessions,  \* the table "chat_sessions"
  archived,  \* the workspace is no longer ACTIVE
  replies,   \* assistant messages by id; "open" while their transaction is not committed
  workers,   \* phase and scheduler tick of each worker process
  lock,      \* holder of pg_advisory_lock(753009, session)
  jobs,      \* title jobs in the order of their creation, with their handler runs
  applied,   \* history: the job whose title a session got, 0 for none
  faults     \* number of faults so far

vars == <<sessions, archived, replies, workers, lock, jobs, applied, faults>>

-----------------------------------------------------------------------------
Sessions == 1..MaxSessions
Replies == 1..MaxReplies
Jobs == 1..MaxJobs

\* 0 is a null latestEligibleAssistantMessageId or latestAttemptedAssistantMessageId.
SessionRow ==
  [source : {"absent", "PLACEHOLDER", "GENERATED", "USER", "deleted"},
   eligible : Replies \cup {0}, attempted : Replies \cup {0}]

\* whole: a complete reply, isTitleEligibleReply and replyMetadata agree on it.
Reply == [session : Sessions \cup {0}, state : {"free", "open", "stored", "rolled_back"},
          whole : BOOLEAN]

\* "unused": a process that is not part of the deployment.
TickPcs == {"idle", "lock", "read", "write", "enqueue", "unlock"}
Worker == [phase : {"up", "stopping", "down", "unused"}, pc : TickPcs, todo : SUBSET Sessions,
           session : Sessions \cup {0}, reply : Replies \cup {0}]

HandlerPcs ==
  {"waiting", "checkpoint", "find", "collect", "complete", "verify", "apply",
   "finish", "over"}

\* "KEPT": NOT_ENOUGH_CONTEXT, INVALID_TITLE, PROVIDER_UNAVAILABLE or NOT_ELIGIBLE.
Outcomes == {"none", "APPLIED", "KEPT"}

\* pairs, before: the exchanges collected so far and the last id of the last page;
\* known: history, the whole replies stored when the run began.
Job ==
  [status : JobStatus \cup {"NONE"}, session : Sessions \cup {0}, reply : Replies \cup {0},
   pc : HandlerPcs, worker : Workers \cup {NoWorker}, aborted : BOOLEAN,
   pairs : SUBSET Replies, known : SUBSET Replies, before : 0..(MaxReplies + 1),
   outcome : Outcomes]

NoJob == [status |-> "NONE", session |-> 0, reply |-> 0, pc |-> "waiting", worker |-> NoWorker,
          aborted |-> FALSE, pairs |-> {}, known |-> {}, before |-> MaxReplies + 1,
          outcome |-> "none"]

\* The local variables of a run go with it.
Over(job) == [NoJob EXCEPT !.status = job.status, !.session = job.session, !.reply = job.reply,
                           !.pc = "over", !.outcome = job.outcome]

TypeOK ==
  /\ sessions \in [Sessions -> SessionRow]
  /\ archived \in BOOLEAN
  /\ replies \in [Replies -> Reply]
  /\ workers \in [Workers -> Worker]
  /\ lock \in [Sessions -> Workers \cup {NoWorker}]
  /\ jobs \in [Jobs -> Job]
  /\ applied \in [Sessions -> Jobs \cup {0}]
  /\ faults \in 0..MaxFaults

IdleWorker(phase) == [phase |-> phase, pc |-> "idle", todo |-> {}, session |-> 0, reply |-> 0]

Init ==
  /\ sessions = [s \in Sessions |-> [source |-> "absent", eligible |-> 0, attempted |-> 0]]
  /\ archived = FALSE
  /\ replies = [m \in Replies |-> [session |-> 0, state |-> "free", whole |-> FALSE]]
  /\ workers = [w \in Workers |-> IdleWorker("up")]
  /\ lock = [s \in Sessions |-> NoWorker]
  /\ jobs = [k \in Jobs |-> NoJob]
  /\ applied = [s \in Sessions |-> 0]
  /\ faults = 0

-----------------------------------------------------------------------------
Live(s) == sessions[s].source \notin {"absent", "deleted"}

\* An open reply holds its session row: the insert and the update of updatedAt.
RowLocked(s) == \E m \in Replies : replies[m].session = s /\ replies[m].state = "open"

Fault == faults < MaxFaults /\ faults' = faults + 1

(* The users' sessions: createSession, updateSessionInWorkspace with a     *)
(* title, deleteSessionInWorkspace, and the deletion of the workspace.     *)
CreateSession(s) ==
  /\ sessions[s].source = "absent" /\ ~archived
  /\ \E source \in {"PLACEHOLDER", "USER"} : sessions' = [sessions EXCEPT ![s].source = source]
  /\ UNCHANGED <<archived, replies, workers, lock, jobs, applied, faults>>

RenameSession(s) ==
  /\ Live(s) /\ ~RowLocked(s) /\ ~archived
  /\ sessions' = [sessions EXCEPT ![s].source = "USER"]
  /\ UNCHANGED <<archived, replies, workers, lock, jobs, applied, faults>>

DeleteSession(s) ==
  /\ Live(s) /\ ~RowLocked(s) /\ ~archived
  /\ sessions' = [sessions EXCEPT ![s].source = "deleted"]
  /\ UNCHANGED <<archived, replies, workers, lock, jobs, applied, faults>>

ArchiveWorkspace ==
  /\ ~archived
  /\ Fault
  /\ archived' = TRUE
  /\ UNCHANGED <<sessions, replies, workers, lock, jobs, applied>>

-----------------------------------------------------------------------------
(* createGeneratedAssistantMessage: the id is drawn when the transaction   *)
(* inserts the message, the message is seen when it commits; two replies   *)
(* of one session may commit in the other order.                           *)

InsertReply(s) ==
  /\ Live(s)
  /\ \E m \in Replies, whole \in BOOLEAN :
       /\ replies[m].state = "free" /\ \A n \in 1..(m - 1) : replies[n].state # "free"
       /\ replies' = [replies EXCEPT ![m] = [session |-> s, state |-> "open", whole |-> whole]]
  /\ UNCHANGED <<sessions, archived, workers, lock, jobs, applied, faults>>

\* Mutants: the last reply to commit is the latest eligible one; the mark is the id
\* the next reply will have.
MarkLastCommitted(row, m) ==
  IF row.source = "PLACEHOLDER" THEN [row EXCEPT !.eligible = m] ELSE row

MarkNextId(row, m) ==
  IF row.source = "PLACEHOLDER" THEN [row EXCEPT !.eligible = m + 1] ELSE row

MarkEligible(row, m) ==
  IF row.source = "PLACEHOLDER" /\ row.eligible < m THEN [row EXCEPT !.eligible = m] ELSE row

CommitReply(m) ==
  /\ replies[m].state = "open"
  /\ replies' = [replies EXCEPT ![m].state = "stored"]
  /\ LET s == replies[m].session IN
       sessions' = IF replies[m].whole THEN [sessions EXCEPT ![s] = MarkEligible(@, m)]
                   ELSE sessions
  /\ UNCHANGED <<archived, workers, lock, jobs, applied, faults>>

RollBackReply(m) ==
  /\ replies[m].state = "open"
  /\ Fault
  /\ replies' = [replies EXCEPT ![m].state = "rolled_back"]
  /\ UNCHANGED <<sessions, archived, workers, lock, jobs, applied>>

-----------------------------------------------------------------------------
(* The scheduler: startSessionTitleScheduler, enqueueEligibleSessionTitles,*)
(* withSessionLock and claimLatest.                                        *)

ActiveJobs(s) ==
  {k \in Jobs : jobs[k].session = s /\ jobs[k].status \in {"QUEUED", "RUNNING", "CANCEL_REQUESTED"}}

\* Mutant: an active job does not block the next one.
ClaimableBesideJob(s) ==
  /\ sessions[s].source = "PLACEHOLDER" /\ ~archived
  /\ sessions[s].eligible > sessions[s].attempted

\* What findCandidates and claimLatest both ask of a session.
Claimable(s) ==
  /\ sessions[s].source = "PLACEHOLDER" /\ ~archived
  /\ sessions[s].eligible > sessions[s].attempted
  /\ ActiveJobs(s) = {}

Go(w, pc) == workers' = [workers EXCEPT ![w].pc = pc]

\* runTick and findCandidates(limit), by id; a tick without candidates is over.
Tick(w) ==
  /\ workers[w].phase = "up" /\ workers[w].pc = "idle"
  /\ LET found == {s \in Sessions : Claimable(s)}
         batch == {s \in found : Cardinality({i \in found : i < s}) < BatchSize}
     IN workers' = [workers EXCEPT ![w].pc = IF batch = {} THEN "idle" ELSE "lock",
                                   ![w].todo = batch]
  /\ UNCHANGED <<sessions, archived, replies, lock, jobs, applied, faults>>

\* The tick of w leaves its candidate for the next one, or ends.
NextCandidate(w) ==
  workers' = [workers EXCEPT ![w].pc = IF workers[w].todo = {} THEN "idle" ELSE "lock",
                             ![w].session = 0, ![w].reply = 0]

\* The scheduler looks whether it has been stopped before each candidate; a
\* session whose lock is taken is left to the holder.
TryLock(w) ==
  /\ workers[w].pc = "lock"
  /\ LET s == Min(workers[w].todo)
         rest == workers[w].todo \ {s}
     IN \/ /\ workers[w].phase = "stopping"
           /\ workers' = [workers EXCEPT ![w].pc = "idle", ![w].todo = {}]
           /\ UNCHANGED lock
        \/ /\ workers[w].phase = "up" /\ lock[s] = NoWorker
           /\ lock' = [lock EXCEPT ![s] = w]
           /\ workers' = [workers EXCEPT ![w].pc = "read", ![w].todo = rest, ![w].session = s]
        \/ /\ workers[w].phase = "up" /\ lock[s] # NoWorker
           /\ workers' = [workers EXCEPT ![w].pc = IF rest = {} THEN "idle" ELSE "lock",
                                         ![w].todo = rest]
           /\ UNCHANGED lock
  /\ UNCHANGED <<sessions, archived, replies, jobs, applied, faults>>

\* The reads of claimLatest.
ReadClaim(w) ==
  /\ workers[w].pc = "read"
  /\ LET s == workers[w].session IN
       workers' = IF Claimable(s)
                  THEN [workers EXCEPT ![w].pc = "write", ![w].reply = sessions[s].eligible]
                  ELSE [workers EXCEPT ![w].pc = "unlock"]
  /\ UNCHANGED <<sessions, archived, replies, lock, jobs, applied, faults>>

\* The condition of the update of claimLatest.
StillLatest(row, m) == row.source = "PLACEHOLDER" /\ row.eligible = m /\ row.attempted < m

\* Mutant: the attempt is not recorded.
WriteNoClaim(w) ==
  /\ workers[w].pc = "write"
  /\ Go(w, IF StillLatest(sessions[workers[w].session], workers[w].reply) THEN "enqueue"
           ELSE "unlock")
  /\ UNCHANGED <<sessions, archived, replies, lock, jobs, applied, faults>>

WriteClaim(w) ==
  /\ workers[w].pc = "write"
  /\ LET s == workers[w].session
         m == workers[w].reply
     IN /\ ~RowLocked(s)
        /\ IF StillLatest(sessions[s], m)
           THEN sessions' = [sessions EXCEPT ![s].attempted = m] /\ Go(w, "enqueue")
           ELSE UNCHANGED sessions /\ Go(w, "unlock")
  /\ UNCHANGED <<archived, replies, lock, jobs, applied, faults>>

NewJob(w, status) ==
  \E k \in Jobs :
    /\ jobs[k].status = "NONE" /\ \A i \in 1..(k - 1) : jobs[i].status # "NONE"
    /\ jobs' = [jobs EXCEPT ![k] = [NoJob EXCEPT !.status = status, !.reply = workers[w].reply,
                                                 !.session = workers[w].session]]

\* Mutant: a session renamed since the claim gets no job.
EnqueueIfUnnamed(w) ==
  /\ workers[w].pc = "enqueue"
  /\ IF sessions[workers[w].session].source = "PLACEHOLDER" THEN NewJob(w, "QUEUED")
     ELSE UNCHANGED jobs
  /\ Go(w, "unlock")
  /\ UNCHANGED <<sessions, archived, replies, lock, applied, faults>>

EnqueueTitle(w) ==
  /\ workers[w].pc = "enqueue"
  /\ NewJob(w, "QUEUED")
  /\ Go(w, "unlock")
  /\ UNCHANGED <<sessions, archived, replies, lock, applied, faults>>

\* enqueueJob returns the job it has marked failed.
EnqueueFails(w) ==
  /\ workers[w].pc = "enqueue"
  /\ Fault
  /\ NewJob(w, "FAILED")
  /\ Go(w, "unlock")
  /\ UNCHANGED <<sessions, archived, replies, lock, applied>>

\* Mutant: only a session that was claimed is unlocked.
UnlockClaimed(w) ==
  /\ workers[w].pc = "unlock"
  /\ lock' = [lock EXCEPT ![workers[w].session] = IF workers[w].reply = 0 THEN @ ELSE NoWorker]
  /\ NextCandidate(w)
  /\ UNCHANGED <<sessions, archived, replies, jobs, applied, faults>>

Unlock(w) ==
  /\ workers[w].pc = "unlock"
  /\ lock' = [lock EXCEPT ![workers[w].session] = NoWorker]
  /\ NextCandidate(w)
  /\ UNCHANGED <<sessions, archived, replies, jobs, applied, faults>>

TickStep(w) ==
  \/ TryLock(w) \/ ReadClaim(w) \/ WriteClaim(w)
  \/ EnqueueTitle(w) \/ Unlock(w)

-----------------------------------------------------------------------------
(* Worker processes.  stop() waits for the tick in flight; the queue then  *)
(* waits its grace period for runs, and what still runs is lost.           *)

LoseRuns(w) ==
  [k \in Jobs |-> IF jobs[k].worker = w THEN Over(jobs[k]) ELSE jobs[k]]

StopWorker(w) ==
  /\ workers[w].phase = "up"
  /\ Fault
  /\ workers' = [workers EXCEPT ![w].phase = "stopping"]
  /\ UNCHANGED <<sessions, archived, replies, lock, jobs, applied>>

CloseQueue(w) ==
  /\ workers[w].phase = "stopping" /\ workers[w].pc = "idle"
  /\ workers' = [workers EXCEPT ![w] = IdleWorker("down")]
  /\ jobs' = LoseRuns(w)
  /\ UNCHANGED <<sessions, archived, replies, lock, applied, faults>>

\* The connection of the advisory lock dies with the process.
Crash(w) ==
  /\ workers[w].phase \in {"up", "stopping"}
  /\ Fault
  /\ workers' = [workers EXCEPT ![w] = IdleWorker("down")]
  /\ lock' = [s \in Sessions |-> IF lock[s] = w THEN NoWorker ELSE lock[s]]
  /\ jobs' = LoseRuns(w)
  /\ UNCHANGED <<sessions, archived, replies, applied>>

\* RUNNING jobs without a heartbeat: the run is gone, or was aborted.
Silent == {k \in Jobs : jobs[k].status = "RUNNING" /\ (jobs[k].pc = "over" \/ jobs[k].aborted)}

\* recoverStaleRunningJobs fails those whose last heartbeat is old enough: they
\* have no attempt left.
StartWorker(w) ==
  /\ workers[w].phase = "down"
  /\ workers' = [workers EXCEPT ![w] = IdleWorker("up")]
  /\ \E stale \in SUBSET Silent :
       jobs' = [k \in Jobs |-> IF k \in stale THEN [jobs[k] EXCEPT !.status = "FAILED"]
                               ELSE jobs[k]]
  /\ UNCHANGED <<sessions, archived, replies, lock, applied, faults>>

-----------------------------------------------------------------------------
(* A title job: createSessionTitleJobHandler in its run.                   *)

\* The end of the run: a final status stays what it is.
Ended(job, status) ==
  [Over(job) EXCEPT !.status = IF @ = "CANCEL_REQUESTED" THEN "CANCELLED"
                               ELSE IF @ = "RUNNING" THEN status ELSE @]

CancelJob(k) ==
  /\ jobs[k].status \in {"QUEUED", "RUNNING"}
  /\ jobs' = [jobs EXCEPT ![k].status = "CANCEL_REQUESTED"]
  /\ UNCHANGED <<sessions, archived, replies, workers, lock, applied, faults>>

StartJob(w, k) ==
  /\ workers[w].phase = "up"
  /\ jobs[k].status \in {"QUEUED", "CANCEL_REQUESTED"} /\ jobs[k].pc = "waiting"
  /\ jobs' = [jobs EXCEPT ![k] =
                IF @.status = "QUEUED"
                THEN [@ EXCEPT !.worker = w, !.pc = "checkpoint", !.status = "RUNNING"]
                ELSE Ended(@, "FAILED")]
  /\ UNCHANGED <<sessions, archived, replies, workers, lock, applied, faults>>

\* pg-boss aborts the run's signal; the heartbeats stop and the run goes on.
AbortRun(k) ==
  /\ jobs[k].worker # NoWorker /\ ~jobs[k].aborted
  /\ Fault
  /\ jobs' = [jobs EXCEPT ![k].aborted = TRUE]
  /\ UNCHANGED <<sessions, archived, replies, workers, lock, applied>>

Then(k, pc) == jobs' = [jobs EXCEPT ![k].pc = pc]

\* The handler returns an outcome without having touched the session.
Returns(k, outcome) == jobs' = [jobs EXCEPT ![k].pc = "finish", ![k].outcome = outcome]

\* The handler throws; an aborted run ends without a word.
Throws(k) ==
  jobs' = [jobs EXCEPT ![k] = IF jobs[k].aborted THEN Over(@) ELSE Ended(@, "FAILED")]

FirstCheckpoint(k) ==
  /\ jobs[k].pc = "checkpoint"
  /\ IF jobs[k].status = "CANCEL_REQUESTED" THEN jobs' = [jobs EXCEPT ![k] = Ended(@, "FAILED")]
     ELSE Then(k, "find")
  /\ UNCHANGED <<sessions, archived, replies, workers, lock, applied, faults>>

Stored(s) == {m \in Replies : replies[m].session = s /\ replies[m].state = "stored" /\ Live(s)}
Whole(ids) == {m \in ids : replies[m].whole}

FindEligible(k) ==
  /\ jobs[k].pc = "find"
  /\ LET s == jobs[k].session
         m == jobs[k].reply
     IN IF sessions[s].source = "PLACEHOLDER" /\ sessions[s].eligible = m /\ ~archived
        THEN jobs' = [jobs EXCEPT ![k].pc = "collect",
                                  ![k].known = Whole({n \in Stored(s) : n <= m})]
        ELSE Returns(k, "KEPT")
  /\ UNCHANGED <<sessions, archived, replies, workers, lock, applied, faults>>

Newest(ids, count) == {m \in ids : Cardinality({n \in ids : n > m}) < count}

\* Mutant: the cursor skips a reply.
PageSkipping(k) ==
  Newest({m \in Stored(jobs[k].session) : m <= jobs[k].reply /\ m + 1 < jobs[k].before}, PageSize)

\* findLinkedAssistants
Page(k) ==
  Newest({m \in Stored(jobs[k].session) : m <= jobs[k].reply /\ m < jobs[k].before}, PageSize)

\* One page of the loop over linked replies; the first must begin with the claimed one.
CollectPage(k) ==
  /\ jobs[k].pc = "collect"
  /\ LET page == Page(k)
         first == jobs[k].before = MaxReplies + 1
         pairs == Newest(jobs[k].pairs \cup Whole(page), MaxExchanges)
     IN \/ /\ first /\ jobs[k].reply \notin page
           /\ Returns(k, "KEPT")
        \/ /\ first => jobs[k].reply \in page
           /\ IF Cardinality(pairs) = MaxExchanges \/ Cardinality(page) < PageSize
              THEN jobs' = [jobs EXCEPT ![k].pc = "complete", ![k].pairs = pairs]
              ELSE jobs' = [jobs EXCEPT ![k].before = Min(page), ![k].pairs = pairs]
  /\ UNCHANGED <<sessions, archived, replies, workers, lock, applied, faults>>

\* The provider and model of the claimed reply are resolved and called: they answer,
\* are not available any more, or fail, or the signal stops the call.  The usage that
\* is recorded of the call is read by nobody here.
CallModel(k) ==
  /\ jobs[k].pc = "complete"
  /\ \/ ~jobs[k].aborted /\ (Then(k, "verify") \/ Returns(k, "KEPT"))
     \/ Throws(k)
  /\ UNCHANGED <<sessions, archived, replies, workers, lock, applied, faults>>

\* The second checkpoint, then the answer: cut off, NOT_ENOUGH_CONTEXT, no title
\* parseTitle accepts, or a title.
VerifyAnswer(k) ==
  /\ jobs[k].pc = "verify"
  /\ \/ /\ jobs[k].status = "CANCEL_REQUESTED"
        /\ jobs' = [jobs EXCEPT ![k] = Ended(@, "FAILED")]
     \/ /\ jobs[k].status # "CANCEL_REQUESTED"
        /\ \/ Returns(k, "KEPT") \/ Then(k, "apply")
  /\ UNCHANGED <<sessions, archived, replies, workers, lock, applied, faults>>

\* Mutant: a title is applied to whatever session is still there.
TakesAnyTitle(s) == Live(s)

\* The condition of applyGeneratedTitleInWorkspace.
TakesTitle(s) == sessions[s].source = "PLACEHOLDER"

ApplyTitle(k) ==
  /\ jobs[k].pc = "apply"
  /\ LET s == jobs[k].session IN
       /\ ~RowLocked(s)
       /\ IF TakesTitle(s)
          THEN /\ sessions' = [sessions EXCEPT ![s].source = "GENERATED"]
               /\ applied' = [applied EXCEPT ![s] = k]
               /\ Returns(k, "APPLIED")
          ELSE UNCHANGED <<sessions, applied>> /\ Returns(k, "KEPT")
  /\ UNCHANGED <<archived, replies, workers, lock, faults>>

\* The runner stores the result, unless a cancellation came first.
FinishJob(k) ==
  /\ jobs[k].pc = "finish"
  /\ jobs' = [jobs EXCEPT ![k] = Ended(@, "SUCCEEDED")]
  /\ UNCHANGED <<sessions, archived, replies, workers, lock, applied, faults>>

JobStep(k) ==
  \/ FirstCheckpoint(k) \/ FindEligible(k) \/ CollectPage(k)
  \/ CallModel(k) \/ VerifyAnswer(k) \/ ApplyTitle(k) \/ FinishJob(k)

-----------------------------------------------------------------------------
Next ==
  \/ \E s \in Sessions : CreateSession(s) \/ RenameSession(s) \/ DeleteSession(s) \/ InsertReply(s)
  \/ ArchiveWorkspace
  \/ \E m \in Replies : CommitReply(m) \/ RollBackReply(m)
  \/ \E w \in Workers : \/ Tick(w) \/ TickStep(w) \/ EnqueueFails(w)
                          \/ StopWorker(w) \/ CloseQueue(w) \/ Crash(w) \/ StartWorker(w)
  \/ \E k \in Jobs : \/ CancelJob(k) \/ AbortRun(k) \/ JobStep(k)
                       \/ \E w \in Workers : StartJob(w, k)

Spec == Init /\ [][Next]_vars

(***************************************************************************)
(* Fairness: the interval fires while a worker is up, a worker that ended  *)
(* is started again, processes take their next statement, transactions     *)
(* end, queued jobs are delivered.  Users and faults owe nothing.          *)
(***************************************************************************)
Fairness ==
  /\ \A w \in Workers : WF_vars(Tick(w) \/ TickStep(w) \/ StartWorker(w) \/ CloseQueue(w))
  /\ \A k \in Jobs : WF_vars(JobStep(k) \/ \E w \in Workers : StartJob(w, k))
  /\ \A m \in Replies : WF_vars(CommitReply(m))

FairSpec == Spec /\ Fairness

-----------------------------------------------------------------------------
Ownership == INSTANCE TitleOwnership WITH owner <- [s \in Sessions |-> sessions[s].source]

\* A session is titled by a job at most once and only while nobody named it: a
\* generated title is applied after the user renamed the session by no interleaving
\* of the rename, the claims and the jobs.
KeepsOwnership == Ownership!Spec

\* A session never has two active title jobs, however the ticks of several workers,
\* their crashes and the jobs' ends interleave.
OneActiveJob == \A s \in Sessions : Cardinality(ActiveJobs(s)) <= 1

\* No reply is tried twice: failed, cancelled and exhausted jobs wait for a newer reply.
ReplyTriedOnce ==
  \A k, l \in Jobs : k < l /\ jobs[l].status # "NONE" /\ jobs[k].session = jobs[l].session
                      => jobs[k].reply < jobs[l].reply

\* The mark of a placeholder session is its newest whole reply, in whichever order
\* the replies were committed.
EligibleIsNewest ==
  \A s \in Sessions : sessions[s].source = "PLACEHOLDER" =>
    sessions[s].eligible = (IF Whole(Stored(s)) = {} THEN 0 ELSE Max(Whole(Stored(s))))

\* A job reports APPLIED exactly when the session got its title, also where the run
\* of a job given up as stale goes on beside the next job's run.
AppliedIsTrue ==
  \A k \in Jobs : jobs[k].outcome = "APPLIED" <=>
                   jobs[k].session # 0 /\ applied[jobs[k].session] = k

\* A title is asked for with the newest whole exchanges up to the claimed reply, at
\* most MaxExchanges: whichever page a reply is on, and whatever is stored meanwhile.
ReadsNewest ==
  \A k \in Jobs : jobs[k].pc \in {"complete", "verify", "apply"} =>
    /\ Cardinality(jobs[k].pairs) <= MaxExchanges /\ jobs[k].reply \in jobs[k].pairs
    /\ \A m \in (jobs[k].known \cap Stored(jobs[k].session)) \ jobs[k].pairs :
         Cardinality({p \in jobs[k].pairs : p > m}) = MaxExchanges

\* A claim without a job is the trace of a crash: nothing else uses up a reply.
ClaimHasJob ==
  \A s \in Sessions :
    LET m == sessions[s].attempted IN
    \/ m = 0 \/ faults > 0
    \/ \E k \in Jobs : jobs[k].session = s /\ jobs[k].reply = m
    \/ \E w \in Workers : lock[s] = w /\ workers[w].pc = "enqueue" /\ workers[w].reply = m

\* A job whose run is lost and which no start-up sweep has ended.
Stranded(k) == jobs[k].pc = "over" /\ ~isTerminalJobStatus(jobs[k].status)

\* A placeholder with an untried reply gets its attempt, unless a stranded job keeps
\* it: no worker, lock or candidate order starves a session.
EligibleIsTried ==
  \A s \in Sessions :
    sessions[s].source = "PLACEHOLDER" /\ sessions[s].eligible > sessions[s].attempted
    ~> \/ sessions[s].source # "PLACEHOLDER" \/ archived
       \/ sessions[s].eligible = sessions[s].attempted
       \/ \E k \in ActiveJobs(s) : Stranded(k)
\* A reply is one try, by one job, whichever workers tick and crash; only a crash loses it.
TriesAreSingle == OneActiveJob /\ ReplyTriedOnce /\ ClaimHasJob

\* What a title is made of is what the database holds: the newest whole reply is marked, the
\* newest exchanges are read, and APPLIED is reported of the job whose title it is.
TitlesAreOfTheSession == EligibleIsNewest /\ ReadsNewest /\ AppliedIsTrue
=============================================================================
