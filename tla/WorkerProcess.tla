---------------------------- MODULE WorkerProcess ----------------------------
(***************************************************************************)
(* The worker program (worker.ts) and what it composes                     *)
(* (composition/worker.ts): a start that opens the CPU pool, the queue     *)
(* client, the consumers and the two schedulers one after the other and    *)
(* undoes itself when a step fails; a stop that waits for the start and    *)
(* closes everything; signals that come at any time.  The health scheduler *)
(* (providerHealthSamplingJob.ts) is followed in detail, because several   *)
(* workers share its one job: the rows of sampling jobs are the database.  *)
(* What a run does with its row is the matter of JobSystem, the claims of  *)
(* a title tick that of SessionTitles.                                     *)
(***************************************************************************)
EXTENDS Naturals, FiniteSets

CONSTANTS
  Workers,    \* worker processes on one database
  Rows,       \* rows for sampling jobs that are not terminal
  None,
  MaxStarts,  \* bound on starts of processes
  MaxFaults   \* bound on failing calls, kills, expired transactions, cancellations

ASSUME WorkerCounts == {MaxStarts, MaxFaults} \subseteq Nat /\ None \notin Workers \cup Rows

VARIABLES
  proc,     \* worker -> its process
  job,      \* sampling job -> its status; "none": no row, or a terminal one
  lock,     \* who holds the advisory lock of the sampling enqueue
  expired,  \* history: a transaction with that lock has timed out
  starts, faults

vars == <<proc, job, lock, expired, starts, faults>>

-----------------------------------------------------------------------------
Resources == {"pool", "queue", "health", "titles"}
Starting == {"client", "boot", "consume", "sweep"}  \* awaits of startResources()

Proc ==
  [main : {"off", "connect", "undo", "up", "failing", "bye", "gone"} \cup Starting, \* startWorker()
   shut : {"no", "stop", "disconnect"},     \* shutdown()
   stop : {"no", "wait", "dispose"},        \* stopPromise
   disp : {"no", "titles", "queue", "pool"},\* disposeResources()
   held : SUBSET Resources,                 \* the fields of the composition
   open : SUBSET Resources,                 \* what is really open or ticking
   closing : SUBSET Resources,              \* what the running disposal has taken over
   broken : BOOLEAN,                        \* failure, of the running disposal
   shutdownError : BOOLEAN,
   title : {"idle", "scan", "send"},        \* the tick of the title scheduler
   health : {"idle", "owner", "look", "create", "send"},
   row : Rows \cup {None},                  \* what the health tick has created
   run : Rows \cup {None},                  \* the sampling job that runs here
   code : {"none", "clean", "failed", "killed"},
   past : SUBSET {"early", "undone"}]       \* history, see CleanExit

TypeOK ==
  /\ proc \in [Workers -> Proc]
  /\ job \in [Rows -> {"none", "unsent", "queued", "running", "cancelling"}]
  /\ lock \in Workers \cup {None} /\ expired \in BOOLEAN
  /\ starts \in 0..MaxStarts /\ faults \in 0..MaxFaults

Off == [main |-> "off", shut |-> "no", stop |-> "no", disp |-> "no", held |-> {}, open |-> {},
        closing |-> {}, broken |-> FALSE, shutdownError |-> FALSE, title |-> "idle",
        health |-> "idle", row |-> None, run |-> None, code |-> "none", past |-> {}]

Init ==
  /\ proc = [w \in Workers |-> Off] /\ job = [j \in Rows |-> "none"]
  /\ lock = None /\ expired = FALSE /\ starts = 0 /\ faults = 0

Fault == faults < MaxFaults /\ faults' = faults + 1
Smooth == UNCHANGED faults
Becomes(w, p) == proc' = [proc EXCEPT ![w] = p] /\ UNCHANGED starts
NoJobs == UNCHANGED <<job, lock, expired>>
Alive(w) == proc[w].main \notin {"off", "gone"}

-----------------------------------------------------------------------------
(* composition.stop() and disposeResources().                              *)

Open(p, r) == [p EXCEPT !.held = @ \cup r, !.open = @ \cup r]

\* The fields are cleared first; the title scheduler is told to stop at once.
BeginDispose(p) ==
  [p EXCEPT !.closing = p.held, !.held = {}, !.open = @ \ (p.held \cap {"titles"}),
            !.disp = "titles", !.broken = FALSE]

CallStop(p) == IF p.stop = "no" THEN [p EXCEPT !.stop = "wait"] ELSE p

\* Everybody who awaits stopPromise goes on.
EndStop(p) ==
  [p EXCEPT !.stop = "no",
            !.shutdownError = @ \/ (p.shut = "stop" /\ p.broken),
            !.shut = IF @ = "stop" THEN "disconnect" ELSE @,
            !.main = IF @ = "failing" THEN "bye" ELSE @]

\* The catch of startResources swallows the failure of its disposal, and startWorker's
\* own catch calls stop.
EndDispose(p) ==
  LET q == [p EXCEPT !.disp = "no", !.closing = {}]
  IN IF p.main = "undo"
     THEN CallStop([q EXCEPT !.main = "failing",
                             !.past = @ \cup IF p.broken THEN {"undone"} ELSE {}])
     ELSE EndStop(q)

\* Mutant: stop does not wait for a start under way.
StopAtOnce(w) ==
  /\ proc[w].stop = "wait"
  /\ Becomes(w, [BeginDispose(proc[w]) EXCEPT !.stop = "dispose"])
  /\ Smooth /\ NoJobs

StopGoesOn(w) ==
  /\ proc[w].stop = "wait" /\ proc[w].main \notin Starting \cup {"undo"}
  /\ Becomes(w, [BeginDispose(proc[w]) EXCEPT !.stop = "dispose"])
  /\ Smooth /\ NoJobs

\* Mutant: the title scheduler's stop does not await the tick.
TitlesCut(w) ==
  /\ proc[w].disp = "titles"
  /\ Becomes(w, [proc[w] EXCEPT !.disp = "queue", !.open = @ \ (proc[w].closing \cap {"health"})])
  /\ Smooth /\ NoJobs

\* The title scheduler's stop awaits its tick, the health scheduler's does not.
TitlesStopped(w) ==
  /\ proc[w].disp = "titles" /\ ("titles" \in proc[w].closing => proc[w].title = "idle")
  /\ Becomes(w, [proc[w] EXCEPT !.disp = "queue", !.open = @ \ (proc[w].closing \cap {"health"})])
  /\ Smooth /\ NoJobs

\* boss.stop() ends when the runs have ended or WORKER_SHUTDOWN_GRACE_MS are over.
QueueStopped(w) ==
  /\ proc[w].disp = "queue"
  /\ \/ /\ Smooth
        /\ Becomes(w, [proc[w] EXCEPT !.disp = "pool", !.open = @ \ (proc[w].closing \cap {"queue"})])
     \/ /\ "queue" \in proc[w].closing /\ Fault
        /\ Becomes(w, [proc[w] EXCEPT !.disp = "pool", !.broken = TRUE])
  /\ NoJobs

\* Mutant: the failure of the pool is not kept.
PoolForgotten(w) ==
  LET rest == proc[w].open \ (proc[w].closing \cap {"pool"})
  IN /\ proc[w].disp = "pool"
     /\ \/ Smooth /\ Becomes(w, EndDispose([proc[w] EXCEPT !.open = rest]))
        \/ /\ "pool" \in proc[w].closing /\ Fault
           /\ \E o \in {rest, proc[w].open} : Becomes(w, EndDispose([proc[w] EXCEPT !.open = o]))
     /\ NoJobs

\* A pool that does not close is destroyed, which may fail too.
PoolClosed(w) ==
  LET rest == proc[w].open \ (proc[w].closing \cap {"pool"})
  IN /\ proc[w].disp = "pool"
     /\ \/ Smooth /\ Becomes(w, EndDispose([proc[w] EXCEPT !.open = rest]))
        \/ /\ "pool" \in proc[w].closing /\ Fault
           /\ \E o \in {rest, proc[w].open} :
                Becomes(w, EndDispose([proc[w] EXCEPT !.open = o, !.broken = TRUE]))
     /\ NoJobs

-----------------------------------------------------------------------------
(* startWorker() and startResources().                                     *)

Boot(w) ==
  /\ ~Alive(w) /\ starts < MaxStarts /\ starts' = starts + 1
  /\ proc' = [proc EXCEPT ![w] = [Off EXCEPT !.main = "connect"]]
  /\ Smooth /\ NoJobs

\* The database is connected: composition.start(), which waits for a stop under way.
Connected(w) ==
  /\ proc[w].main = "connect" /\ proc[w].stop = "no"
  /\ Becomes(w, Open([proc[w] EXCEPT !.main = "client"], {"pool"}))
  /\ Smooth /\ NoJobs

ClientCreated(w) ==
  /\ proc[w].main = "client"
  /\ Becomes(w, Open([proc[w] EXCEPT !.main = "boot"], {"queue"}))
  /\ Smooth /\ NoJobs

BossStarted(w) ==
  /\ proc[w].main = "boot"
  /\ Becomes(w, [proc[w] EXCEPT !.main = "consume"])
  /\ Smooth /\ NoJobs

\* The queues exist and have their consumers; the health scheduler starts with a tick.
Consuming(w) ==
  /\ proc[w].main = "consume"
  /\ Becomes(w, Open([proc[w] EXCEPT !.main = "sweep", !.health = "owner"], {"health"}))
  /\ Smooth /\ NoJobs

RunsSomewhere(j) == \E w \in Workers : proc[w].run = j

\* Both sweeps: jobs without a message get one; a run nobody keeps alive is failed, once
\* it has been silent for WORKER_STALE_JOB_MS.  Then the title scheduler, with a tick.
Swept(w) ==
  /\ proc[w].main = "sweep"
  /\ \E stale \in SUBSET {j \in Rows : job[j] = "running" /\ ~RunsSomewhere(j)} :
       job' = [j \in Rows |-> IF j \in stale THEN "none"
                              ELSE IF job[j] = "unsent" THEN "queued" ELSE job[j]]
  /\ Becomes(w, Open([proc[w] EXCEPT !.main = "up", !.title = "scan"], {"titles"}))
  /\ Smooth /\ UNCHANGED <<lock, expired>>

StartFails(w) ==
  /\ proc[w].main \in Starting /\ Fault
  /\ Becomes(w, [BeginDispose(proc[w]) EXCEPT !.main = "undo"])
  /\ NoJobs

-----------------------------------------------------------------------------
(* The ends of a process.                                                  *)

Gone(w, how) ==
  /\ Becomes(w, [proc[w] EXCEPT !.main = "gone", !.shut = "no", !.stop = "no", !.disp = "no",
                   !.held = {}, !.closing = {}, !.broken = FALSE, !.shutdownError = FALSE,
                   !.title = "idle", !.health = "idle", !.row = None, !.run = None, !.code = how])
  /\ lock' = IF lock = w THEN None ELSE lock
  /\ UNCHANGED <<job, expired>>

Signal(w) ==
  /\ Alive(w) /\ proc[w].shut = "no"
  /\ Becomes(w, CallStop([proc[w] EXCEPT !.shut = "stop",
                            !.past = @ \cup IF proc[w].main = "connect" THEN {"early"} ELSE {}]))
  /\ Smooth /\ NoJobs

\* prisma.$disconnect() and process.exit(), of shutdown and of startWorker's catch.
ShutdownExits(w) ==
  /\ proc[w].shut = "disconnect"
  /\ \/ Smooth /\ Gone(w, IF proc[w].shutdownError THEN "failed" ELSE "clean")
     \/ Fault /\ Gone(w, "failed")

FailedStartExits(w) ==
  \/ proc[w].main = "bye" /\ Smooth /\ Gone(w, "failed")
  \/ proc[w].main = "connect" /\ Fault /\ Gone(w, "failed")

Killed(w) == Alive(w) /\ Fault /\ Gone(w, "killed")

-----------------------------------------------------------------------------
(* The ticks of the title scheduler: scan the candidates, claim and send.  *)

\* Mutant: inFlight is not cleared when a tick fails.
TitleTickHangs(w) ==
  LET go(t) == Becomes(w, [proc[w] EXCEPT !.title = t])
  IN /\ Alive(w)
     /\ \/ proc[w].title = "idle" /\ "titles" \in proc[w].open /\ go("scan")
        \/ proc[w].title = "scan" /\ "titles" \in proc[w].open /\ go("send")
        \/ proc[w].title = "scan" /\ go("idle")
     /\ Smooth /\ NoJobs

\* After stop() the loop ends before its next candidate.
TitleTick(w) ==
  LET go(t) == Becomes(w, [proc[w] EXCEPT !.title = t])
  IN /\ Alive(w)
     /\ \/ proc[w].title = "idle" /\ "titles" \in proc[w].open /\ go("scan")
        \/ proc[w].title = "scan" /\ "titles" \in proc[w].open /\ go("send")
        \/ proc[w].title = "scan" /\ go("idle")
        \/ proc[w].title = "send" /\ go("scan")
     /\ Smooth /\ NoJobs

-----------------------------------------------------------------------------
(* The ticks of the health scheduler, which share one job between workers. *)

Release(w) == lock' = IF lock = w THEN None ELSE lock
Tick(w, at) == Becomes(w, [proc[w] EXCEPT !.health = at])

HealthTick(w) ==
  /\ Alive(w) /\ proc[w].health = "idle" /\ "health" \in proc[w].open
  /\ Tick(w, "owner") /\ Smooth /\ NoJobs

\* findProviderHealthSamplingJobOwner, then pg_try_advisory_xact_lock; without an
\* administrator or without the lock the tick is over.
TakeLock(w) ==
  /\ proc[w].health = "owner" /\ UNCHANGED <<job, expired>>
  /\ \/ lock = None /\ lock' = w /\ Tick(w, "look") /\ Smooth
     \/ lock # None /\ UNCHANGED lock /\ Tick(w, "idle") /\ Smooth
     \/ UNCHANGED lock /\ Tick(w, "idle") /\ Fault

Active == {j \in Rows : job[j] # "none"}

\* Mutant: the job is created after the transaction that looked.
LookThenUnlock(w) ==
  /\ proc[w].health = "look" /\ UNCHANGED <<job, expired>> /\ Smooth /\ Release(w)
  /\ Tick(w, IF lock = w /\ Active = {} THEN "create" ELSE "idle")

\* Mutant: the lock of the session, not of the transaction, so that a skipped tick keeps it.
LookKeepingLock(w) ==
  /\ proc[w].health = "look" /\ UNCHANGED <<job, lock, expired>> /\ Smooth
  /\ Tick(w, IF lock = w /\ Active = {} THEN "create" ELSE "idle")

\* findLatestNonTerminalJobByType, in the transaction of the lock.
LookForJob(w) ==
  /\ proc[w].health = "look" /\ UNCHANGED <<job, expired>> /\ Smooth
  /\ IF lock = w /\ Active = {} THEN UNCHANGED lock /\ Tick(w, "create")
     ELSE Release(w) /\ Tick(w, "idle")

FreeRows == {j \in Rows : job[j] = "none" /\ ~RunsSomewhere(j) /\ \A w \in Workers : proc[w].row # j}

\* enqueueJob works on a connection of its own: it commits while the transaction with
\* the lock is still open.
CreateSample(w) ==
  /\ proc[w].health = "create" /\ UNCHANGED expired
  /\ \/ \E j \in FreeRows : /\ job' = [job EXCEPT ![j] = "unsent"] /\ UNCHANGED lock /\ Smooth
                            /\ Becomes(w, [proc[w] EXCEPT !.health = "send", !.row = j])
     \/ UNCHANGED job /\ Release(w) /\ Fault /\ Tick(w, "idle")

\* A message that cannot be sent, as when the queue is closed, makes the job FAILED.
SendSample(w) ==
  LET j == proc[w].row
      becomes(s) == job' = [job EXCEPT ![j] = IF @ \in {"unsent", "queued"} THEN s ELSE @]
  IN /\ proc[w].health = "send" /\ Release(w) /\ UNCHANGED expired
     /\ Becomes(w, [proc[w] EXCEPT !.health = "idle", !.row = None])
     /\ \/ "queue" \in proc[w].open /\ becomes("queued") /\ Smooth
        \/ "queue" \notin proc[w].open /\ becomes("none") /\ Smooth
        \/ "queue" \in proc[w].open /\ becomes("none") /\ Fault

\* The interactive transaction is over after five seconds, whatever its callback still does.
LockExpires ==
  /\ lock # None /\ lock' = None /\ expired' = TRUE /\ Fault
  /\ UNCHANGED <<proc, job, starts>>

-----------------------------------------------------------------------------
(* Sampling jobs and their runs, as far as the scheduler sees them.        *)

\* Consumers take messages until queue.stop() is called.
RunSample(w) ==
  /\ proc[w].main \in {"sweep", "up"} /\ proc[w].disp \in {"no", "titles"}
  /\ "queue" \in proc[w].open /\ proc[w].run = None
  /\ \E j \in Rows : /\ job[j] = "queued" /\ job' = [job EXCEPT ![j] = "running"]
                     /\ Becomes(w, [proc[w] EXCEPT !.run = j])
  /\ Smooth /\ UNCHANGED <<lock, expired>>

\* Mutant: an ended run leaves its row among those that are looked at.
RunEndsUntold(w) ==
  LET j == proc[w].run
  IN /\ j # None /\ Becomes(w, [proc[w] EXCEPT !.run = None])
     /\ job' = [job EXCEPT ![j] = "done"] /\ Smooth /\ UNCHANGED <<lock, expired>>

\* A cancellation accepted after the last checkpoint is never carried out.
RunEnds(w) ==
  LET j == proc[w].run
  IN /\ j # None /\ Becomes(w, [proc[w] EXCEPT !.run = None])
     /\ \/ job' = [job EXCEPT ![j] = "none"]
        \/ job[j] = "cancelling" /\ UNCHANGED job
     /\ Smooth /\ UNCHANGED <<lock, expired>>

\* The administrator whose workspace the job is in cancels it.
CancelSample ==
  /\ \E j \in Active : job' = [job EXCEPT ![j] = IF @ = "running" THEN "cancelling"
                                                ELSE IF @ = "cancelling" THEN @ ELSE "none"]
  /\ Fault /\ UNCHANGED <<proc, lock, expired, starts>>

-----------------------------------------------------------------------------
Start(w) == Connected(w) \/ ClientCreated(w) \/ BossStarted(w) \/ Consuming(w) \/ Swept(w)
Dispose(w) == StopGoesOn(w) \/ TitlesStopped(w) \/ QueueStopped(w) \/ PoolClosed(w)
Exit(w) == ShutdownExits(w) \/ FailedStartExits(w)
Health(w) == HealthTick(w) \/ TakeLock(w) \/ LookForJob(w) \/ CreateSample(w) \/ SendSample(w)
Runs(w) == RunSample(w) \/ RunEnds(w)

Next ==
  \/ \E w \in Workers : \/ Boot(w) \/ Start(w) \/ StartFails(w) \/ Dispose(w) \/ Exit(w)
                        \/ Signal(w) \/ Killed(w) \/ TitleTick(w) \/ Health(w) \/ Runs(w)
  \/ LockExpires \/ CancelSample

\* Calls come back, timers fire, runs end; nobody has to start a worker or to send a signal.
Fairness ==
  \A w \in Workers : /\ WF_vars(Start(w)) /\ WF_vars(Dispose(w)) /\ WF_vars(Exit(w))
                     /\ WF_vars(TitleTick(w)) /\ WF_vars(Health(w)) /\ WF_vars(Runs(w))

Spec == Init /\ [][Next]_vars /\ Fairness

-----------------------------------------------------------------------------
\* A stop that comes while the worker is starting does not take the pool and the queue
\* from under the start, whose next calls use them (composition/worker.ts:102).
StartKeepsItsQueue ==
  \A w \in Workers : /\ proc[w].main \in {"boot", "consume", "sweep"}
                     => {"pool", "queue"} \subseteq proc[w].open

\* "drains before the queue closes on shutdown" (docs/pg-boss-worker-setup.md:71): a title
\* tick that has claimed a reply, which is its only attempt, finds the queue open.
TitleTickHasQueue == \A w \in Workers : proc[w].title = "send" => "queue" \in proc[w].open

\* "Worker stopped cleanly" means that nothing the worker opened is left open, however
\* start, stop and their failures overlapped.  Two cases are excepted: a signal that comes
\* before the database is connected, because then the composition starts behind the
\* shutdown, and a failed start whose own disposal failed, because that failure is swallowed.
CleanExit ==
  \A w \in Workers : proc[w].main = "gone" /\ proc[w].code = "clean" /\ proc[w].past = {}
                     => proc[w].open = {}

\* However many workers tick, one sampling job is under way, except that a tick whose
\* transaction has timed out creates its job without the lock.
OneActiveSample == expired \/ Cardinality(Active) <= 1

\* A worker that got a signal exits, whatever it was doing and whatever failed.
ShutdownEnds == \A w \in Workers : proc[w].shut # "no" ~> ~Alive(w)

\* A row nobody works on: its creator or its run has gone, or its cancellation came too late.
Stranded ==
  \E j \in Rows : \/ job[j] = "unsent" /\ \A w \in Workers : proc[w].row # j
                  \/ job[j] \in {"running", "cancelling"} /\ ~RunsSomewhere(j)

\* As long as a worker is up and no sampling job is stranded, new samples are enqueued
\* again and again: no tick hangs and no tick keeps the lock.
SamplingGoesOn ==
  <>[](/\ \E w \in Workers : proc[w].main = "up" /\ proc[w].shut = "no"
       /\ ~Stranded)
  => []<>(\E w \in Workers : proc[w].health = "send")
=============================================================================
