---------------------------- MODULE MCJobRegimes ---------------------------
(* Two instances of JobSystem, each the union of several regimes: a regime *)
(* says which calls, faults and leftovers its part of the instance is      *)
(* about, and never changes.                                               *)
EXTENDS MCJobSystem

VARIABLE regime

mcVars == <<regime, vars>>

Sleeping == [pc |-> "done", message |-> 0]
NoCancel == [pc |-> "done", job |-> NoJob]

-----------------------------------------------------------------------------
(* Safety: two runs of one job race without a cancellation, or one run     *)
(* races with a cancellation; with one fault of any kind in either.        *)

RacesInit == Init /\ regime \in {"two_runs", "cancellation"}

BusyRuns == {r \in Runs : runs[r].pc # "idle"}

RacesNext ==
  /\ Next
  /\ UNCHANGED regime
  /\ regime = "two_runs" => UNCHANGED cancels
  /\ regime = "cancellation" => Cardinality(BusyRuns') <= 1

RacesSpec == RacesInit /\ [][RacesNext]_mcVars
-----------------------------------------------------------------------------
(* Liveness and the sweeps: a calm life of j2, a life of j2 with database  *)
(* errors, a job j1 through a crash of either process, and the sweeps over *)
(* what such crashes leave behind.                                         *)

FirstLife(j) ==
  /\ jobs = [i \in Jobs |-> NoRow]
  /\ metrics = [i \in Jobs |-> "none"]
  /\ msgs = [m \in Messages |-> Unsent]
  /\ sent = 0
  /\ calls = [i \in Jobs |-> IF i = j THEN [pc |-> "idle", message |-> 0] ELSE Sleeping]
  /\ sweep = SweepAt("down")

\* The API died between send and link.
Orphan == [row |-> QueuedRow, metric |-> "none", state |-> "created"]

\* The worker died in the first attempt, and the message expired for good.
StaleJob(m) ==
  [row |-> [LinkedRow(StartedRow(QueuedRow), m) EXCEPT !.fresh = FALSE],
   metric |-> "none", state |-> "failed"]

\* The same after send had stored the message but thrown: the API marked the job
\* failed while the run was between its read and its RUNNING write.
StaleMeasuredJob ==
  [row |-> [StartedRow(FailedRow(QueuedRow, "JOB_QUEUE_ENQUEUE_FAILED")) EXCEPT !.fresh = FALSE],
   metric |-> "FAILED", state |-> "failed"]

Index == j1 :> 1 @@ j2 :> 2

AfterCrash ==
  \E left \in [Jobs -> {Orphan, StaleMeasuredJob} \cup {StaleJob(m) : m \in 1..2}] :
    /\ \A j \in Jobs : left[j].row.queueMessageId \in {0, Index[j]}
    /\ left[j2] # StaleMeasuredJob
    /\ jobs = [j \in Jobs |-> left[j].row]
    /\ metrics = [j \in Jobs |-> left[j].metric]
    /\ msgs = [m \in Messages |->
                 IF m > 2 THEN Unsent
                 ELSE LET j == CHOOSE i \in Jobs : Index[i] = m
                          retried == IF left[j].state = "failed" THEN retryLimit(j) ELSE 0
                      IN [job |-> j, state |-> left[j].state, retryCount |-> retried]]
    /\ sent = 2
    /\ calls = [j \in Jobs |-> Sleeping]
    /\ sweep = SweepAt("down")

LivesInit ==
  /\ \/ regime \in {"calm", "database_errors"} /\ FirstLife(j2)
     \/ regime = "restarts" /\ FirstLife(j1)
     \/ regime = "sweeps" /\ AfterCrash
  /\ runs = [r \in Runs |-> IdleRun]
  /\ cancels = [c \in Cancels |-> NoCancel]
  /\ returned = [j \in Jobs |-> FALSE]
  /\ faults = 0

\* The faults of each regime.
LivesNext ==
  /\ Next
  /\ UNCHANGED regime
  /\ faults' # faults =>
       \/ regime = "database_errors" /\ \E r \in Runs : DbError(r)
       \/ /\ regime = "restarts" /\ faults = 0
          /\ (Crash \/ \E j \in Jobs : EnqueueLost(j))

LivesSpec == LivesInit /\ [][LivesNext]_mcVars /\ Fairness

Calm == INSTANCE JobLedger WITH
  status <- [j \in Jobs |-> IF regime = "calm" THEN jobs[j].status ELSE "NONE"],
  attempts <- [j \in Jobs |-> IF regime = "calm" THEN jobs[j].attempts ELSE 0],
  outcome <- [j \in Jobs |-> IF regime = "calm" THEN metrics[j] ELSE "none"]

\* Without cancellations and faults jobs live as jobLifecycle.ts draws it.
KeepsLedger == Calm!Spec

\* Database errors and retries never take a terminal status back.
FinalDespiteErrors ==
  [][regime = "database_errors" =>
       \A j \in Jobs : isTerminalJobStatus(jobs[j].status) => jobs'[j].status = jobs[j].status]_jobs
\* Jobs come to an end and stay there: what a crash has left behind is brought to its end
\* by the sweeps of the next start, and errors of the database take no end back.
EndsForGood == FinalDespiteErrors /\ OrphanEnds /\ StaleEnds
=============================================================================
