------------------------------ MODULE JobEvents -----------------------------
(***************************************************************************)
(* How the API tells browsers about jobs: the PostgreSQL listener every    *)
(* request shares (job.notifications.ts), the status feed of a workspace   *)
(* (job.events.ts) and the stream of one job (job.controller.ts), over the *)
(* rows the API and the workers write (job.service.ts).                    *)
(*                                                                         *)
(* A row is its status and the number of writes to it; two snapshots of a  *)
(* job differ when their numbers do.  The jobs are those of one workspace  *)
(* and of the types the feed asks for.                                     *)
(***************************************************************************)
EXTENDS JobLifecycle, SequencesExt

CONSTANTS
  MaxJobs,      \* jobs 1..MaxJobs, in the order of their ids
  MaxRevision,  \* bound on the writes to one job
  MaxTime,      \* bound on completion times, which repeat and may be committed late
  PageSize,     \* PAGE_SIZE, 100
  MaxRows,      \* MAX_ROWS_PER_GROUP_PER_SCAN, 500
  MaxPending,   \* MAX_PENDING_HINTS, 1000
  HintBatch,    \* HINT_BATCH_SIZE, 100
  MaxFaults     \* bound on failed reads, lost notifications, listener errors and jobs
                \* that grow old

ASSUME EventBounds ==
  {MaxJobs, MaxRevision, MaxTime, PageSize, MaxRows, MaxPending, HintBatch} \subseteq Nat \ {0}

ASSUME FaultCount == MaxFaults \in Nat

VARIABLES
  rows,      \* the table "jobs"
  notes,     \* jobs with a pg_notify under way
  listener,  \* the connection of jobNotificationListener
  feed,      \* the variables of one streamWorkspaceJobEvents
  shown,     \* history: the last revision of each job the feed has written
  stream,    \* the variables of one streamJob
  faults     \* number of faults so far

vars == <<rows, notes, listener, feed, shown, stream, faults>>

-----------------------------------------------------------------------------
Jobs == 1..MaxJobs

\* at: completedAt; old: it is more than RECENT_COMPLETION_MS ago.
Row == [status : JobStatus \cup {"NONE"}, rev : 0..MaxRevision, at : 0..MaxTime, old : BOOLEAN]

ListenerStates == {"off", "starting", "on", "broken"}

\* What one query returned of a job.
Seen == [job : Jobs, status : JobStatus, rev : 1..MaxRevision, at : 0..MaxTime]

\* tasks: the chained promise "work", its running task first; phase: where that one is.
Phases == {"idle", "active", "active_read", "completed", "completed_read", "hints", "hints_read"}

Feed ==
  [state : {"unused", "open", "closed"}, wanted : SUBSET JobStatus,
   pending : Seq(Jobs), batch : SUBSET Jobs, observed : SUBSET (Jobs \X JobStatus),
   tasks : Seq({"scan", "hints"}), phase : Phases, page : Seq(Seen), scanned : Nat,
   activeCursor : Jobs \cup {0}, terminalCursor : (0..MaxTime) \X (0..MaxJobs),
   scanQueued : BOOLEAN, hintsQueued : BOOLEAN]

NoCursor == <<0, 0>>

ClosedFeed(state) ==
  [state |-> state, wanted |-> {}, pending |-> <<>>, batch |-> {}, observed |-> {}, tasks |-> <<>>,
   phase |-> "idle", page |-> <<>>, scanned |-> 0, activeCursor |-> 0, terminalCursor |-> NoCursor,
   scanQueued |-> FALSE, hintsQueued |-> FALSE]

\* sure: history, a read was made while notifications arrived; told: the last event.
Stream ==
  [pc : {"unused", "first", "begin", "loop", "wait", "read", "got", "ended"}, job : Jobs,
   rev : 0..MaxRevision, status : JobStatus \cup {"NONE"}, last : 0..MaxRevision,
   told : JobStatus \cup {"NONE"}, pending : BOOLEAN, clientClosed : BOOLEAN, gone : BOOLEAN,
   failed : BOOLEAN, sure : BOOLEAN]

TypeOK ==
  /\ rows \in [Jobs -> Row] /\ notes \subseteq Jobs /\ listener \in ListenerStates
  /\ feed \in Feed /\ shown \in [Jobs -> 0..MaxRevision]
  /\ stream \in Stream /\ faults \in 0..MaxFaults
  /\ Len(feed.pending) <= MaxPending /\ Cardinality(feed.batch) <= HintBatch
  /\ Len(feed.page) <= PageSize

IdleStream(j) ==
  [pc |-> "unused", job |-> j, rev |-> 0, status |-> "NONE", last |-> 0, told |-> "NONE",
   pending |-> FALSE, clientClosed |-> FALSE, gone |-> FALSE, failed |-> FALSE, sure |-> FALSE]

Init ==
  /\ rows = [j \in Jobs |-> [status |-> "NONE", rev |-> 0, at |-> 0, old |-> FALSE]]
  /\ notes = {} /\ listener = "off" /\ faults = 0
  /\ feed = ClosedFeed("unused") /\ shown = [j \in Jobs |-> 0]
  /\ stream = IdleStream(1)

Fault == faults < MaxFaults /\ faults' = faults + 1

-----------------------------------------------------------------------------
(* The writers: updateJobAndNotify and its like commit a row, then notify; *)
(* the notification is best effort.  A recovery takes RUNNING to QUEUED.   *)

Successors(status) ==
  CASE status = "NONE" -> {"QUEUED"}
    [] isTerminalJobStatus(status) -> {}
    [] OTHER -> VALID_JOB_STATUS_TRANSITIONS[status] \cup {status} \cup
                (IF status = "RUNNING" THEN {"QUEUED"} ELSE {})

WriteJob(j) ==
  /\ rows[j].rev < MaxRevision
  /\ \E status \in Successors(rows[j].status), at \in 0..MaxTime :
       /\ (at # 0) <=> isTerminalJobStatus(status)
       /\ rows' = [rows EXCEPT ![j] = [status |-> status, rev |-> @.rev + 1, at |-> at, old |-> FALSE]]
  /\ \/ notes' = notes \cup {j} /\ UNCHANGED faults
     \/ Fault /\ UNCHANGED notes
  /\ UNCHANGED <<listener, feed, shown, stream>>

AgeJob(j) ==
  /\ isTerminalJobStatus(rows[j].status) /\ ~rows[j].old
  /\ rows' = [rows EXCEPT ![j].old = TRUE]
  /\ Fault
  /\ UNCHANGED <<notes, listener, feed, shown, stream>>

-----------------------------------------------------------------------------
(* The listener: start() runs for every subscription, does nothing while a *)
(* client is stored or being started, and is repeated by the next          *)
(* subscription after a failure.  A client that breaks stays stored.       *)

Started == IF listener = "off" THEN "starting" ELSE listener

ListenerReady ==
  /\ listener = "starting" /\ listener' = "on"
  /\ UNCHANGED <<rows, notes, feed, shown, stream, faults>>

ListenerFails ==
  /\ \/ listener = "starting" /\ listener' = "off"
     \/ listener = "on" /\ listener' = "broken"
  /\ Fault
  /\ UNCHANGED <<rows, notes, feed, shown, stream>>

-----------------------------------------------------------------------------
(* The feed.                                                               *)

scheduleScan(f) ==
  IF f.state # "open" \/ f.scanQueued THEN f
  ELSE [f EXCEPT !.scanQueued = TRUE, !.tasks = Append(@, "scan")]

scheduleHints(f) ==
  IF f.state # "open" \/ f.hintsQueued THEN f
  ELSE [f EXCEPT !.hintsQueued = TRUE, !.tasks = Append(@, "hints")]

\* Mutant: the set of hints has no limit.
HintUnlimited(f, j) ==
  IF f.state # "open" THEN f
  ELSE IF j \in ToSet(f.pending) THEN scheduleHints(f)
  ELSE scheduleHints([f EXCEPT !.pending = Append(@, j)])

\* The feed's subscriber to every category.
Hint(f, j) ==
  IF f.state # "open" THEN f
  ELSE IF j \in ToSet(f.pending) THEN scheduleHints(f)
  ELSE IF Len(f.pending) < MaxPending
       THEN scheduleHints([f EXCEPT !.pending = Append(@, j)])
       ELSE scheduleScan(f)

FeedOnly(f) == feed' = f /\ UNCHANGED <<rows, notes, stream>>

OpenFeed ==
  /\ feed.state = "unused"
  /\ \E wanted \in {TERMINAL_JOB_STATUSES, JobStatus} :
       FeedOnly(scheduleScan([ClosedFeed("open") EXCEPT !.wanted = wanted]))
  /\ listener' = Started
  /\ UNCHANGED <<shown, faults>>

\* The task that runs goes on and finds the feed closed.
CloseFeed ==
  /\ feed.state = "open"
  /\ FeedOnly([feed EXCEPT !.state = "closed", !.pending = <<>>, !.observed = {}])
  /\ UNCHANGED <<listener, shown, faults>>

ScanTimer ==
  /\ feed.state = "open" /\ ~feed.scanQueued
  /\ FeedOnly(scheduleScan(feed))
  /\ UNCHANGED <<listener, shown, faults>>

\* queueWork starts the next task, which does nothing in a closed feed.  A hint task
\* takes its batch before it reads.
StartTask ==
  /\ feed.tasks # <<>> /\ feed.phase = "idle"
  /\ FeedOnly(
       IF feed.state = "closed" THEN [feed EXCEPT !.tasks = Tail(@)]
       ELSE IF Head(feed.tasks) = "scan" THEN [feed EXCEPT !.phase = "active", !.scanned = 0]
       ELSE LET n == IF Len(feed.pending) < HintBatch THEN Len(feed.pending) ELSE HintBatch
            IN [feed EXCEPT !.phase = "hints", !.pending = SubSeq(@, n + 1, Len(@)),
                            !.batch = ToSet(SubSeq(feed.pending, 1, n))])
  /\ UNCHANGED <<listener, shown, faults>>

Ends(f) == [f EXCEPT !.tasks = Tail(@), !.phase = "idle", !.page = <<>>, !.batch = {}, !.scanned = 0]

\* Mutant: only a scan that succeeds may be followed by another.
EndsKeepingFlag(f) ==
  IF Head(f.tasks) = "scan" THEN Ends(f) ELSE scheduleHints([Ends(f) EXCEPT !.hintsQueued = FALSE])

\* The finally blocks of the two tasks.
EndTask(f) ==
  IF Head(f.tasks) = "scan" THEN [Ends(f) EXCEPT !.scanQueued = FALSE]
  ELSE LET done == [Ends(f) EXCEPT !.hintsQueued = FALSE]
       IN IF f.pending = <<>> THEN done ELSE scheduleHints(done)

See(j) == [job |-> j, status |-> rows[j].status, rev |-> rows[j].rev, at |-> rows[j].at]

\* listJobEventsInWorkspace: newest first.
FirstPage(js, Before(_, _)) ==
  LET nth(i) == CHOOSE j \in js : Cardinality({k \in js : Before(k, j)}) = i - 1
      size == IF Cardinality(js) < PageSize THEN Cardinality(js) ELSE PageSize
  IN [i \in 1..size |-> See(nth(i))]

Newer(i, j) == i > j

CompletedLater(i, j) ==
  rows[i].at > rows[j].at \/ (rows[i].at = rows[j].at /\ i > j)

ActivePage ==
  FirstPage({j \in Jobs : /\ rows[j].status \in feed.wanted \ TERMINAL_JOB_STATUSES
                          /\ feed.activeCursor = 0 \/ j < feed.activeCursor}, Newer)

CompletedPage ==
  LET at == feed.terminalCursor[1]
      id == feed.terminalCursor[2]
  IN FirstPage({j \in Jobs : /\ rows[j].status \in feed.wanted \cap TERMINAL_JOB_STATUSES
                             /\ ~rows[j].old
                             /\ \/ feed.terminalCursor = NoCursor
                                \/ rows[j].at < at
                                \/ rows[j].at = at /\ j < id}, CompletedLater)

\* getJobEventsByIdsInWorkspace, in any order: a job occurs once.
HintedPage == FirstPage({j \in feed.batch : rows[j].status # "NONE"}, Newer)

\* A group nobody asks for is not read; a closed feed or a full group reads no more.
SkipGroup(f) == IF f.phase = "active" THEN [f EXCEPT !.phase = "completed", !.scanned = 0]
                ELSE EndTask(f)

ReadsOn(f) ==
  /\ f.state = "open" /\ f.scanned < MaxRows
  /\ f.wanted \cap (IF f.phase = "active" THEN JobStatus \ TERMINAL_JOB_STATUSES
                    ELSE TERMINAL_JOB_STATUSES) # {}

ReadPage ==
  /\ \/ /\ feed.phase \in {"active", "completed"}
        /\ FeedOnly(IF ~ReadsOn(feed) THEN SkipGroup(feed)
                    ELSE IF feed.phase = "active"
                         THEN [feed EXCEPT !.phase = "active_read", !.page = ActivePage]
                         ELSE [feed EXCEPT !.phase = "completed_read", !.page = CompletedPage])
     \/ /\ feed.phase = "hints"
        /\ FeedOnly([feed EXCEPT !.phase = "hints_read", !.page = HintedPage])
  /\ UNCHANGED <<listener, shown, faults>>

ReadFails ==
  /\ feed.phase \in {"active", "completed", "hints"}
  /\ feed.phase # "hints" => ReadsOn(feed)
  /\ FeedOnly(EndTask(feed))
  /\ Fault
  /\ UNCHANGED <<listener, shown>>

\* Mutant: a page that arrives late is written to a closed feed.
MatchedLate(f) ==
  {i \in DOMAIN f.page : /\ f.page[i].status \in f.wanted
                         /\ <<f.page[i].job, f.page[i].status>> \notin f.observed}

\* emitIfMatched
Matched(f) ==
  {i \in DOMAIN f.page : /\ f.state = "open" /\ f.page[i].status \in f.wanted
                         /\ <<f.page[i].job, f.page[i].status>> \notin f.observed}

\* Mutant: a full group starts again from the newest row.
GroupReadForgetting(f) ==
  LET scanned == f.scanned + Len(f.page)
      next == IF f.phase = "active_read" THEN "active" ELSE "completed"
      read == [f EXCEPT !.page = <<>>, !.phase = next, !.scanned = scanned]
      reset == [read EXCEPT !.activeCursor = 0, !.terminalCursor = NoCursor]
      last == f.page[Len(f.page)]
  IN IF Len(f.page) < PageSize \/ scanned >= MaxRows THEN SkipGroup(reset)
     ELSE IF next = "active" THEN [read EXCEPT !.activeCursor = last.job]
     ELSE [read EXCEPT !.terminalCursor = <<last.at, last.job>>]

\* A page of a group has been written: the group goes on after its last row, and
\* begins again where a short page ended it.
GroupRead(f) ==
  LET next == IF f.phase = "active_read" THEN "active" ELSE "completed"
      read == [f EXCEPT !.page = <<>>, !.phase = next, !.scanned = @ + Len(f.page)]
      last == f.page[Len(f.page)]
  IN IF Len(f.page) < PageSize
     THEN SkipGroup(IF next = "active" THEN [read EXCEPT !.activeCursor = 0]
                    ELSE [read EXCEPT !.terminalCursor = NoCursor])
     ELSE IF next = "active" THEN [read EXCEPT !.activeCursor = last.job]
     ELSE [read EXCEPT !.terminalCursor = <<last.at, last.job>>]

WritePage ==
  /\ feed.phase \in {"active_read", "completed_read", "hints_read"}
  /\ LET matched == Matched(feed)
         written == [feed EXCEPT !.observed =
                       @ \cup {<<feed.page[i].job, feed.page[i].status>> : i \in matched}]
     IN /\ shown' = [j \in Jobs |->
                       IF \E i \in matched : feed.page[i].job = j
                       THEN feed.page[CHOOSE i \in matched : feed.page[i].job = j].rev
                       ELSE shown[j]]
        /\ FeedOnly(IF feed.phase = "hints_read" THEN EndTask(written) ELSE GroupRead(written))
  /\ UNCHANGED <<listener, faults>>

-----------------------------------------------------------------------------
(* The stream of one job.                                                  *)

StreamOnly(s) == stream' = s /\ UNCHANGED <<rows, notes, feed, shown>>

OpenStream ==
  /\ stream.pc = "unused" /\ rows[stream.job].status # "NONE"
  /\ StreamOnly([stream EXCEPT !.pc = "first"])
  /\ UNCHANGED <<listener, faults>>

ReadJob ==
  /\ stream.pc \in {"first", "read"}
  /\ LET row == rows[stream.job] IN
       StreamOnly([stream EXCEPT !.pc = IF @ = "first" THEN "begin" ELSE "got",
                                 !.rev = row.rev, !.status = row.status,
                                 !.sure = stream.pc = "read" /\ listener = "on"])
  /\ UNCHANGED <<listener, faults>>

ReadJobFails ==
  /\ stream.pc \in {"first", "read"}
  /\ StreamOnly([stream EXCEPT !.pc = "ended", !.failed = TRUE])
  /\ Fault
  /\ UNCHANGED listener

\* The event of a status, and the end of the stream after a terminal one.
Tell(s) ==
  [s EXCEPT !.told = s.status, !.last = s.rev,
            !.pc = IF isTerminalJobStatus(s.status) THEN "ended" ELSE "loop"]

\* The request listens to its client from here on: a client that left during the first
\* read is never noticed.
BeginStream ==
  /\ stream.pc = "begin"
  /\ StreamOnly(Tell(stream))
  /\ listener' = Started
  /\ UNCHANGED faults

\* The head of the loop and waitForNotificationOrTimeout.
Loop ==
  /\ stream.pc = "loop"
  /\ StreamOnly(IF stream.clientClosed THEN [stream EXCEPT !.pc = "ended"]
                ELSE IF stream.pending THEN [stream EXCEPT !.pc = "read", !.pending = FALSE]
                ELSE [stream EXCEPT !.pc = "wait"])
  /\ UNCHANGED <<listener, faults>>

Awake(s) == [s EXCEPT !.pc = IF s.clientClosed THEN "ended" ELSE "read"]

\* Mutant: only a notification ends the wait.
WaitNotTimed ==
  /\ stream.pc = "wait" /\ stream.pending
  /\ StreamOnly(Awake(stream))
  /\ UNCHANGED <<listener, faults>>

WaitTimesOut ==
  /\ stream.pc = "wait"
  /\ StreamOnly(Awake(stream))
  /\ UNCHANGED <<listener, faults>>

\* Mutant: the loop stops at a terminal status before it is told.
HandleUntold ==
  /\ stream.pc = "got"
  /\ StreamOnly(IF isTerminalJobStatus(stream.status) THEN [stream EXCEPT !.pc = "ended"]
                ELSE IF stream.rev # stream.last THEN Tell(stream)
                ELSE [stream EXCEPT !.pc = "loop"])
  /\ UNCHANGED <<listener, faults>>

\* A snapshot that differs is told; an equal one at most causes a heartbeat.
HandleJob ==
  /\ stream.pc = "got"
  /\ StreamOnly(IF stream.rev # stream.last THEN Tell(stream) ELSE [stream EXCEPT !.pc = "loop"])
  /\ UNCHANGED <<listener, faults>>

ClientLeaves ==
  /\ stream.pc \notin {"unused", "ended"} /\ ~stream.gone
  /\ StreamOnly([stream EXCEPT !.gone = TRUE, !.clientClosed = stream.pc \notin {"first", "begin"}])
  /\ UNCHANGED <<listener, faults>>

\* Mutant: only a waiting stream hears a notification.
WakeIfWaiting(s, j) == IF j = s.job /\ s.pc = "wait" /\ ~s.clientClosed THEN Awake(s) ELSE s

\* The stream's subscriber, from BeginStream until the client leaves or the stream ends.
Wake(s, j) ==
  IF j # s.job \/ s.clientClosed \/ s.pc \in {"unused", "first", "begin", "ended"} THEN s
  ELSE IF s.pc = "wait" THEN Awake(s) ELSE [s EXCEPT !.pending = TRUE]

-----------------------------------------------------------------------------
\* handleNotification; a notification no client listens for is gone.
Notify(j) ==
  /\ j \in notes
  /\ notes' = notes \ {j}
  /\ IF listener = "on" THEN feed' = Hint(feed, j) /\ stream' = Wake(stream, j)
     ELSE UNCHANGED <<feed, stream>>
  /\ UNCHANGED <<rows, listener, shown, faults>>

FeedTask == StartTask \/ ReadPage \/ WritePage
StreamStep == ReadJob \/ BeginStream \/ Loop \/ WaitTimesOut \/ HandleJob

Next ==
  \/ \E j \in Jobs : WriteJob(j) \/ AgeJob(j) \/ Notify(j)
  \/ ListenerReady \/ ListenerFails
  \/ OpenFeed \/ CloseFeed \/ ScanTimer \/ FeedTask \/ ReadFails
  \/ OpenStream \/ StreamStep \/ ReadJobFails \/ ClientLeaves

Spec == Init /\ [][Next]_vars

(***************************************************************************)
(* Fairness: the interval fires, promises are continued, timeouts expire.  *)
(* No notification is owed: polling alone must do.                         *)
(***************************************************************************)
Fairness == WF_vars(ScanTimer \/ FeedTask) /\ WF_vars(StreamStep)

FairSpec == Spec /\ Fairness

-----------------------------------------------------------------------------
Promise == INSTANCE EventFeed WITH
  revision <- [j \in Jobs |-> rows[j].rev], open <- feed.state = "open"

\* The feed shows each job forwards only, and nothing after it was closed, although scans
\* and hints read the rows a page at a time while they change.
KeepsPromise == Promise!Spec

\* The two "queued" flags tell the truth and no hint is left without a task that will
\* read it: a flag that stayed set would silence the feed.
QueuedIsComing ==
  feed.state = "open" =>
    /\ feed.scanQueued <=> "scan" \in ToSet(feed.tasks)
    /\ feed.hintsQueued <=> "hints" \in ToSet(feed.tasks)
    /\ feed.pending # <<>> => feed.hintsQueued
    /\ Len(feed.tasks) <= 2

\* A job that ends is shown by an open feed that wants its status while it is recent:
\* whatever is lost, however many rows the scans have to page through.
FinalIsFed ==
  \A j \in Jobs :
    isTerminalJobStatus(rows[j].status) /\ feed.state = "open"
    ~> rows[j].old \/ feed.state = "closed" \/ <<j, rows[j].status>> \in feed.observed

\* A stream that ends by itself has told its client how the job ended.
EndedStreamToldFinal ==
  stream.pc = "ended" /\ ~stream.gone /\ ~stream.failed =>
    isTerminalJobStatus(stream.told) /\ stream.told = rows[stream.job].status

\* While notifications arrive, a waiting stream is up to date or about to be woken: a
\* change during its read is not lost between two waits.
NoMissedWake ==
  stream.pc = "wait" /\ ~stream.clientClosed /\ stream.sure /\ listener = "on" /\ faults = 0 =>
    stream.last = rows[stream.job].rev \/ stream.job \in notes

\* A stream ends once its job has ended, or once its client left and the stream knew.
StreamEnds ==
  stream.pc \notin {"unused", "ended"} /\
  (stream.clientClosed \/ isTerminalJobStatus(rows[stream.job].status)) ~> stream.pc = "ended"
\* Nothing that has been noticed is forgotten: hints, changes during a read, the end.
NothingIsForgotten == QueuedIsComing /\ NoMissedWake /\ EndedStreamToldFinal

\* Whoever waits for the end of a job gets it, by the feed or by the job's own stream.
EndsAreTold == FinalIsFed /\ StreamEnds
=============================================================================
