--------------------------- MODULE JobEventsProofs ---------------------------
(***************************************************************************)
(* Proofs about the events of jobs, for any number of jobs and writes and  *)
(* any page, group and hint set: nothing that a feed or a stream has       *)
(* noticed is forgotten, and the feed keeps the promise of EventFeed.      *)
(***************************************************************************)
EXTENDS JobEvents, FiniteSetTheorems, SequenceTheorems, TLAPS

-----------------------------------------------------------------------------
(* The inductive invariant.                                                *)

\* The chained tasks of a feed: each kind occurs once, and the first one is the one whose
\* phase the feed is in.
Queues == {<<>>, <<"scan">>, <<"hints">>, <<"scan", "hints">>, <<"hints", "scan">>}

ScanPhases == {"active", "active_read", "completed", "completed_read"}

TaskInv(f) ==
  /\ f.tasks \in Queues
  /\ f.phase \in ScanPhases => f.tasks \in {<<"scan">>, <<"scan", "hints">>}
  /\ f.phase \in {"hints", "hints_read"} => f.tasks \in {<<"hints">>, <<"hints", "scan">>}
  /\ f.state = "open" =>
       /\ f.scanQueued <=> f.tasks \notin {<<>>, <<"hints">>}
       /\ f.hintsQueued <=> f.tasks \notin {<<>>, <<"scan">>}

\* A hint that is kept has a task that will read it.
PendingInv(f) == f.state = "open" /\ f.pending # <<>> => f.hintsQueued

\* A page holds states its jobs have had and that are not older than what was shown of
\* them; a state that was shown has been observed as long as the feed is open.
RowsInv == \A j \in Jobs : rows[j].status # "NONE" => rows[j].rev # 0

PageInv ==
  \A i \in DOMAIN feed.page :
    LET e == feed.page[i] IN
      /\ shown[e.job] <= e.rev /\ e.rev <= rows[e.job].rev
      /\ e.rev = rows[e.job].rev => e.status = rows[e.job].status
      /\ feed.state = "open" /\ e.rev = shown[e.job] => <<e.job, e.status>> \in feed.observed

ShownInv ==
  \A j \in Jobs :
    /\ shown[j] <= rows[j].rev
    /\ feed.state = "unused" => shown[j] = 0
    /\ feed.state = "open" /\ shown[j] # 0 /\ shown[j] = rows[j].rev =>
         <<j, rows[j].status>> \in feed.observed

\* A change during or after the read of a stream is noted, on its way, or read.
StreamInv(s) ==
  /\ s.clientClosed => s.gone
  /\ s.pc \in {"unused", "first", "begin"} => ~s.clientClosed
  /\ s.pc \in {"unused", "first", "begin"} => ~s.sure
  /\ s.sure => listener \in {"on", "broken"}
  /\ s.sure /\ ~s.clientClosed /\ listener = "on" /\ faults = 0 =>
       LET coming == s.job \in notes IN
         /\ s.pc = "got" => s.rev = rows[s.job].rev \/ coming \/ s.pending
         /\ s.pc = "loop" => s.last = rows[s.job].rev \/ coming \/ s.pending
         /\ s.pc = "wait" => s.last = rows[s.job].rev \/ coming
  /\ isTerminalJobStatus(s.status) => rows[s.job].status = s.status
  /\ s.pc = "ended" /\ ~s.gone /\ ~s.failed =>
       isTerminalJobStatus(s.told) /\ s.told = rows[s.job].status

EventsInv ==
  TypeOK /\ TaskInv(feed) /\ PendingInv(feed) /\ RowsInv /\ PageInv /\ ShownInv /\ StreamInv(stream)

-----------------------------------------------------------------------------
(* The helpers of the feed.                                                *)

\* What scheduling a task leaves alone.
SameView(f, g) ==
  /\ g.state = f.state /\ g.wanted = f.wanted /\ g.observed = f.observed /\ g.page = f.page
  /\ g.batch = f.batch /\ g.pending = f.pending

\* Two tasks in the order in which they were appended.
LEMMA AppendTwo ==
  ASSUME NEW S, NEW a \in S, NEW b \in S
  PROVE  Append(<<a>>, b) = <<a, b>>
<1>1. <<a>> \in Seq(S) /\ <<a, b>> \in Seq(S) /\ Len(<<a>>) = 1 /\ Len(<<a, b>>) = 2
  OBVIOUS
<1>2. Append(<<a>>, b) \in Seq(S) /\ Len(Append(<<a>>, b)) = 2 /\ Append(<<a>>, b)[1] = a
      /\ Append(<<a>>, b)[2] = b
  BY <1>1, AppendProperties
<1>3. \A i \in 1..2 : Append(<<a>>, b)[i] = <<a, b>>[i]
  <2> TAKE i \in 1..2
  <2> i = 1 \/ i = 2
    OBVIOUS
  <2> QED BY <1>2
<1> QED BY <1>1, <1>2, <1>3, SeqEqual

\* The queues a task can be appended to, and what is left when the first one ends.
LEMMA QueueSteps ==
  /\ Append(<<>>, "scan") = <<"scan">> /\ Append(<<"hints">>, "scan") = <<"hints", "scan">>
  /\ Append(<<>>, "hints") = <<"hints">> /\ Append(<<"scan">>, "hints") = <<"scan", "hints">>
  /\ Tail(<<"scan">>) = <<>> /\ Tail(<<"scan", "hints">>) = <<"hints">>
  /\ Tail(<<"hints">>) = <<>> /\ Tail(<<"hints", "scan">>) = <<"scan">>
  /\ Head(<<"scan">>) = "scan" /\ Head(<<"scan", "hints">>) = "scan"
  /\ Head(<<"hints">>) = "hints" /\ Head(<<"hints", "scan">>) = "hints"
<1>1. Append(<<>>, "scan") = <<"scan">> /\ Append(<<>>, "hints") = <<"hints">>
  OBVIOUS
<1>2. Append(<<"hints">>, "scan") = <<"hints", "scan">> /\ Append(<<"scan">>, "hints") = <<"scan", "hints">>
  <2>1. \A a, b \in {"scan", "hints"} : Append(<<a>>, b) = <<a, b>>
    BY AppendTwo
  <2> QED BY <2>1
<1>3. Tail(<<"scan">>) = <<>> /\ Tail(<<"hints">>) = <<>>
  OBVIOUS
<1>4. Tail(<<"scan", "hints">>) = <<"hints">> 
  OBVIOUS
<1>5. Tail(<<"hints", "scan">>) = <<"scan">>
  OBVIOUS
<1>6. Head(<<"scan">>) = "scan" /\ Head(<<"scan", "hints">>) = "scan"
  OBVIOUS
<1>7. Head(<<"hints">>) = "hints" /\ Head(<<"hints", "scan">>) = "hints"
  OBVIOUS
<1> QED BY <1>1, <1>2, <1>3, <1>4, <1>5, <1>6, <1>7

LEMMA QueuesDiffer ==
  /\ <<>> # <<"scan">> /\ <<>> # <<"hints">> /\ <<>> # <<"scan", "hints">> /\ <<>> # <<"hints", "scan">>
  /\ <<"scan">> # <<"hints">> /\ <<"scan">> # <<"scan", "hints">> /\ <<"scan">> # <<"hints", "scan">>
  /\ <<"hints">> # <<"scan", "hints">> /\ <<"hints">> # <<"hints", "scan">>
  /\ <<"scan", "hints">> # <<"hints", "scan">>
OBVIOUS

LEMMA QueuesAreTasks == Queues \subseteq Seq({"scan", "hints"})
BY DEF Queues

LEMMA ScanQueuedFields ==
  ASSUME NEW f \in Feed, NEW t \in Seq({"scan", "hints"})
  PROVE  LET g == [f EXCEPT !.scanQueued = TRUE, !.tasks = t]
         IN /\ g \in Feed /\ SameView(f, g) /\ g.phase = f.phase
            /\ g.tasks = t /\ g.scanQueued = TRUE /\ g.hintsQueued = f.hintsQueued
<1> PICK g : g = [f EXCEPT !.scanQueued = TRUE, !.tasks = t]
  OBVIOUS
<1> QED BY DEF Feed, SameView

LEMMA HintsQueuedFields ==
  ASSUME NEW f \in Feed, NEW t \in Seq({"scan", "hints"})
  PROVE  LET g == [f EXCEPT !.hintsQueued = TRUE, !.tasks = t]
         IN /\ g \in Feed /\ SameView(f, g) /\ g.phase = f.phase
            /\ g.tasks = t /\ g.hintsQueued = TRUE /\ g.scanQueued = f.scanQueued
<1> PICK g : g = [f EXCEPT !.hintsQueued = TRUE, !.tasks = t]
  OBVIOUS
<1> QED BY DEF Feed, SameView

\* scheduleScan keeps the queue in order and changes nothing else.
LEMMA ScanIsScheduled ==
  ASSUME NEW f \in Feed, TaskInv(f)
  PROVE  LET g == scheduleScan(f)
         IN g \in Feed /\ TaskInv(g) /\ SameView(f, g) /\ (f.hintsQueued => g.hintsQueued)
<1>1. CASE f.state # "open" \/ f.scanQueued
  BY <1>1 DEF scheduleScan, SameView
<1>2. CASE ~(f.state # "open" \/ f.scanQueued)
  <2>1. f.tasks \in {<<>>, <<"hints">>}
    BY <1>2 DEF TaskInv
  <2> PICK t : t = Append(f.tasks, "scan")
    OBVIOUS
  <2>2. t \in {<<"scan">>, <<"hints", "scan">>}
    BY <2>1, QueueSteps
  <2>3. f.tasks = <<>> => t = <<"scan">>
    BY QueueSteps
  <2>4. f.tasks = <<"hints">> => t = <<"hints", "scan">>
    BY QueueSteps
  <2>5. t \in Seq({"scan", "hints"})
    BY <2>2, QueuesAreTasks DEF Queues
  <2> PICK g : g = [f EXCEPT !.scanQueued = TRUE, !.tasks = t]
    OBVIOUS
  <2>6. g \in Feed /\ SameView(f, g) /\ g.phase = f.phase
        /\ g.tasks = t /\ g.scanQueued = TRUE /\ g.hintsQueued = f.hintsQueued
    BY <2>5, ScanQueuedFields
  <2>7. g = scheduleScan(f)
    <3>1. g = [f EXCEPT !.scanQueued = TRUE, !.tasks = Append(@, "scan")]
      OBVIOUS
    <3> QED BY <3>1, <1>2 DEF scheduleScan
  <2>8. g.state = f.state
    BY <2>6 DEF SameView
  <2>9. TaskInv(g)
    <3>1. f.phase \notin ScanPhases
      BY <2>1, QueuesDiffer DEF TaskInv
    <3>2. f.phase \in {"hints", "hints_read"} => t = <<"hints", "scan">>
      BY <2>1, <2>4, QueuesDiffer DEF TaskInv
    <3>3. f.hintsQueued <=> f.tasks = <<"hints">>
      BY <1>2, <2>1, QueuesDiffer DEF TaskInv
    <3>4. (t \notin {<<>>, <<"scan">>}) <=> f.tasks = <<"hints">>
      BY <2>1, <2>3, <2>4, QueuesDiffer
    <3>5. t \notin {<<>>, <<"hints">>}
      BY <2>2, QueuesDiffer
    <3> QED BY <2>2, <2>6, <2>8, <3>1, <3>2, <3>3, <3>4, <3>5 DEF TaskInv, Queues
  <2> QED BY <2>6, <2>7, <2>9
<1> QED BY <1>1, <1>2

\* scheduleHints does the same for the hints, and leaves an open feed with their task queued.
LEMMA HintsAreScheduled ==
  ASSUME NEW f \in Feed, TaskInv(f)
  PROVE  LET g == scheduleHints(f)
         IN g \in Feed /\ TaskInv(g) /\ SameView(f, g) /\ (g.state = "open" => g.hintsQueued)
<1>1. CASE f.state # "open" \/ f.hintsQueued
  BY <1>1 DEF scheduleHints, SameView
<1>2. CASE ~(f.state # "open" \/ f.hintsQueued)
  <2>1. f.tasks \in {<<>>, <<"scan">>}
    BY <1>2 DEF TaskInv
  <2> PICK t : t = Append(f.tasks, "hints")
    OBVIOUS
  <2>2. t \in {<<"hints">>, <<"scan", "hints">>}
    BY <2>1, QueueSteps
  <2>3. f.tasks = <<>> => t = <<"hints">>
    BY QueueSteps
  <2>4. f.tasks = <<"scan">> => t = <<"scan", "hints">>
    BY QueueSteps
  <2>5. t \in Seq({"scan", "hints"})
    BY <2>2, QueuesAreTasks DEF Queues
  <2> PICK g : g = [f EXCEPT !.hintsQueued = TRUE, !.tasks = t]
    OBVIOUS
  <2>6. g \in Feed /\ SameView(f, g) /\ g.phase = f.phase
        /\ g.tasks = t /\ g.hintsQueued = TRUE /\ g.scanQueued = f.scanQueued
    BY <2>5, HintsQueuedFields
  <2>7. g = scheduleHints(f)
    <3>1. g = [f EXCEPT !.hintsQueued = TRUE, !.tasks = Append(@, "hints")]
      OBVIOUS
    <3> QED BY <3>1, <1>2 DEF scheduleHints
  <2>8. g.state = f.state
    BY <2>6 DEF SameView
  <2>9. TaskInv(g)
    <3>1. f.phase \notin {"hints", "hints_read"}
      BY <2>1, QueuesDiffer DEF TaskInv
    <3>2. f.phase \in ScanPhases => t = <<"scan", "hints">>
      BY <2>1, <2>4, QueuesDiffer DEF TaskInv
    <3>3. f.scanQueued <=> f.tasks = <<"scan">>
      BY <1>2, <2>1, QueuesDiffer DEF TaskInv
    <3>4. (t \notin {<<>>, <<"hints">>}) <=> f.tasks = <<"scan">>
      BY <2>1, <2>3, <2>4, QueuesDiffer
    <3>5. t \notin {<<>>, <<"scan">>}
      BY <2>2, QueuesDiffer
    <3> QED BY <2>2, <2>6, <2>8, <3>1, <3>2, <3>3, <3>4, <3>5 DEF TaskInv, Queues
  <2> QED BY <2>6, <2>7, <2>9
<1> QED BY <1>1, <1>2

\* The hints a feed has noted.
LEMMA PendingFields ==
  ASSUME NEW f \in Feed, NEW q \in Seq(Jobs)
  PROVE  LET g == [f EXCEPT !.pending = q]
         IN /\ g \in Feed /\ g.pending = q /\ g.state = f.state /\ g.wanted = f.wanted
            /\ g.observed = f.observed /\ g.page = f.page /\ g.batch = f.batch /\ g.tasks = f.tasks
            /\ g.phase = f.phase /\ g.scanQueued = f.scanQueued /\ g.hintsQueued = f.hintsQueued
<1> PICK g : g = [f EXCEPT !.pending = q]
  OBVIOUS
<1> QED BY DEF Feed

\* What a hint or the end of a task keeps of a feed.
KeepsView(f, g) ==
  g.state = f.state /\ g.wanted = f.wanted /\ g.observed = f.observed /\ g.page = f.page

Bounded(f) ==
  Len(f.pending) <= MaxPending /\ Cardinality(f.batch) <= HintBatch /\ Len(f.page) <= PageSize

\* A hint is noted or the feed is scanned: its task is queued and the set is not exceeded.
LEMMA HintIsNoted ==
  ASSUME NEW f \in Feed, TaskInv(f), PendingInv(f), Bounded(f), NEW j \in Jobs
  PROVE  LET g == Hint(f, j)
         IN g \in Feed /\ TaskInv(g) /\ PendingInv(g) /\ Bounded(g) /\ KeepsView(f, g)
<1>1. CASE f.state # "open"
  BY <1>1 DEF Hint, KeepsView
<1>2. CASE f.state = "open" /\ j \in ToSet(f.pending)
  BY <1>2, HintsAreScheduled DEF Hint, SameView, KeepsView, Bounded, PendingInv
<1>3. CASE f.state = "open" /\ j \notin ToSet(f.pending) /\ Len(f.pending) < MaxPending
  <2> PICK q : q = Append(f.pending, j)
    OBVIOUS
  <2>1. f.pending \in Seq(Jobs)
    BY DEF Feed
  <2>2. q \in Seq(Jobs) /\ Len(q) = Len(f.pending) + 1
    BY <2>1, AppendProperties
  <2> PICK h : h = [f EXCEPT !.pending = q]
    OBVIOUS
  <2>3. /\ h \in Feed /\ h.pending = q /\ h.state = f.state /\ h.wanted = f.wanted
        /\ h.observed = f.observed /\ h.page = f.page /\ h.batch = f.batch /\ h.tasks = f.tasks
        /\ h.phase = f.phase /\ h.scanQueued = f.scanQueued /\ h.hintsQueued = f.hintsQueued
    BY <2>2, PendingFields
  <2>4. TaskInv(h)
    BY <2>3 DEF TaskInv
  <2>5. Hint(f, j) = scheduleHints(h)
    <3>1. h = [f EXCEPT !.pending = Append(@, j)]
      OBVIOUS
    <3> QED BY <3>1, <1>3 DEF Hint
  <2>6. Len(q) <= MaxPending
    <3>1. Len(f.pending) \in Nat /\ MaxPending \in Nat
      BY <2>1, EventBounds
    <3> QED BY <3>1, <2>2, <1>3
  <2> PICK g : g = scheduleHints(h)
    OBVIOUS
  <2>7. g \in Feed /\ TaskInv(g) /\ SameView(h, g) /\ (g.state = "open" => g.hintsQueued)
    BY <2>3, <2>4, HintsAreScheduled
  <2> QED BY <2>3, <2>5, <2>6, <2>7 DEF SameView, KeepsView, Bounded, PendingInv
<1>4. CASE f.state = "open" /\ j \notin ToSet(f.pending) /\ ~(Len(f.pending) < MaxPending)
  BY <1>4, ScanIsScheduled DEF Hint, SameView, KeepsView, Bounded, PendingInv
<1> QED BY <1>1, <1>2, <1>3, <1>4

\* The end of a task: what both kinds of task reset.
EndedAs(f, t, g) ==
  /\ g.tasks = t /\ g.phase = "idle" /\ g.page = <<>> /\ g.batch = {}
  /\ g.state = f.state /\ g.wanted = f.wanted /\ g.observed = f.observed
  /\ g.pending = f.pending /\ g.scanQueued = f.scanQueued /\ g.hintsQueued = f.hintsQueued

LEMMA EndsFields ==
  ASSUME NEW f \in Feed, NEW t \in Seq({"scan", "hints"})
  PROVE  LET g == [f EXCEPT !.tasks = t, !.phase = "idle", !.page = <<>>, !.batch = {}, !.scanned = 0]
         IN g \in Feed /\ EndedAs(f, t, g)
<1> PICK g : g = [f EXCEPT !.tasks = t, !.phase = "idle", !.page = <<>>, !.batch = {}, !.scanned = 0]
  OBVIOUS
<1>1. EndedAs(f, t, g)
  BY DEF Feed, EndedAs
<1>2. g \in Feed
  <2>1. "idle" \in Phases /\ <<>> \in Seq(Seen) /\ {} \subseteq Jobs /\ 0 \in Nat
    BY DEF Phases
  <2> QED BY <2>1 DEF Feed
<1> QED BY <1>1, <1>2

\* What is left of a feed whose task has ended.
Ended(f, g) ==
  /\ g.page = <<>> /\ g.batch = {} /\ g.state = f.state /\ g.wanted = f.wanted
  /\ g.observed = f.observed /\ g.pending = f.pending

\* The queues whose first task is a scan, and those whose first task reads hints.
LEMMA FirstTask ==
  ASSUME NEW t \in Queues, t # <<>>
  PROVE  /\ Head(t) = "scan" => t \in {<<"scan">>, <<"scan", "hints">>}
         /\ Head(t) # "scan" => t \in {<<"hints">>, <<"hints", "scan">>}
         /\ Tail(t) \in {<<>>, <<"scan">>, <<"hints">>}
BY QueueSteps DEF Queues

\* The end of a task frees its flag, unless hints are left that need another one.
LEMMA TaskEnds ==
  ASSUME NEW f \in Feed, TaskInv(f), PendingInv(f), f.tasks # <<>>
  PROVE  LET g == EndTask(f)
         IN g \in Feed /\ TaskInv(g) /\ PendingInv(g) /\ Ended(f, g)
<1> PICK t : t = Tail(f.tasks)
  OBVIOUS
<1>1. f.tasks \in Queues
  BY DEF TaskInv
<1>2. t \in {<<>>, <<"scan">>, <<"hints">>}
  BY <1>1, FirstTask
<1>3. t \in Seq({"scan", "hints"})
  BY <1>2, QueuesAreTasks DEF Queues
<1> PICK e : e = [f EXCEPT !.tasks = t, !.phase = "idle", !.page = <<>>, !.batch = {}, !.scanned = 0]
  OBVIOUS
<1>4. /\ e \in Feed /\ e.tasks = t /\ e.phase = "idle" /\ e.page = <<>> /\ e.batch = {}
      /\ e.state = f.state /\ e.wanted = f.wanted /\ e.observed = f.observed
      /\ e.pending = f.pending /\ e.scanQueued = f.scanQueued /\ e.hintsQueued = f.hintsQueued
  <2>1. e \in Feed /\ EndedAs(f, t, e)
    BY <1>3, EndsFields
  <2> QED BY <2>1 DEF EndedAs
<1>5. e = Ends(f)
  BY DEF Ends
<1>6. CASE Head(f.tasks) = "scan"
  <2> PICK g : g = [e EXCEPT !.scanQueued = FALSE]
    OBVIOUS
  <2>1. /\ g \in Feed /\ g.tasks = t /\ g.phase = "idle" /\ g.page = <<>> /\ g.batch = {}
        /\ g.state = f.state /\ g.wanted = f.wanted /\ g.observed = f.observed
        /\ g.pending = f.pending /\ g.scanQueued = FALSE /\ g.hintsQueued = f.hintsQueued
    BY <1>4, ZenonT(60) DEF Feed
  <2>2. g = EndTask(f)
    BY <1>5, <1>6 DEF EndTask
  <2>3. f.tasks \in {<<"scan">>, <<"scan", "hints">>}
    BY <1>1, <1>6, FirstTask
  <2>4. (f.tasks = <<"scan">> => t = <<>>) /\ (f.tasks = <<"scan", "hints">> => t = <<"hints">>)
    BY QueueSteps
  <2>5. f.state = "open" => (f.hintsQueued <=> f.tasks = <<"scan", "hints">>)
    BY <2>3, QueuesDiffer DEF TaskInv
  <2>6. (t \notin {<<>>, <<"scan">>}) <=> f.tasks = <<"scan", "hints">>
    BY <2>3, <2>4, QueuesDiffer
  <2>7. t \in {<<>>, <<"hints">>} /\ t \in Queues
    BY <2>3, <2>4 DEF Queues
  <2>8. TaskInv(g)
    BY <2>1, <2>5, <2>6, <2>7 DEF TaskInv, ScanPhases
  <2>9. PendingInv(g)
    BY <2>1 DEF PendingInv
  <2>10. Ended(f, g)
    BY <2>1 DEF Ended
  <2> QED BY <2>1, <2>2, <2>8, <2>9, <2>10
<1>7. CASE Head(f.tasks) # "scan"
  <2> PICK d : d = [e EXCEPT !.hintsQueued = FALSE]
    OBVIOUS
  <2>1. /\ d \in Feed /\ d.tasks = t /\ d.phase = "idle" /\ d.page = <<>> /\ d.batch = {}
        /\ d.state = f.state /\ d.wanted = f.wanted /\ d.observed = f.observed
        /\ d.pending = f.pending /\ d.hintsQueued = FALSE /\ d.scanQueued = f.scanQueued
    BY <1>4, ZenonT(60) DEF Feed
  <2>2. EndTask(f) = IF f.pending = <<>> THEN d ELSE scheduleHints(d)
    BY <1>5, <1>7 DEF EndTask
  <2>3. f.tasks \in {<<"hints">>, <<"hints", "scan">>}
    BY <1>1, <1>7, FirstTask
  <2>4. (f.tasks = <<"hints">> => t = <<>>) /\ (f.tasks = <<"hints", "scan">> => t = <<"scan">>)
    BY QueueSteps
  <2>5. f.state = "open" => (f.scanQueued <=> f.tasks = <<"hints", "scan">>)
    BY <2>3, QueuesDiffer DEF TaskInv
  <2>6. (t \notin {<<>>, <<"hints">>}) <=> f.tasks = <<"hints", "scan">>
    BY <2>3, <2>4, QueuesDiffer
  <2>7. t \in {<<>>, <<"scan">>} /\ t \in Queues
    BY <2>3, <2>4 DEF Queues
  <2>8. TaskInv(d)
    BY <2>1, <2>5, <2>6, <2>7 DEF TaskInv, ScanPhases
  <2>9. CASE f.pending = <<>>
    BY <2>1, <2>2, <2>8, <2>9 DEF PendingInv, Ended
  <2>10. CASE f.pending # <<>>
    <3> PICK g : g = scheduleHints(d)
      OBVIOUS
    <3>1. g \in Feed /\ TaskInv(g) /\ SameView(d, g) /\ (g.state = "open" => g.hintsQueued)
      BY <2>1, <2>8, HintsAreScheduled
    <3>2. PendingInv(g) /\ Ended(f, g)
      BY <3>1, <2>1 DEF PendingInv, Ended, SameView
    <3> QED BY <2>2, <2>10, <3>1, <3>2
  <2> QED BY <2>9, <2>10
<1> QED BY <1>6, <1>7

\* A group is passed over: its page is gone and the rest of the feed is as it was.
Passed(f, g) ==
  /\ g.state = f.state /\ g.wanted = f.wanted /\ g.observed = f.observed
  /\ g.pending = f.pending /\ (g.page = <<>> \/ g.page = f.page) /\ (g.batch = {} \/ g.batch = f.batch)

LEMMA GroupIsSkipped ==
  ASSUME NEW f \in Feed, TaskInv(f), PendingInv(f), f.phase \in ScanPhases
  PROVE  LET g == SkipGroup(f)
         IN g \in Feed /\ TaskInv(g) /\ PendingInv(g) /\ Passed(f, g)
<1>1. f.tasks # <<>>
  BY QueuesDiffer DEF TaskInv
<1>2. CASE f.phase = "active"
  <2> PICK g : g = [f EXCEPT !.phase = "completed", !.scanned = 0]
    OBVIOUS
  <2>1. /\ g \in Feed /\ g.tasks = f.tasks /\ g.phase = "completed" /\ g.page = f.page
        /\ g.batch = f.batch
        /\ g.state = f.state /\ g.wanted = f.wanted /\ g.observed = f.observed
        /\ g.pending = f.pending /\ g.scanQueued = f.scanQueued /\ g.hintsQueued = f.hintsQueued
    BY DEF Feed, Phases
  <2>2. TaskInv(g) /\ PendingInv(g) /\ Passed(f, g)
    BY <2>1 DEF TaskInv, PendingInv, Passed, ScanPhases
  <2>3. g = SkipGroup(f)
    BY <1>2 DEF SkipGroup
  <2> QED BY <2>1, <2>2, <2>3
<1>3. CASE f.phase # "active"
  BY <1>1, <1>3, TaskEnds DEF SkipGroup, Ended, Passed
<1> QED BY <1>2, <1>3

-----------------------------------------------------------------------------
(* The pages of a query.                                                   *)

\* A strict total order on a finite set gives each of its members a rank of its own, so
\* that every rank is taken.
StrictOrder(S, R) ==
  /\ \A a \in S : <<a, a>> \notin R
  /\ \A a, b, c \in S : <<a, b>> \in R /\ <<b, c>> \in R => <<a, c>> \in R
  /\ \A a, b \in S : a # b => <<a, b>> \in R \/ <<b, a>> \in R

Ahead(S, R, a) == {b \in S : <<b, a>> \in R}

LEMMA RanksAreTaken ==
  ASSUME NEW S, IsFiniteSet(S), NEW R, StrictOrder(S, R), NEW i \in 1..Cardinality(S)
  PROVE  \E a \in S : Cardinality(Ahead(S, R, a)) = i - 1
<1> USE DEF StrictOrder, Ahead
<1> PICK n : n = Cardinality(S)
  OBVIOUS
<1> PICK before : before = [a \in S |-> {b \in S : <<b, a>> \in R}]
  OBVIOUS
<1> PICK rank : rank = [a \in S |-> Cardinality(before[a])]
  OBVIOUS
<1>1. n \in Nat
  BY FS_CardinalityType
<1>2. \A a \in S : IsFiniteSet(before[a]) /\ Cardinality(before[a]) \in 0..(n - 1)
  <2> TAKE a \in S
  <2> PICK T : T = S \ {a}
    OBVIOUS
  <2>1. before[a] \in SUBSET T
    OBVIOUS
  <2>2. IsFiniteSet(T) /\ Cardinality(T) = n - 1
    BY FS_RemoveElement
  <2>3. IsFiniteSet(before[a]) /\ Cardinality(before[a]) <= Cardinality(T)
    BY <2>1, <2>2, FS_Subset
  <2>4. Cardinality(before[a]) \in Nat
    BY <2>3, FS_CardinalityType
  <2> QED BY <1>1, <2>2, <2>3, <2>4
<1>3. \A a, b \in S : <<a, b>> \in R => Cardinality(before[a]) # Cardinality(before[b])
  <2> TAKE a, b \in S
  <2> HAVE <<a, b>> \in R
  <2>1. before[a] \in SUBSET before[b] /\ a \in before[b] /\ a \notin before[a]
    OBVIOUS
  <2>2. Cardinality(before[b]) = Cardinality(before[a]) => before[b] = before[a]
    BY <1>2, <2>1, FS_Subset
  <2> QED BY <2>1, <2>2
<1>4. rank \in Injection(S, 0..(n - 1))
  <2>1. rank \in [S -> 0..(n - 1)]
    BY <1>2
  <2>2. ASSUME NEW a \in S, NEW b \in S, rank[a] = rank[b]
        PROVE  a = b
    BY <1>3, <2>2
  <2>3. DOMAIN rank = S
    OBVIOUS
  <2> QED BY <2>1, <2>2, <2>3 DEF Injection, IsInjective
<1> PICK m : m = n - 1
  OBVIOUS
<1>5. IsFiniteSet(0..m) /\ Cardinality(0..m) = n
  <2>1. 0 \in Int /\ m \in Int
    BY <1>1
  <2>2. IsFiniteSet(0..m) /\ Cardinality(0..m) = IF 0 > m THEN 0 ELSE m - 0 + 1
    BY <2>1, FS_Interval
  <2> QED BY <1>1, <2>2
<1>6. rank \in Surjection(S, 0..m)
  BY <1>4, <1>5, FS_Injection
<1>7. i - 1 \in 0..m
  BY <1>1
<1>8. PICK a \in S : rank[a] = i - 1
  BY <1>6, <1>7 DEF Surjection
<1>9. Cardinality({b \in S : <<b, a>> \in R}) = i - 1
  BY <1>8
<1> QED BY <1>9

\* A page is made of the rows of the query as they were when it was answered.
PageOf(js, p) ==
  p \in Seq(Seen) /\ Len(p) <= PageSize /\ \A i \in DOMAIN p : \E j \in js : p[i] = See(j)

LEMMA PagesHoldRows ==
  ASSUME rows \in [Jobs -> Row], RowsInv,
         NEW js \in SUBSET Jobs, \A j \in js : rows[j].status # "NONE",
         NEW n \in Nat, n <= PageSize, NEW pick, \A i \in 1..n : pick[i] \in js
  PROVE  PageOf(js, [i \in 1..n |-> See(pick[i])])
<1> PICK p : p = [i \in 1..n |-> See(pick[i])]
  OBVIOUS
<1>1. \A j \in js : See(j) \in Seen
  <2> TAKE j \in js
  <2>1. rows[j] \in Row /\ rows[j].rev # 0 /\ rows[j].status # "NONE"
    BY DEF RowsInv
  <2>2. MaxRevision \in Nat
    BY EventBounds
  <2>3. rows[j].rev \in 1..MaxRevision /\ rows[j].status \in JobStatus /\ rows[j].at \in 0..MaxTime
    BY <2>1, <2>2 DEF Row
  <2> QED BY <2>3 DEF See, Seen
<1>2. p \in Seq(Seen) /\ Len(p) = n /\ DOMAIN p = 1..n
  BY <1>1
<1>3. \A i \in DOMAIN p : \E j \in js : p[i] = See(j)
  BY <1>2
<1> QED BY <1>2, <1>3 DEF PageOf

\* A set of jobs is finite, and the first page of it is not longer than it or than a page.
LEMMA PageSizes ==
  ASSUME NEW js \in SUBSET Jobs,
         NEW n, n = IF Cardinality(js) < PageSize THEN Cardinality(js) ELSE PageSize
  PROVE  IsFiniteSet(js) /\ n \in Nat /\ n <= PageSize /\ 1..n \subseteq 1..Cardinality(js)
<1>1. MaxJobs \in Nat /\ PageSize \in Nat
  BY EventBounds
<1>2. IsFiniteSet(Jobs)
  <2>1. 1 \in Int /\ MaxJobs \in Int
    BY <1>1
  <2> QED BY <2>1, FS_Interval DEF Jobs
<1>3. IsFiniteSet(js) /\ Cardinality(js) \in Nat
  BY <1>2, FS_Subset, FS_CardinalityType
<1> QED BY <1>1, <1>3

\* The first page of the newest jobs.
LEMMA NewestPage ==
  ASSUME rows \in [Jobs -> Row], RowsInv,
         NEW js \in SUBSET Jobs, \A j \in js : rows[j].status # "NONE"
  PROVE  PageOf(js, FirstPage(js, Newer))
<1> DEFINE n == IF Cardinality(js) < PageSize THEN Cardinality(js) ELSE PageSize
           nth(i) == CHOOSE j \in js : Cardinality({k \in js : k > j}) = i - 1
<1>1. FirstPage(js, Newer) = [i \in 1..n |-> See(nth(i))]
  BY DEF FirstPage, Newer
<1>2. IsFiniteSet(js) /\ n \in Nat /\ n <= PageSize /\ 1..n \subseteq 1..Cardinality(js)
  BY PageSizes
<1> HIDE DEF n
<1>3. \A i \in 1..n : nth(i) \in js
  <2> TAKE i \in 1..n
  <2> PICK R : R = {p \in js \X js : p[1] > p[2]}
    OBVIOUS
  <2>1. \A a, b \in js : <<a, b>> \in R <=> a > b
    OBVIOUS
  <2>2. \A a \in js : a \in Int
    BY DEF Jobs
  <2>3. PICK a \in js : Cardinality(Ahead(js, R, a)) = i - 1
    <3>1. \A a \in js : <<a, a>> \notin R
      BY <2>1, <2>2
    <3>2. \A a, b, c \in js : <<a, b>> \in R /\ <<b, c>> \in R => <<a, c>> \in R
      BY <2>1, <2>2
    <3>3. \A a, b \in js : a # b => <<a, b>> \in R \/ <<b, a>> \in R
      BY <2>1, <2>2
    <3>4. i \in 1..Cardinality(js)
      BY <1>2
    <3>5. StrictOrder(js, R)
      BY <3>1, <3>2, <3>3 DEF StrictOrder
    <3> QED BY <1>2, <3>4, <3>5, RanksAreTaken
  <2>4. Ahead(js, R, a) = {k \in js : k > a}
    BY <2>1 DEF Ahead
  <2>5. \E j \in js : Cardinality({k \in js : k > j}) = i - 1
    BY <2>3, <2>4
  <2> QED BY <2>5, Zenon
<1> HIDE DEF nth
<1> PICK pick : pick = [i \in 1..n |-> nth(i)]
  OBVIOUS
<1>4. \A i \in 1..n : pick[i] = nth(i)
  OBVIOUS
<1>5. \A i \in 1..n : See(pick[i]) = See(nth(i))
  BY <1>4
<1>6. [i \in 1..n |-> See(nth(i))] = [i \in 1..n |-> See(pick[i])]
  BY <1>5, Zenon
<1>7. \A i \in 1..n : pick[i] \in js
  BY <1>3, <1>4
<1>8. PageOf(js, [i \in 1..n |-> See(pick[i])])
  BY <1>2, <1>7, PagesHoldRows
<1> QED BY <1>1, <1>6, <1>8, Zenon

\* The first page of the jobs completed last.
LEMMA LatestPage ==
  ASSUME rows \in [Jobs -> Row], RowsInv,
         NEW js \in SUBSET Jobs, \A j \in js : rows[j].status # "NONE"
  PROVE  PageOf(js, FirstPage(js, CompletedLater))
<1> DEFINE n == IF Cardinality(js) < PageSize THEN Cardinality(js) ELSE PageSize
           nth(i) == CHOOSE j \in js : Cardinality({k \in js : CompletedLater(k, j)}) = i - 1
<1>1. FirstPage(js, CompletedLater) = [i \in 1..n |-> See(nth(i))]
  BY DEF FirstPage
<1>2. IsFiniteSet(js) /\ n \in Nat /\ n <= PageSize /\ 1..n \subseteq 1..Cardinality(js)
  BY PageSizes
<1> HIDE DEF n
<1>3. \A i \in 1..n : nth(i) \in js
  <2> TAKE i \in 1..n
  <2> PICK R : R = {p \in js \X js : CompletedLater(p[1], p[2])}
    OBVIOUS
  <2>1. \A a, b \in js : <<a, b>> \in R <=> CompletedLater(a, b)
    OBVIOUS
  <2>2. \A a \in js : a \in Int /\ rows[a].at \in Int
    <3> TAKE a \in js
    <3>1. rows[a] \in Row /\ MaxTime \in Nat
      BY EventBounds
    <3> QED BY <3>1 DEF Jobs, Row
  <2>3. PICK a \in js : Cardinality(Ahead(js, R, a)) = i - 1
    <3>1. \A a \in js : <<a, a>> \notin R
      BY <2>1, <2>2 DEF CompletedLater
    <3>2. \A a, b, c \in js : <<a, b>> \in R /\ <<b, c>> \in R => <<a, c>> \in R
      BY <2>1, <2>2 DEF CompletedLater
    <3>3. \A a, b \in js : a # b => <<a, b>> \in R \/ <<b, a>> \in R
      BY <2>1, <2>2 DEF CompletedLater
    <3>4. i \in 1..Cardinality(js)
      BY <1>2
    <3>5. StrictOrder(js, R)
      BY <3>1, <3>2, <3>3 DEF StrictOrder
    <3> QED BY <1>2, <3>4, <3>5, RanksAreTaken
  <2>4. Ahead(js, R, a) = {k \in js : CompletedLater(k, a)}
    BY <2>1 DEF Ahead
  <2>5. \E j \in js : Cardinality({k \in js : CompletedLater(k, j)}) = i - 1
    BY <2>3, <2>4
  <2> QED BY <2>5, Zenon
<1> HIDE DEF nth
<1> PICK pick : pick = [i \in 1..n |-> nth(i)]
  OBVIOUS
<1>4. \A i \in 1..n : pick[i] = nth(i)
  OBVIOUS
<1>5. \A i \in 1..n : See(pick[i]) = See(nth(i))
  BY <1>4
<1>6. [i \in 1..n |-> See(nth(i))] = [i \in 1..n |-> See(pick[i])]
  BY <1>5, Zenon
<1>7. \A i \in 1..n : pick[i] \in js
  BY <1>3, <1>4
<1>8. PageOf(js, [i \in 1..n |-> See(pick[i])])
  BY <1>2, <1>7, PagesHoldRows
<1> QED BY <1>1, <1>6, <1>8, Zenon

\* The three queries of a feed.
LEMMA PagesAreRead ==
  ASSUME rows \in [Jobs -> Row], RowsInv, feed \in Feed
  PROVE  PageOf(Jobs, ActivePage) /\ PageOf(Jobs, CompletedPage) /\ PageOf(Jobs, HintedPage)
<1>1. "NONE" \notin JobStatus /\ feed.wanted \in SUBSET JobStatus /\ feed.batch \in SUBSET Jobs
  BY DEF JobStatus, TERMINAL_JOB_STATUSES, Feed
<1>2. \A js \in SUBSET Jobs : \A p : PageOf(js, p) => PageOf(Jobs, p)
  BY DEF PageOf
<1>3. PageOf(Jobs, ActivePage)
  <2> PICK js : js = {j \in Jobs : /\ rows[j].status \in feed.wanted \ TERMINAL_JOB_STATUSES
                                   /\ feed.activeCursor = 0 \/ j < feed.activeCursor}
    OBVIOUS
  <2>1. js \in SUBSET Jobs /\ \A j \in js : rows[j].status # "NONE"
    BY <1>1
  <2>2. ActivePage = FirstPage(js, Newer)
    BY DEF ActivePage
  <2> QED BY <1>2, <2>1, <2>2, NewestPage
<1>4. PageOf(Jobs, CompletedPage)
  <2> PICK js : js =
        {j \in Jobs : /\ rows[j].status \in feed.wanted \cap TERMINAL_JOB_STATUSES
                      /\ ~rows[j].old
                      /\ \/ feed.terminalCursor = NoCursor
                         \/ rows[j].at < feed.terminalCursor[1]
                         \/ rows[j].at = feed.terminalCursor[1] /\ j < feed.terminalCursor[2]}
    OBVIOUS
  <2>1. js \in SUBSET Jobs /\ \A j \in js : rows[j].status # "NONE"
    BY <1>1
  <2>2. CompletedPage = FirstPage(js, CompletedLater)
    BY DEF CompletedPage
  <2> QED BY <1>2, <2>1, <2>2, LatestPage
<1>5. PageOf(Jobs, HintedPage)
  <2> PICK js : js = {j \in feed.batch : rows[j].status # "NONE"}
    OBVIOUS
  <2>1. js \in SUBSET Jobs /\ \A j \in js : rows[j].status # "NONE"
    BY <1>1
  <2>2. HintedPage = FirstPage(js, Newer)
    BY DEF HintedPage
  <2> QED BY <1>2, <2>1, <2>2, NewestPage
<1> QED BY <1>3, <1>4, <1>5

-----------------------------------------------------------------------------
(* The steps of the feed.                                                  *)

FeedOk(f) == f \in Feed /\ TaskInv(f) /\ PendingInv(f) /\ Bounded(f)

\* The feed goes on: what it shows and remembers does not change, a page it reads is one of
\* the rows as they are.
GoesOn(f, g) ==
  /\ g.state = f.state /\ g.observed = f.observed
  /\ g.page = <<>> \/ g.page = f.page \/ PageOf(Jobs, g.page)

\* The bounds hold for an empty page and an empty batch.
LEMMA NothingIsBounded ==
  ASSUME NEW f \in Feed, NEW g \in Feed, Bounded(f), g.pending = f.pending,
         g.page = <<>> \/ g.page = f.page, g.batch = {} \/ g.batch = f.batch
  PROVE  Bounded(g)
<1>1. HintBatch \in Nat /\ PageSize \in Nat
  BY EventBounds
<1>2. Cardinality({}) = 0 /\ Len(<<>>) = 0
  BY FS_EmptySet
<1>3. Cardinality(g.batch) <= HintBatch
  <2>1. CASE g.batch = {}
    <3>1. Cardinality(g.batch) = 0
      BY <1>2, <2>1
    <3> QED BY <1>1, <3>1
  <2>2. CASE g.batch = f.batch
    BY <2>2 DEF Bounded
  <2> QED BY <2>1, <2>2
<1>4. Len(g.page) <= PageSize
  BY <1>1, <1>2 DEF Bounded
<1> QED BY <1>3, <1>4 DEF Bounded

\* A hint changes nothing of what the feed shows.
LEMMA HintGoesOn ==
  ASSUME FeedOk(feed), NEW j \in Jobs
  PROVE  FeedOk(Hint(feed, j)) /\ GoesOn(feed, Hint(feed, j))
BY HintIsNoted DEF FeedOk, KeepsView, GoesOn

LEMMA TimerGoesOn ==
  ASSUME FeedOk(feed), ScanTimer
  PROVE  FeedOk(feed') /\ GoesOn(feed, feed')
<1> PICK g : g = scheduleScan(feed)
  OBVIOUS
<1>1. g \in Feed /\ TaskInv(g) /\ SameView(feed, g) /\ (feed.hintsQueued => g.hintsQueued)
  BY ScanIsScheduled DEF FeedOk
<1>2. FeedOk(g) /\ GoesOn(feed, g)
  BY <1>1 DEF FeedOk, SameView, GoesOn, PendingInv, Bounded
<1> QED BY <1>2 DEF ScanTimer, FeedOnly

\* The first tasks of a feed that is idle.
LEMMA StartGoesOn ==
  ASSUME FeedOk(feed), StartTask
  PROVE  FeedOk(feed') /\ GoesOn(feed, feed')
<1> PICK f : f = feed
  OBVIOUS
<1>1. f \in Feed /\ TaskInv(f) /\ PendingInv(f) /\ Bounded(f) /\ f.tasks # <<>> /\ f.phase = "idle"
  BY DEF FeedOk, StartTask
<1>2. f.tasks \in Queues
  BY <1>1 DEF TaskInv
<1>3. CASE f.state = "closed"
  <2> PICK t : t = Tail(f.tasks)
    OBVIOUS
  <2>1. t \in Queues /\ t \in Seq({"scan", "hints"})
    BY <1>1, <1>2, FirstTask, QueuesAreTasks DEF Queues
  <2> PICK g : g = [f EXCEPT !.tasks = t]
    OBVIOUS
  <2>2. /\ g \in Feed /\ g.tasks = t /\ g.phase = "idle" /\ g.page = f.page /\ g.batch = f.batch
        /\ g.state = f.state /\ g.observed = f.observed /\ g.pending = f.pending
    BY <1>1, <2>1 DEF Feed
  <2>3. TaskInv(g) /\ PendingInv(g) /\ Bounded(g) /\ GoesOn(f, g)
    BY <1>1, <1>3, <2>1, <2>2 DEF TaskInv, PendingInv, Bounded, GoesOn, ScanPhases
  <2>4. feed' = g
    BY <1>3 DEF StartTask, FeedOnly
  <2> QED BY <2>2, <2>3, <2>4 DEF FeedOk
<1>4. CASE f.state # "closed" /\ Head(f.tasks) = "scan"
  <2> PICK g : g = [f EXCEPT !.phase = "active", !.scanned = 0]
    OBVIOUS
  <2>1. /\ g \in Feed /\ g.tasks = f.tasks /\ g.phase = "active" /\ g.page = f.page /\ g.batch = f.batch
        /\ g.state = f.state /\ g.observed = f.observed /\ g.pending = f.pending
        /\ g.scanQueued = f.scanQueued /\ g.hintsQueued = f.hintsQueued
    BY <1>1 DEF Feed, Phases
  <2>2. f.tasks \in {<<"scan">>, <<"scan", "hints">>}
    BY <1>1, <1>2, <1>4, FirstTask
  <2>3. TaskInv(g) /\ PendingInv(g) /\ Bounded(g) /\ GoesOn(f, g)
    BY <1>1, <2>1, <2>2 DEF TaskInv, PendingInv, Bounded, GoesOn, ScanPhases
  <2>4. feed' = g
    BY <1>4 DEF StartTask, FeedOnly
  <2> QED BY <2>1, <2>3, <2>4 DEF FeedOk
<1>5. CASE f.state # "closed" /\ Head(f.tasks) # "scan"
  <2> PICK n : n = IF Len(f.pending) < HintBatch THEN Len(f.pending) ELSE HintBatch
    OBVIOUS
  <2> PICK q : q = SubSeq(f.pending, n + 1, Len(f.pending))
    OBVIOUS
  <2> PICK p : p = SubSeq(f.pending, 1, n)
    OBVIOUS
  <2>1. f.pending \in Seq(Jobs) /\ Len(f.pending) \in Nat /\ HintBatch \in Nat /\ MaxPending \in Nat
    BY <1>1, EventBounds DEF Feed
  <2>2. n \in Nat /\ n <= Len(f.pending) /\ n <= HintBatch
    BY <2>1
  <2> PICK m : m = Len(f.pending)
    OBVIOUS
  <2>3. q \in Seq(Jobs) /\ Len(q) <= Len(f.pending)
    <3>1. n + 1 \in Int /\ m \in Int /\ \A i \in (n + 1)..m : f.pending[i] \in Jobs
      BY <2>1, <2>2
    <3>2. /\ SubSeq(f.pending, n + 1, m) \in Seq(Jobs)
          /\ Len(SubSeq(f.pending, n + 1, m)) = IF n + 1 <= m THEN m - (n + 1) + 1 ELSE 0
      BY <3>1, SubSeqProperties
    <3>3. q \in Seq(Jobs) /\ Len(q) = IF n + 1 <= m THEN m - (n + 1) + 1 ELSE 0
      BY <3>2, Zenon
    <3>4. n \in Nat /\ m \in Nat
      BY <2>1, <2>2
    <3> PICK l : l = Len(q)
      OBVIOUS
    <3>5. l <= m
      BY <3>3, <3>4
    <3> QED BY <3>3, <3>5
  <2>4. p \in Seq(Jobs) /\ Len(p) = n
    <3>1. 1 \in Int /\ n \in Int /\ \A i \in 1..n : f.pending[i] \in Jobs
      BY <2>1, <2>2
    <3>2. SubSeq(f.pending, 1, n) \in Seq(Jobs) /\ Len(SubSeq(f.pending, 1, n)) = IF 1 <= n THEN n - 1 + 1 ELSE 0
      BY <3>1, SubSeqProperties
    <3> QED BY <2>2, <3>2
  <2>5. ToSet(p) \in SUBSET Jobs /\ Cardinality(ToSet(p)) <= HintBatch
    <3>1. ToSet(p) = {p[i] : i \in 1..n}
      <4>1. DOMAIN p = 1..n
        BY <2>4
      <4> QED BY <4>1 DEF ToSet
    <3>2. ToSet(p) \in SUBSET Jobs
      BY <2>4, <3>1
    <3> PICK h : h = [i \in 1..n |-> p[i]]
      OBVIOUS
    <3>3. h \in [1..n -> ToSet(p)] /\ \A t \in ToSet(p) : \E i \in 1..n : h[i] = t
      BY <3>1
    <3>4. h \in Surjection(1..n, ToSet(p))
      BY <3>3 DEF Surjection
    <3>5. Cardinality(ToSet(p)) <= n
      BY <2>2, <3>4, FS_SurjCardinalityBound DEF ExistsSurjection
    <3>6. IsFiniteSet(ToSet(p))
      <4>1. 1 \in Int /\ n \in Int
        BY <2>2
      <4>2. IsFiniteSet(1..n)
        BY <4>1, FS_Interval
      <4> QED BY <3>4, <4>2, FS_Surjection
    <3>7. Cardinality(ToSet(p)) \in Nat
      BY <3>6, FS_CardinalityType
    <3> QED BY <2>1, <2>2, <3>2, <3>5, <3>7
  <2> PICK b : b = ToSet(p)
    OBVIOUS
  <2>51. b \in SUBSET Jobs
    BY <2>5
  <2> PICK g : g = [f EXCEPT !.phase = "hints", !.pending = q, !.batch = b]
    OBVIOUS
  <2>6. /\ g \in Feed /\ g.tasks = f.tasks /\ g.phase = "hints" /\ g.page = f.page /\ g.batch = b
        /\ g.state = f.state /\ g.observed = f.observed /\ g.pending = q
        /\ g.scanQueued = f.scanQueued /\ g.hintsQueued = f.hintsQueued
    BY <1>1, <2>3, <2>51, ZenonT(60) DEF Feed, Phases
  <2>7. f.tasks \in {<<"hints">>, <<"hints", "scan">>}
    BY <1>1, <1>2, <1>5, FirstTask
  <2>8. TaskInv(g) /\ GoesOn(f, g)
    BY <1>1, <2>6, <2>7 DEF TaskInv, GoesOn, ScanPhases
  <2>9. PendingInv(g)
    BY <1>1, <2>6, <2>7, QueuesDiffer DEF PendingInv, TaskInv
  <2>10. Bounded(g)
    <3>1. Len(q) \in Nat
      BY <2>3
    <3> QED BY <1>1, <2>1, <2>3, <2>5, <2>6, <3>1 DEF Bounded
  <2>11. feed' = g
    <3>1. g = [f EXCEPT !.phase = "hints", !.pending = SubSeq(@, n + 1, Len(@)),
                        !.batch = ToSet(SubSeq(f.pending, 1, n))]
      OBVIOUS
    <3> QED BY <1>5, <3>1 DEF StartTask, FeedOnly
  <2> QED BY <2>6, <2>8, <2>9, <2>10, <2>11 DEF FeedOk
<1> QED BY <1>3, <1>4, <1>5

\* A page has been read: the feed waits to write it.
LEMMA PageFields ==
  ASSUME NEW f, FeedOk(f), NEW p, PageOf(Jobs, p), NEW phase,
         \/ f.phase = "active" /\ phase = "active_read"
         \/ f.phase = "completed" /\ phase = "completed_read"
         \/ f.phase = "hints" /\ phase = "hints_read"
  PROVE  LET g == [f EXCEPT !.phase = phase, !.page = p]
         IN FeedOk(g) /\ GoesOn(f, g)
<1> PICK g : g = [f EXCEPT !.phase = phase, !.page = p]
  OBVIOUS
<1>1. f \in Feed /\ TaskInv(f) /\ PendingInv(f) /\ Bounded(f)
  BY DEF FeedOk
<1>2. phase \in Phases /\ p \in Seq(Seen) /\ Len(p) <= PageSize
  BY DEF Phases, PageOf
<1>3. /\ g \in Feed /\ g.tasks = f.tasks /\ g.phase = phase /\ g.page = p /\ g.batch = f.batch
      /\ g.state = f.state /\ g.observed = f.observed /\ g.pending = f.pending
      /\ g.scanQueued = f.scanQueued /\ g.hintsQueued = f.hintsQueued
  BY <1>1, <1>2 DEF Feed
<1>4. TaskInv(g)
  BY <1>1, <1>3 DEF TaskInv, ScanPhases
<1>5. PendingInv(g) /\ Bounded(g) /\ GoesOn(f, g)
  BY <1>1, <1>2, <1>3 DEF PendingInv, Bounded, GoesOn
<1> QED BY <1>3, <1>4, <1>5 DEF FeedOk

LEMMA ReadGoesOn ==
  ASSUME rows \in [Jobs -> Row], RowsInv, FeedOk(feed), ReadPage
  PROVE  FeedOk(feed') /\ GoesOn(feed, feed')
<1>1. feed \in Feed /\ TaskInv(feed) /\ PendingInv(feed) /\ Bounded(feed)
  BY DEF FeedOk
<1>2. PageOf(Jobs, ActivePage) /\ PageOf(Jobs, CompletedPage) /\ PageOf(Jobs, HintedPage)
  BY <1>1, PagesAreRead
<1>3. CASE feed.phase \in {"active", "completed"} /\ ~ReadsOn(feed)
  <2> PICK g : g = SkipGroup(feed)
    OBVIOUS
  <2>1. g \in Feed /\ TaskInv(g) /\ PendingInv(g) /\ Passed(feed, g)
    BY <1>1, <1>3, GroupIsSkipped DEF ScanPhases
  <2>2. Bounded(g)
    BY <1>1, <2>1, NothingIsBounded DEF Passed
  <2>3. feed' = g
    BY <1>3 DEF ReadPage, FeedOnly
  <2> QED BY <2>1, <2>2, <2>3 DEF Passed, FeedOk, GoesOn
<1>4. CASE feed.phase = "active" /\ ReadsOn(feed)
  <2>1. feed' = [feed EXCEPT !.phase = "active_read", !.page = ActivePage]
    BY <1>4 DEF ReadPage, FeedOnly
  <2> QED BY <1>2, <1>4, <2>1, PageFields
<1>5. CASE feed.phase = "completed" /\ ReadsOn(feed)
  <2>1. feed' = [feed EXCEPT !.phase = "completed_read", !.page = CompletedPage]
    BY <1>5 DEF ReadPage, FeedOnly
  <2> QED BY <1>2, <1>5, <2>1, PageFields
<1>6. CASE feed.phase = "hints"
  <2>1. feed' = [feed EXCEPT !.phase = "hints_read", !.page = HintedPage]
    BY <1>6 DEF ReadPage, FeedOnly
  <2> QED BY <1>2, <1>6, <2>1, PageFields
<1> QED BY <1>3, <1>4, <1>5, <1>6 DEF ReadPage

LEMMA FailedReadGoesOn ==
  ASSUME FeedOk(feed), ReadFails
  PROVE  FeedOk(feed') /\ GoesOn(feed, feed')
<1>1. feed \in Feed /\ TaskInv(feed) /\ PendingInv(feed) /\ Bounded(feed)
  BY DEF FeedOk
<1>2. feed.tasks # <<>>
  BY <1>1, QueuesDiffer DEF ReadFails, TaskInv, ScanPhases
<1> PICK g : g = EndTask(feed)
  OBVIOUS
<1>3. g \in Feed /\ TaskInv(g) /\ PendingInv(g) /\ Ended(feed, g)
  BY <1>1, <1>2, TaskEnds
<1>4. Bounded(g)
  BY <1>1, <1>3, NothingIsBounded DEF Ended
<1>5. feed' = g
  BY DEF ReadFails, FeedOnly
<1> QED BY <1>3, <1>4, <1>5 DEF Ended, FeedOk, GoesOn

\* A closed feed keeps its tasks but no hints.
LEMMA CloseClears ==
  ASSUME FeedOk(feed), CloseFeed
  PROVE  FeedOk(feed') /\ feed'.state = "closed" /\ feed'.page = feed.page
<1> PICK f : f = feed
  OBVIOUS
<1>1. f \in Feed /\ TaskInv(f) /\ PendingInv(f) /\ Bounded(f)
  BY DEF FeedOk
<1> PICK g : g = [f EXCEPT !.state = "closed", !.pending = <<>>, !.observed = {}]
  OBVIOUS
<1>2. <<>> \in Seq(Jobs) /\ Len(<<>>) = 0 /\ MaxPending \in Nat
  BY EventBounds
<1>3. /\ g \in Feed /\ g.tasks = f.tasks /\ g.phase = f.phase /\ g.page = f.page /\ g.batch = f.batch
      /\ g.state = "closed" /\ g.pending = <<>>
  BY <1>1, <1>2 DEF Feed
<1>4. TaskInv(g)
  BY <1>1, <1>3 DEF TaskInv
<1>5. PendingInv(g) /\ Bounded(g)
  BY <1>1, <1>2, <1>3 DEF PendingInv, Bounded
<1>6. feed' = g
  BY DEF CloseFeed, FeedOnly
<1> QED BY <1>3, <1>4, <1>5, <1>6 DEF FeedOk

\* An empty feed, in any state.
LEMMA EmptyFeedFields ==
  ASSUME NEW state \in {"unused", "open", "closed"}, NEW wanted \in SUBSET JobStatus
  PROVE  LET f == [ClosedFeed(state) EXCEPT !.wanted = wanted]
         IN FeedOk(f) /\ f.state = state /\ f.page = <<>>
<1>1. /\ <<>> \in Seq(Jobs) /\ <<>> \in Seq(Seen) /\ <<>> \in Seq({"scan", "hints"})
      /\ MaxPending \in Nat /\ PageSize \in Nat /\ HintBatch \in Nat /\ Len(<<>>) = 0
      /\ Cardinality({}) = 0 /\ NoCursor \in (0..MaxTime) \X (0..MaxJobs) /\ "idle" \in Phases
  <2>1. MaxTime \in Nat /\ MaxJobs \in Nat
    BY EventBounds
  <2>2. 0 \in 0..MaxTime /\ 0 \in 0..MaxJobs
    BY <2>1
  <2> QED BY <2>2, EventBounds, FS_EmptySet DEF NoCursor, Phases
<1>0. [state |-> state, wanted |-> wanted, pending |-> <<>>, batch |-> {}, observed |-> {}, tasks |-> <<>>,
   phase |-> "idle", page |-> <<>>, scanned |-> 0, activeCursor |-> 0, terminalCursor |-> NoCursor,
   scanQueued |-> FALSE, hintsQueued |-> FALSE] \in Feed
  <2>1. {} \subseteq Jobs /\ {} \subseteq Jobs \X JobStatus /\ 0 \in Nat /\ 0 \in Jobs \cup {0}
    OBVIOUS
  <2> QED BY <1>1, <2>1 DEF Feed
<1> PICK f : f = [ClosedFeed(state) EXCEPT !.wanted = wanted]
  OBVIOUS
<1>2. f = [ state |-> state, wanted |-> wanted, pending |-> <<>>, batch |-> {}, observed |-> {}, tasks |-> <<>>,
   phase |-> "idle", page |-> <<>>, scanned |-> 0, activeCursor |-> 0, terminalCursor |-> NoCursor,
   scanQueued |-> FALSE, hintsQueued |-> FALSE]
  BY DEF ClosedFeed
<1>3. f \in Feed
  BY <1>0, <1>2
<1>4. /\ f.state = state /\ f.page = <<>> /\ f.pending = <<>> /\ f.batch = {} /\ f.tasks = <<>>
      /\ f.phase = "idle" /\ f.scanQueued = FALSE /\ f.hintsQueued = FALSE
  BY <1>2
<1>5. TaskInv(f)
  BY <1>4 DEF TaskInv, Queues, ScanPhases
<1>6. PendingInv(f)
  BY <1>4 DEF PendingInv
<1>7. Bounded(f)
  <2>1. Len(f.pending) <= MaxPending /\ Len(f.page) <= PageSize
    BY <1>1, <1>4
  <2>2. Cardinality(f.batch) <= HintBatch
    <3>1. Cardinality(f.batch) = 0
      BY <1>1, <1>4
    <3> QED BY <1>1, <3>1
  <2> QED BY <2>1, <2>2 DEF Bounded
<1> QED BY <1>3, <1>4, <1>5, <1>6, <1>7 DEF FeedOk

LEMMA OpenIsEmpty ==
  ASSUME OpenFeed
  PROVE  FeedOk(feed') /\ feed'.state = "open" /\ feed'.page = <<>>
<1> PICK wanted \in {TERMINAL_JOB_STATUSES, JobStatus} :
      feed' = scheduleScan([ClosedFeed("open") EXCEPT !.wanted = wanted])
  BY DEF OpenFeed, FeedOnly
<1> PICK f : f = [ClosedFeed("open") EXCEPT !.wanted = wanted]
  OBVIOUS
<1>1. wanted \in SUBSET JobStatus
  BY DEF JobStatus
<1>2. FeedOk(f) /\ f.state = "open" /\ f.page = <<>>
  <2>1. "open" \in {"unused", "open", "closed"}
    OBVIOUS
  <2>2. LET e == [ClosedFeed("open") EXCEPT !.wanted = wanted]
        IN FeedOk(e) /\ e.state = "open" /\ e.page = <<>>
    BY <1>1, <2>1, EmptyFeedFields
  <2> QED BY <2>2, Zenon
<1> PICK g : g = scheduleScan(f)
  OBVIOUS
<1>3. g \in Feed /\ TaskInv(g) /\ SameView(f, g) /\ (f.hintsQueued => g.hintsQueued)
  BY <1>2, ScanIsScheduled DEF FeedOk
<1>4. FeedOk(g) /\ g.state = "open" /\ g.page = <<>>
  BY <1>2, <1>3 DEF FeedOk, SameView, PendingInv, Bounded
<1> QED BY <1>4

\* A page has been written: what it leaves of the feed.
Written(f, g) == FeedOk(g) /\ g.page = <<>> /\ g.state = f.state /\ g.observed = f.observed

PageGone(f, phase, n) == [f EXCEPT !.page = <<>>, !.phase = phase, !.scanned = n]

ActiveFrom(f, c) == [f EXCEPT !.activeCursor = c]

CompletedFrom(f, c) == [f EXCEPT !.terminalCursor = c]

\* The first steps of a group after a page.
LEMMA ReadFields ==
  ASSUME NEW f, FeedOk(f), NEW phase \in {"active", "completed"}, NEW n \in Nat,
         f.phase \in {"active_read", "completed_read"}
  PROVE  Written(f, PageGone(f, phase, n)) /\ PageGone(f, phase, n).phase = phase
<1> PICK r : r = PageGone(f, phase, n)
  OBVIOUS
<1>1. f \in Feed /\ TaskInv(f) /\ PendingInv(f) /\ Bounded(f)
  BY DEF FeedOk
<1>2. phase \in Phases /\ <<>> \in Seq(Seen)
  BY DEF Phases
<1>3. /\ r \in Feed /\ r.tasks = f.tasks /\ r.phase = phase /\ r.page = <<>> /\ r.batch = f.batch
      /\ r.state = f.state /\ r.observed = f.observed /\ r.pending = f.pending
      /\ r.scanQueued = f.scanQueued /\ r.hintsQueued = f.hintsQueued
  BY <1>1, <1>2 DEF Feed, PageGone
<1>4. TaskInv(r) /\ PendingInv(r)
  BY <1>1, <1>3 DEF TaskInv, PendingInv, ScanPhases
<1>5. Bounded(r)
  BY <1>1, <1>3, NothingIsBounded
<1> QED BY <1>3, <1>4, <1>5 DEF FeedOk, Written

\* The cursors do not matter to the rest.
LEMMA CursorFields ==
  ASSUME NEW f, FeedOk(f), f.page = <<>>
  PROVE  /\ \A c \in Jobs \cup {0} :
              Written(f, ActiveFrom(f, c)) /\ ActiveFrom(f, c).phase = f.phase
         /\ \A c \in (0..MaxTime) \X (0..MaxJobs) :
              Written(f, CompletedFrom(f, c)) /\ CompletedFrom(f, c).phase = f.phase
<1>1. f \in Feed /\ TaskInv(f) /\ PendingInv(f) /\ Bounded(f)
  BY DEF FeedOk
<1>2. ASSUME NEW c \in Jobs \cup {0}
      PROVE  Written(f, ActiveFrom(f, c)) /\ ActiveFrom(f, c).phase = f.phase
  <2> PICK r : r = ActiveFrom(f, c)
    OBVIOUS
  <2>1. /\ r \in Feed /\ r.tasks = f.tasks /\ r.phase = f.phase /\ r.page = <<>> /\ r.batch = f.batch
        /\ r.state = f.state /\ r.observed = f.observed /\ r.pending = f.pending
        /\ r.scanQueued = f.scanQueued /\ r.hintsQueued = f.hintsQueued
    BY <1>1 DEF Feed, ActiveFrom, CompletedFrom
  <2>2. TaskInv(r) /\ PendingInv(r) /\ Bounded(r)
    BY <1>1, <2>1 DEF TaskInv, PendingInv, Bounded
  <2> QED BY <2>1, <2>2 DEF FeedOk, Written
<1>3. ASSUME NEW c \in (0..MaxTime) \X (0..MaxJobs)
      PROVE  Written(f, CompletedFrom(f, c)) /\ CompletedFrom(f, c).phase = f.phase
  <2> PICK r : r = CompletedFrom(f, c)
    OBVIOUS
  <2>1. /\ r \in Feed /\ r.tasks = f.tasks /\ r.phase = f.phase /\ r.page = <<>> /\ r.batch = f.batch
        /\ r.state = f.state /\ r.observed = f.observed /\ r.pending = f.pending
        /\ r.scanQueued = f.scanQueued /\ r.hintsQueued = f.hintsQueued
    BY <1>1 DEF Feed, ActiveFrom, CompletedFrom
  <2>2. TaskInv(r) /\ PendingInv(r) /\ Bounded(r)
    BY <1>1, <2>1 DEF TaskInv, PendingInv, Bounded
  <2> QED BY <2>1, <2>2 DEF FeedOk, Written
<1> QED BY <1>2, <1>3

\* A group is passed over after its page was written.
LEMMA SkipIsWritten ==
  ASSUME NEW f, FeedOk(f), f.page = <<>>, f.phase \in ScanPhases
  PROVE  Written(f, SkipGroup(f))
<1> PICK g : g = SkipGroup(f)
  OBVIOUS
<1>1. f \in Feed /\ TaskInv(f) /\ PendingInv(f) /\ Bounded(f)
  BY DEF FeedOk
<1>2. g \in Feed /\ TaskInv(g) /\ PendingInv(g) /\ Passed(f, g)
  BY <1>1, GroupIsSkipped
<1>3. Bounded(g)
  BY <1>1, <1>2, NothingIsBounded DEF Passed
<1> QED BY <1>2, <1>3 DEF Passed, FeedOk, Written

\* A group goes on after a full page and ends with a short one.
LEMMA GroupIsWritten ==
  ASSUME NEW f, FeedOk(f), f.phase \in {"active_read", "completed_read"}
  PROVE  Written(f, GroupRead(f))
<1> DEFINE next == IF f.phase = "active_read" THEN "active" ELSE "completed"
           last == f.page[Len(f.page)]
<1>1. f \in Feed /\ TaskInv(f) /\ PendingInv(f) /\ Bounded(f)
  BY DEF FeedOk
<1> PICK n : n = f.scanned + Len(f.page)
  OBVIOUS
<1>2. n \in Nat /\ f.page \in Seq(Seen) /\ Len(f.page) \in Nat
  BY <1>1 DEF Feed
<1> PICK r : r = PageGone(f, next, n)
  OBVIOUS
<1>3. Written(f, r) /\ r.phase = next
  <2>1. next \in {"active", "completed"}
    OBVIOUS
  <2> HIDE DEF next
  <2> QED BY <1>2, <2>1, ReadFields
<1>4. r = [f EXCEPT !.page = <<>>, !.phase = next, !.scanned = @ + Len(f.page)]
  BY DEF PageGone
<1>5. FeedOk(r) /\ r.page = <<>> /\ r.state = f.state /\ r.observed = f.observed
  BY <1>3 DEF Written
<1>6. CASE Len(f.page) < PageSize
  <2> PICK c : c = IF next = "active" THEN ActiveFrom(r, 0) ELSE CompletedFrom(r, NoCursor)
    OBVIOUS
  <2>1. NoCursor \in (0..MaxTime) \X (0..MaxJobs)
    <3>1. MaxTime \in Nat /\ MaxJobs \in Nat
      BY EventBounds
    <3> QED BY <3>1 DEF NoCursor
  <2>2. Written(r, c) /\ c.phase = r.phase
    <3>1. 0 \in Jobs \cup {0}
      OBVIOUS
    <3> HIDE DEF next
    <3> QED BY <1>5, <2>1, <3>1, CursorFields
  <2>3. FeedOk(c) /\ c.page = <<>> /\ c.phase \in ScanPhases
    BY <1>3, <2>2 DEF Written, ScanPhases
  <2>4. Written(c, SkipGroup(c))
    BY <2>3, SkipIsWritten
  <2>5. GroupRead(f) = SkipGroup(c)
    BY <1>4, <1>6 DEF GroupRead, ActiveFrom, CompletedFrom
  <2> QED BY <1>5, <2>2, <2>4, <2>5 DEF Written
<1>7. CASE ~(Len(f.page) < PageSize)
  <2>1. last \in Seen
    <3>1. PageSize \in Nat \ {0}
      BY EventBounds
    <3>2. Len(f.page) \in 1..Len(f.page)
      BY <1>2, <1>7, <3>1
    <3> QED BY <1>2, <3>2
  <2>2. last.job \in Jobs \cup {0} /\ <<last.at, last.job>> \in (0..MaxTime) \X (0..MaxJobs)
    <3>1. Jobs \subseteq 0..MaxJobs
      BY EventBounds DEF Jobs
    <3> HIDE DEF last
    <3> QED BY <2>1, <3>1 DEF Seen
  <2> PICK c : c = IF next = "active" THEN ActiveFrom(r, last.job)
                   ELSE CompletedFrom(r, <<last.at, last.job>>)
    OBVIOUS
  <2>3. Written(r, c)
    <3> HIDE DEF last
    <3> QED BY <1>5, <2>2, CursorFields
  <2>4. GroupRead(f) = c
    BY <1>4, <1>7 DEF GroupRead, ActiveFrom, CompletedFrom
  <2> QED BY <1>5, <2>3, <2>4 DEF Written
<1> QED BY <1>6, <1>7

\* What is remembered of the jobs shown does not matter to the tasks.
ObservedToo(f, o) == [f EXCEPT !.observed = @ \cup o]

LEMMA ObservedFields ==
  ASSUME NEW f, FeedOk(f), NEW o \in SUBSET (Jobs \X JobStatus)
  PROVE  LET g == ObservedToo(f, o)
         IN FeedOk(g) /\ g.state = f.state /\ g.phase = f.phase /\ g.observed = f.observed \cup o
<1> PICK g : g = ObservedToo(f, o)
  OBVIOUS
<1>1. f \in Feed /\ TaskInv(f) /\ PendingInv(f) /\ Bounded(f)
  BY DEF FeedOk
<1>2. f.observed \cup o \in SUBSET (Jobs \X JobStatus)
  BY <1>1 DEF Feed
<1>3. /\ g \in Feed /\ g.tasks = f.tasks /\ g.phase = f.phase /\ g.page = f.page /\ g.batch = f.batch
      /\ g.state = f.state /\ g.pending = f.pending /\ g.observed = f.observed \cup o
      /\ g.scanQueued = f.scanQueued /\ g.hintsQueued = f.hintsQueued
  BY <1>1, <1>2 DEF Feed, ObservedToo
<1>4. TaskInv(g) /\ PendingInv(g) /\ Bounded(g)
  BY <1>1, <1>3 DEF TaskInv, PendingInv, Bounded
<1> QED BY <1>3, <1>4 DEF FeedOk

\* A job is shown as before, or an open feed shows a later state of it and remembers it.
ShownForward(f, j, g) ==
  \/ shown'[j] = shown[j]
  \/ /\ f.state = "open" /\ shown[j] < shown'[j] /\ shown'[j] <= rows[j].rev
     /\ shown'[j] = rows[j].rev => <<j, rows[j].status>> \in g.observed

LEMMA WriteGoesOn ==
  ASSUME FeedOk(feed), PageInv, shown \in [Jobs -> 0..MaxRevision], WritePage
  PROVE  /\ FeedOk(feed') /\ feed'.page = <<>> /\ feed'.state = feed.state
         /\ feed.observed \subseteq feed'.observed
         /\ shown' \in [Jobs -> 0..MaxRevision]
         /\ \A j \in Jobs : ShownForward(feed, j, feed')
<1> PICK matched : matched = Matched(feed)
  OBVIOUS
<1> PICK o : o = {<<feed.page[i].job, feed.page[i].status>> : i \in matched}
  OBVIOUS
<1> PICK written : written = ObservedToo(feed, o)
  OBVIOUS
<1>1. feed' = IF feed.phase = "hints_read" THEN EndTask(written) ELSE GroupRead(written)
  BY DEF WritePage, FeedOnly, ObservedToo
<1>2. shown' = [j \in Jobs |-> IF \E i \in matched : feed.page[i].job = j
                               THEN feed.page[CHOOSE i \in matched : feed.page[i].job = j].rev
                               ELSE shown[j]]
  BY DEF WritePage
<1>3. feed.phase \in {"active_read", "completed_read", "hints_read"}
  BY DEF WritePage
<1>4. feed \in Feed /\ TaskInv(feed) /\ PendingInv(feed) /\ Bounded(feed)
  BY DEF FeedOk
<1>5. feed.page \in Seq(Seen)
  BY <1>4 DEF Feed
<1>6. \A i \in matched : /\ i \in DOMAIN feed.page /\ feed.page[i] \in Seen /\ feed.state = "open"
                         /\ <<feed.page[i].job, feed.page[i].status>> \notin feed.observed
  BY <1>5 DEF Matched
<1>61. \A i \in matched : <<feed.page[i].job, feed.page[i].status>> \in o
  OBVIOUS
<1>7. o \in SUBSET (Jobs \X JobStatus)
  BY <1>6 DEF Seen
<1>8. FeedOk(written) /\ written.state = feed.state /\ written.phase = feed.phase
      /\ written.observed = feed.observed \cup o
  BY <1>7, ObservedFields
<1>9. Written(written, feed')
  <2>1. CASE feed.phase = "hints_read"
    <3>1. written.tasks # <<>>
      BY <1>8, <2>1, QueuesDiffer DEF FeedOk, TaskInv
    <3> PICK g : g = EndTask(written)
      OBVIOUS
    <3>2. written \in Feed /\ TaskInv(written) /\ PendingInv(written) /\ Bounded(written)
      BY <1>8 DEF FeedOk
    <3>3. g \in Feed /\ TaskInv(g) /\ PendingInv(g) /\ Ended(written, g)
      BY <3>1, <3>2, TaskEnds
    <3>4. Bounded(g)
      BY <3>2, <3>3, NothingIsBounded DEF Ended
    <3> QED BY <1>1, <2>1, <3>3, <3>4 DEF Ended, Written, FeedOk
  <2>2. CASE feed.phase # "hints_read"
    BY <1>1, <1>3, <1>8, <2>2, GroupIsWritten
  <2> QED BY <2>1, <2>2
<1>10. FeedOk(feed') /\ feed'.page = <<>> /\ feed'.state = feed.state
       /\ feed'.observed = feed.observed \cup o
  BY <1>8, <1>9 DEF Written
<1>11. ASSUME NEW j \in Jobs
       PROVE  shown'[j] \in 0..MaxRevision /\ ShownForward(feed, j, feed')
  <2>1. CASE ~ \E i \in matched : feed.page[i].job = j
    BY <1>2, <2>1 DEF ShownForward
  <2>2. CASE \E i \in matched : feed.page[i].job = j
    <3> PICK k : k = CHOOSE i \in matched : feed.page[i].job = j
      OBVIOUS
    <3>1. k \in matched /\ feed.page[k].job = j
      BY <2>2, Zenon
    <3> PICK e : e = feed.page[k]
      OBVIOUS
    <3>2. shown'[j] = e.rev
      BY <1>2, <2>2
    <3>3. e \in Seen /\ e.job = j /\ feed.state = "open" /\ k \in DOMAIN feed.page
          /\ <<j, e.status>> \notin feed.observed
      BY <1>6, <3>1
    <3>4. /\ shown[j] <= e.rev /\ e.rev <= rows[j].rev
          /\ e.rev = rows[j].rev => e.status = rows[j].status
          /\ e.rev # shown[j]
      BY <3>3 DEF PageInv
    <3>5. <<j, e.status>> \in o
      <4>1. <<feed.page[k].job, feed.page[k].status>> \in o
        BY <1>61, <3>1, Zenon
      <4> QED BY <3>1, <4>1, Zenon
    <3>6. e.rev \in 0..MaxRevision /\ shown[j] \in Int /\ e.rev \in Int
      BY <3>3, EventBounds DEF Seen
    <3>7. shown[j] < shown'[j]
      <4>1. \A x, y \in Int : x <= y /\ y # x => x < y
        OBVIOUS
      <4> QED BY <3>2, <3>4, <3>6, <4>1, Zenon
    <3>8. shown'[j] = rows[j].rev => <<j, rows[j].status>> \in feed'.observed
      <4> SUFFICES ASSUME shown'[j] = rows[j].rev PROVE <<j, rows[j].status>> \in feed'.observed
        OBVIOUS
      <4>1. rows[j].status = e.status
        BY <3>2, <3>4
      <4> QED BY <1>10, <3>5, <4>1, Zenon
    <3> HIDE <1>2
    <3>9. ShownForward(feed, j, feed')
      BY <3>2, <3>3, <3>4, <3>7, <3>8 DEF ShownForward
    <3> QED BY <3>2, <3>6, <3>9
  <2> QED BY <2>1, <2>2
<1>12. shown' \in [Jobs -> 0..MaxRevision]
  <2> DEFINE value(j) == IF \E i \in matched : feed.page[i].job = j
                         THEN feed.page[CHOOSE i \in matched : feed.page[i].job = j].rev
                         ELSE shown[j]
  <2>1. shown' = [j \in Jobs |-> value(j)]
    BY <1>2
  <2> HIDE DEF value
  <2>2. \A j \in Jobs : value(j) = shown'[j]
    BY <2>1
  <2> QED BY <1>11, <2>1, <2>2
<1> QED BY <1>10, <1>11, <1>12

-----------------------------------------------------------------------------
(* What was shown and what waits to be shown.                              *)

FeedInv ==
  /\ rows \in [Jobs -> Row] /\ shown \in [Jobs -> 0..MaxRevision]
  /\ RowsInv /\ FeedOk(feed) /\ PageInv /\ ShownInv

\* The numbers the invariant compares.
LEMMA Numbers ==
  ASSUME rows \in [Jobs -> Row], shown \in [Jobs -> 0..MaxRevision], NEW j \in Jobs
  PROVE  rows[j].rev \in Nat /\ shown[j] \in Nat /\ rows[j].rev <= MaxRevision
<1>1. rows[j] \in Row /\ MaxRevision \in Nat /\ shown[j] \in 0..MaxRevision
  BY EventBounds
<1> QED BY <1>1 DEF Row

\* Whatever the feed does but writing, opening and closing.
LEMMA GoingOnShowsNothing ==
  ASSUME FeedInv, UNCHANGED <<rows, shown>>, FeedOk(feed'), GoesOn(feed, feed')
  PROVE  FeedInv'
<1>1. feed'.page = <<>> \/ feed'.page = feed.page \/ PageOf(Jobs, feed'.page)
  BY DEF GoesOn
<1>2. feed'.state = feed.state /\ feed'.observed = feed.observed
  BY DEF GoesOn
<1>3. ShownInv'
  BY <1>2 DEF FeedInv, ShownInv
<1>4. PageInv'
  <2>1. CASE feed'.page = <<>>
    BY <2>1 DEF PageInv
  <2>2. CASE feed'.page = feed.page
    BY <1>2, <2>2 DEF FeedInv, PageInv
  <2>3. CASE PageOf(Jobs, feed'.page)
    <3> SUFFICES ASSUME NEW i \in DOMAIN feed'.page, NEW e, e = feed'.page[i]
                 PROVE  /\ shown[e.job] <= e.rev /\ e.rev <= rows[e.job].rev
                        /\ e.rev = rows[e.job].rev => e.status = rows[e.job].status
                        /\ feed'.state = "open" /\ e.rev = shown[e.job] => <<e.job, e.status>> \in feed'.observed
      BY DEF PageInv
    <3>1. PICK j \in Jobs : e = See(j)
      BY <2>3 DEF PageOf
    <3>2. e.job = j /\ e.status = rows[j].status /\ e.rev = rows[j].rev
      BY <3>1 DEF See
    <3>3. rows[j].rev \in Nat /\ shown[j] \in Nat /\ rows[j].rev <= MaxRevision
      BY Numbers DEF FeedInv
    <3>4. rows[j].rev # 0
      <4>1. e \in Seen
        <5>1. feed'.page \in Seq(Seen)
          BY <2>3 DEF PageOf
        <5> QED BY <5>1
      <4> QED BY <3>2, <4>1 DEF Seen
    <3>5. /\ shown[j] <= rows[j].rev
          /\ feed.state = "open" /\ shown[j] # 0 /\ shown[j] = rows[j].rev =>
               <<j, rows[j].status>> \in feed.observed
      BY DEF FeedInv, ShownInv
    <3> QED BY <1>2, <3>2, <3>3, <3>4, <3>5
  <2> QED BY <1>1, <2>1, <2>2, <2>3
<1>5. rows' \in [Jobs -> Row] /\ shown' \in [Jobs -> 0..MaxRevision] /\ RowsInv'
  BY DEF FeedInv, RowsInv
<1> QED BY <1>3, <1>4, <1>5 DEF FeedInv

\* A closed feed owes nothing.
LEMMA ClosingShowsNothing ==
  ASSUME FeedInv, UNCHANGED <<rows, shown>>, FeedOk(feed'), feed'.state = "closed", feed'.page = feed.page
  PROVE  FeedInv'
<1>1. ShownInv' /\ PageInv'
  BY DEF FeedInv, ShownInv, PageInv
<1>2. rows' \in [Jobs -> Row] /\ shown' \in [Jobs -> 0..MaxRevision] /\ RowsInv'
  BY DEF FeedInv, RowsInv
<1> QED BY <1>1, <1>2 DEF FeedInv

\* A feed that opens has shown nothing.
LEMMA OpeningShowsNothing ==
  ASSUME FeedInv, UNCHANGED <<rows, shown>>, feed.state = "unused",
         FeedOk(feed'), feed'.state = "open", feed'.page = <<>>
  PROVE  FeedInv'
<1>1. ShownInv' /\ PageInv'
  BY DEF FeedInv, ShownInv, PageInv
<1>2. rows' \in [Jobs -> Row] /\ shown' \in [Jobs -> 0..MaxRevision] /\ RowsInv'
  BY DEF FeedInv, RowsInv
<1> QED BY <1>1, <1>2 DEF FeedInv

\* What is written is remembered, and its page is gone.
LEMMA WritingIsRemembered ==
  ASSUME FeedInv, WritePage
  PROVE  FeedInv'
<1>1. /\ FeedOk(feed') /\ feed'.page = <<>> /\ feed'.state = feed.state
      /\ feed.observed \subseteq feed'.observed
      /\ shown' \in [Jobs -> 0..MaxRevision]
      /\ \A j \in Jobs : ShownForward(feed, j, feed')
  BY WriteGoesOn DEF FeedInv
<1>2. UNCHANGED rows
  BY DEF WritePage, FeedOnly
<1>3. PageInv'
  BY <1>1 DEF PageInv
<1>4. ShownInv'
  <2> SUFFICES ASSUME NEW j \in Jobs
               PROVE  /\ shown'[j] <= rows[j].rev
                      /\ feed'.state = "unused" => shown'[j] = 0
                      /\ feed'.state = "open" /\ shown'[j] # 0 /\ shown'[j] = rows[j].rev =>
                           <<j, rows[j].status>> \in feed'.observed
    BY <1>2 DEF ShownInv
  <2>1. /\ shown[j] <= rows[j].rev
        /\ feed.state = "unused" => shown[j] = 0
        /\ feed.state = "open" /\ shown[j] # 0 /\ shown[j] = rows[j].rev =>
             <<j, rows[j].status>> \in feed.observed
    BY DEF FeedInv, ShownInv
  <2>2. ShownForward(feed, j, feed')
    BY <1>1
  <2> QED BY <1>1, <2>1, <2>2 DEF ShownForward
<1>5. rows' \in [Jobs -> Row] /\ RowsInv'
  BY <1>2 DEF FeedInv, RowsInv
<1> QED BY <1>1, <1>3, <1>4, <1>5 DEF FeedInv

\* The rows after a write: every job but one is as it was, and that one is newer or older
\* in days only.
RowsMove(j) ==
  /\ rows' \in [Jobs -> Row]
  /\ \A k \in Jobs \ {j} : rows'[k] = rows[k]
  /\ \/ rows'[j].rev = rows[j].rev + 1
     \/ rows'[j].rev = rows[j].rev /\ rows'[j].status = rows[j].status

LEMMA MovingRowsShowNothing ==
  ASSUME FeedInv, NEW j \in Jobs, RowsMove(j), UNCHANGED <<feed, shown>>
  PROVE  FeedInv'
<1>1. rows' \in [Jobs -> Row] /\ shown' \in [Jobs -> 0..MaxRevision] /\ FeedOk(feed')
  BY DEF FeedInv, RowsMove
<1>2. \A k \in Jobs : rows[k].rev \in Nat /\ shown[k] \in Nat
  BY Numbers DEF FeedInv
<1>3. \A k \in Jobs : \/ rows'[k].rev = rows[k].rev + 1
                      \/ rows'[k].rev = rows[k].rev /\ rows'[k].status = rows[k].status
  BY DEF RowsMove
<1>4. RowsInv'
  <2> SUFFICES ASSUME NEW k \in Jobs, rows'[k].status # "NONE" PROVE rows'[k].rev # 0
    BY DEF RowsInv
  <2> QED BY <1>2, <1>3 DEF FeedInv, RowsInv
<1>5. PageInv'
  <2> SUFFICES ASSUME NEW i \in DOMAIN feed.page, NEW e, e = feed.page[i]
               PROVE  /\ shown[e.job] <= e.rev /\ e.rev <= rows'[e.job].rev
                      /\ e.rev = rows'[e.job].rev => e.status = rows'[e.job].status
                      /\ feed.state = "open" /\ e.rev = shown[e.job] => <<e.job, e.status>> \in feed.observed
    BY DEF PageInv
  <2>1. /\ shown[e.job] <= e.rev /\ e.rev <= rows[e.job].rev
        /\ e.rev = rows[e.job].rev => e.status = rows[e.job].status
        /\ feed.state = "open" /\ e.rev = shown[e.job] => <<e.job, e.status>> \in feed.observed
    BY DEF FeedInv, PageInv
  <2>2. e.job \in Jobs /\ e.rev \in Nat
    <3>1. feed.page \in Seq(Seen)
      BY DEF FeedInv, FeedOk, Feed
    <3>2. e \in Seen /\ MaxRevision \in Nat
      BY <3>1, EventBounds
    <3> QED BY <3>2 DEF Seen
  <2> PICK k \in Jobs : k = e.job
    BY <2>2
  <2> QED BY <1>2, <1>3, <2>1, <2>2
<1>6. ShownInv'
  <2> SUFFICES ASSUME NEW k \in Jobs
               PROVE  /\ shown[k] <= rows'[k].rev
                      /\ feed.state = "unused" => shown[k] = 0
                      /\ feed.state = "open" /\ shown[k] # 0 /\ shown[k] = rows'[k].rev =>
                           <<k, rows'[k].status>> \in feed.observed
    BY DEF ShownInv
  <2>1. /\ shown[k] <= rows[k].rev
        /\ feed.state = "unused" => shown[k] = 0
        /\ feed.state = "open" /\ shown[k] # 0 /\ shown[k] = rows[k].rev =>
             <<k, rows[k].status>> \in feed.observed
    BY DEF FeedInv, ShownInv
  <2> QED BY <1>2, <1>3, <2>1
<1> QED BY <1>1, <1>4, <1>5, <1>6 DEF FeedInv

-----------------------------------------------------------------------------
(* The writers.                                                            *)

LEMMA StatusesStay ==
  ASSUME NEW status \in JobStatus \cup {"NONE"}
  PROVE  /\ Successors(status) \subseteq JobStatus
         /\ isTerminalJobStatus(status) => Successors(status) = {}
<1>1. CASE status = "NONE"
  BY <1>1 DEF Successors, JobStatus, isTerminalJobStatus, TERMINAL_JOB_STATUSES
<1>2. CASE isTerminalJobStatus(status)
  <2>1. status # "NONE"
    BY <1>2 DEF isTerminalJobStatus, TERMINAL_JOB_STATUSES
  <2> QED BY <1>2, <2>1 DEF Successors
<1>3. CASE status # "NONE" /\ ~isTerminalJobStatus(status)
  <2>1. Successors(status) = VALID_JOB_STATUS_TRANSITIONS[status] \cup {status} \cup
                             (IF status = "RUNNING" THEN {"QUEUED"} ELSE {})
    BY <1>3 DEF Successors
  <2>2. status \in {"QUEUED", "RUNNING", "CANCEL_REQUESTED"}
    BY <1>3 DEF JobStatus, isTerminalJobStatus
  <2>3. VALID_JOB_STATUS_TRANSITIONS[status] \subseteq JobStatus
    BY <2>2 DEF VALID_JOB_STATUS_TRANSITIONS, JobStatus, TERMINAL_JOB_STATUSES
  <2> QED BY <1>3, <2>1, <2>2, <2>3 DEF JobStatus
<1> QED BY <1>1, <1>2, <1>3

\* What a write does to its row.
LEMMA WriteMovesRow ==
  ASSUME rows \in [Jobs -> Row], NEW j \in Jobs, WriteJob(j)
  PROVE  /\ RowsMove(j) /\ ~isTerminalJobStatus(rows[j].status)
         /\ rows'[j].rev = rows[j].rev + 1
<1>1. PICK status \in Successors(rows[j].status), at \in 0..MaxTime :
        rows' = [rows EXCEPT ![j] = [status |-> status, rev |-> @.rev + 1, at |-> at, old |-> FALSE]]
  BY DEF WriteJob
<1>2. rows[j] \in Row /\ rows[j].rev < MaxRevision /\ MaxRevision \in Nat
  BY EventBounds DEF WriteJob
<1>3. rows[j].status \in JobStatus \cup {"NONE"} /\ rows[j].rev \in 0..MaxRevision
  BY <1>2 DEF Row
<1>4. status \in JobStatus /\ ~isTerminalJobStatus(rows[j].status)
  BY <1>1, <1>3, StatusesStay
<1> PICK row : row = [status |-> status, rev |-> rows[j].rev + 1, at |-> at, old |-> FALSE]
  OBVIOUS
<1>5. row \in Row /\ row.rev = rows[j].rev + 1
  BY <1>2, <1>3, <1>4 DEF Row
<1>6. rows' = [rows EXCEPT ![j] = row]
  BY <1>1
<1> QED BY <1>4, <1>5, <1>6 DEF RowsMove

LEMMA AgeMovesRow ==
  ASSUME rows \in [Jobs -> Row], NEW j \in Jobs, AgeJob(j)
  PROVE  RowsMove(j) /\ rows'[j].rev = rows[j].rev /\ rows'[j].status = rows[j].status
<1>1. rows' = [rows EXCEPT ![j].old = TRUE]
  BY DEF AgeJob
<1>2. rows[j] \in Row
  OBVIOUS
<1> PICK row : row = [rows[j] EXCEPT !.old = TRUE]
  OBVIOUS
<1>3. row \in Row /\ row.rev = rows[j].rev /\ row.status = rows[j].status
  BY <1>2 DEF Row
<1>4. rows' = [rows EXCEPT ![j] = row]
  BY <1>1
<1> QED BY <1>3, <1>4 DEF RowsMove

-----------------------------------------------------------------------------
(* Every step keeps the invariant of the feed.                             *)

LEMMA FeedInvKept ==
  ASSUME FeedInv, [Next]_vars
  PROVE  FeedInv'
<1>1. ASSUME UNCHANGED <<rows, feed, shown>>
      PROVE  FeedInv'
  BY <1>1 DEF FeedInv, FeedOk, RowsInv, PageInv, ShownInv
<1>2. ASSUME NEW j \in Jobs, WriteJob(j)
      PROVE  FeedInv'
  <2>1. RowsMove(j)
    BY <1>2, WriteMovesRow DEF FeedInv
  <2>2. UNCHANGED <<feed, shown>>
    BY <1>2 DEF WriteJob
  <2> QED BY <2>1, <2>2, MovingRowsShowNothing
<1>3. ASSUME NEW j \in Jobs, AgeJob(j)
      PROVE  FeedInv'
  <2>1. RowsMove(j)
    BY <1>3, AgeMovesRow DEF FeedInv
  <2>2. UNCHANGED <<feed, shown>>
    BY <1>3 DEF AgeJob
  <2> QED BY <2>1, <2>2, MovingRowsShowNothing
<1>4. ASSUME NEW j \in Jobs, Notify(j)
      PROVE  FeedInv'
  <2>1. UNCHANGED <<rows, shown>>
    BY <1>4 DEF Notify
  <2>2. CASE listener = "on"
    <3>1. feed' = Hint(feed, j)
      BY <1>4, <2>2 DEF Notify
    <3>2. FeedOk(feed') /\ GoesOn(feed, feed')
      BY <3>1, HintGoesOn DEF FeedInv
    <3> QED BY <2>1, <3>2, GoingOnShowsNothing
  <2>3. CASE listener # "on"
    BY <1>1, <1>4, <2>1, <2>3 DEF Notify
  <2> QED BY <2>2, <2>3
<1>5. CASE ListenerReady \/ ListenerFails
  BY <1>1, <1>5 DEF ListenerReady, ListenerFails
<1>6. CASE OpenFeed
  <2>1. UNCHANGED <<rows, shown>> /\ feed.state = "unused"
    BY <1>6 DEF OpenFeed, FeedOnly
  <2>2. FeedOk(feed') /\ feed'.state = "open" /\ feed'.page = <<>>
    BY <1>6, OpenIsEmpty
  <2> QED BY <2>1, <2>2, OpeningShowsNothing
<1>7. CASE CloseFeed
  <2>1. UNCHANGED <<rows, shown>>
    BY <1>7 DEF CloseFeed, FeedOnly
  <2>2. FeedOk(feed') /\ feed'.state = "closed" /\ feed'.page = feed.page
    BY <1>7, CloseClears DEF FeedInv
  <2> QED BY <2>1, <2>2, ClosingShowsNothing
<1>8. CASE ScanTimer \/ StartTask \/ ReadPage \/ ReadFails
  <2>1. UNCHANGED <<rows, shown>>
    BY <1>8 DEF ScanTimer, StartTask, ReadPage, ReadFails, FeedOnly
  <2>2. FeedOk(feed') /\ GoesOn(feed, feed')
    BY <1>8, TimerGoesOn, StartGoesOn, ReadGoesOn, FailedReadGoesOn DEF FeedInv
  <2> QED BY <2>1, <2>2, GoingOnShowsNothing
<1>9. CASE WritePage
  <2> QED BY <1>9, WritingIsRemembered
<1>10. CASE OpenStream \/ StreamStep \/ ReadJobFails \/ ClientLeaves
  BY <1>1, <1>10 DEF OpenStream, StreamStep, ReadJobFails, ClientLeaves, ReadJob, BeginStream,
                     Loop, WaitTimesOut, HandleJob, StreamOnly
<1>11. CASE UNCHANGED vars
  BY <1>1, <1>11 DEF vars
<1> QED BY <1>2, <1>3, <1>4, <1>5, <1>6, <1>7, <1>8, <1>9, <1>10, <1>11 DEF Next, FeedTask

-----------------------------------------------------------------------------
(* The stream of one job.                                                  *)

StreamOk == stream \in Stream /\ StreamInv(stream)

\* Nothing the stream looks at changes.
LEMMA StreamRests ==
  ASSUME StreamOk, UNCHANGED <<stream, rows, notes, listener>>, faults' = 0 => faults = 0
  PROVE  StreamOk'
BY DEF StreamOk, StreamInv

\* A write is announced or counted as a fault, and a job that has ended is not written.
LEMMA StreamSeesWrite ==
  ASSUME StreamOk, rows \in [Jobs -> Row], faults \in 0..MaxFaults, NEW j \in Jobs, WriteJob(j)
  PROVE  StreamOk'
<1>1. RowsMove(j) /\ ~isTerminalJobStatus(rows[j].status)
  BY WriteMovesRow
<1>2. UNCHANGED <<stream, listener>> /\ notes \subseteq notes'
      /\ (j \in notes' \/ faults' = faults + 1) /\ faults' \in {faults, faults + 1}
  BY DEF WriteJob, Fault
<1>3. faults \in Nat /\ (faults' = 0 => faults = 0 /\ j \in notes')
  BY <1>2, FaultCount
<1>4. CASE stream.job # j
  <2>1. rows'[stream.job] = rows[stream.job]
    BY <1>1, <1>4 DEF RowsMove, StreamOk, Stream
  <2> QED BY <1>2, <1>3, <2>1 DEF StreamOk, StreamInv
<1>5. CASE stream.job = j
  <2>1. ~isTerminalJobStatus(stream.status)
    BY <1>1, <1>5 DEF StreamOk, StreamInv
  <2>2. ~(stream.pc = "ended" /\ ~stream.gone /\ ~stream.failed)
    BY <1>1, <1>5 DEF StreamOk, StreamInv
  <2> QED BY <1>2, <1>3, <1>5, <2>1, <2>2 DEF StreamOk, StreamInv
<1> QED BY <1>4, <1>5

LEMMA StreamSeesAge ==
  ASSUME StreamOk, rows \in [Jobs -> Row], faults \in 0..MaxFaults, NEW j \in Jobs, AgeJob(j)
  PROVE  StreamOk'
<1>1. RowsMove(j) /\ rows'[j].rev = rows[j].rev /\ rows'[j].status = rows[j].status
  BY AgeMovesRow
<1>2. UNCHANGED <<stream, listener, notes>> /\ faults' = faults + 1
  BY DEF AgeJob, Fault
<1>3. faults' # 0
  BY <1>2, FaultCount
<1>4. rows'[stream.job].rev = rows[stream.job].rev /\ rows'[stream.job].status = rows[stream.job].status
  BY <1>1 DEF RowsMove, StreamOk, Stream
<1> QED BY <1>2, <1>3, <1>4 DEF StreamOk, StreamInv

\* The listener comes and goes: a stream that is sure of its job had it.
LEMMA StreamSeesListener ==
  ASSUME StreamOk, faults \in 0..MaxFaults, UNCHANGED <<stream, rows, notes>>,
         \/ listener = "starting" /\ listener' = "on" /\ UNCHANGED faults
         \/ listener \notin {"on", "broken"} /\ (faults' = 0 => faults = 0)
         \/ listener = "on" /\ listener' = "broken" /\ (faults' = 0 => faults = 0)
         \/ listener' = listener /\ (faults' = 0 => faults = 0)
  PROVE  StreamOk'
BY DEF StreamOk, StreamInv

\* The stream once a notification of its job has reached it.
LEMMA StreamWakes ==
  ASSUME StreamOk, NEW j \in Jobs, Notify(j)
  PROVE  StreamOk'
<1>1. UNCHANGED <<rows, listener, faults>> /\ notes' = notes \ {j}
  BY DEF Notify
<1>2. CASE listener # "on"
  <2>1. UNCHANGED stream
    BY <1>2 DEF Notify
  <2> QED BY <1>1, <1>2, <2>1 DEF StreamOk, StreamInv
<1>3. CASE listener = "on" /\ (j # stream.job \/ stream.clientClosed
                               \/ stream.pc \in {"unused", "first", "begin", "ended"})
  <2>1. stream' = stream
    BY <1>3 DEF Notify, Wake
  <2> QED BY <1>1, <1>3, <2>1 DEF StreamOk, StreamInv
<1>4. CASE /\ listener = "on" /\ j = stream.job /\ ~stream.clientClosed
           /\ stream.pc \notin {"unused", "first", "begin", "ended"} /\ stream.pc = "wait"
  <2>1. stream' = [stream EXCEPT !.pc = "read"]
    BY <1>4 DEF Notify, Wake, Awake
  <2>2. stream' \in Stream /\ stream'.pc = "read" /\ stream'.job = stream.job
        /\ stream'.clientClosed = stream.clientClosed /\ stream'.gone = stream.gone
        /\ stream'.sure = stream.sure /\ stream'.status = stream.status
    BY <2>1 DEF StreamOk, Stream
  <2> QED BY <1>1, <1>4, <2>2 DEF StreamOk, StreamInv
<1>5. CASE /\ listener = "on" /\ j = stream.job /\ ~stream.clientClosed
           /\ stream.pc \notin {"unused", "first", "begin", "ended"} /\ stream.pc # "wait"
  <2>1. stream' = [stream EXCEPT !.pending = TRUE]
    BY <1>5 DEF Notify, Wake
  <2>2. stream' \in Stream /\ stream'.pc = stream.pc /\ stream'.job = stream.job
        /\ stream'.clientClosed = stream.clientClosed /\ stream'.gone = stream.gone
        /\ stream'.sure = stream.sure /\ stream'.status = stream.status /\ stream'.pending = TRUE
    BY <2>1 DEF StreamOk, Stream
  <2> QED BY <1>1, <1>5, <2>2 DEF StreamOk, StreamInv
<1> QED BY <1>2, <1>3, <1>4, <1>5

\* A stream is opened, fails, or is left by its client.
LEMMA StreamComesAndGoes ==
  ASSUME StreamOk, faults \in 0..MaxFaults, OpenStream \/ ReadJobFails \/ ClientLeaves
  PROVE  StreamOk'
<1>1. UNCHANGED <<rows, notes, listener>> /\ (faults' = 0 => faults = 0)
  BY FaultCount DEF OpenStream, ReadJobFails, ClientLeaves, StreamOnly, Fault
<1>2. CASE OpenStream
  <2>1. stream' = [stream EXCEPT !.pc = "first"] /\ stream.pc = "unused"
    BY <1>2 DEF OpenStream, StreamOnly
  <2>2. stream' \in Stream /\ stream'.pc = "first" /\ stream'.job = stream.job
        /\ stream'.clientClosed = stream.clientClosed /\ stream'.gone = stream.gone
        /\ stream'.sure = stream.sure /\ stream'.status = stream.status
    BY <2>1 DEF StreamOk, Stream
  <2> QED BY <1>1, <2>1, <2>2 DEF StreamOk, StreamInv
<1>3. CASE ReadJobFails
  <2>1. stream' = [stream EXCEPT !.pc = "ended", !.failed = TRUE]
    BY <1>3 DEF ReadJobFails, StreamOnly
  <2>2. stream' \in Stream /\ stream'.pc = "ended" /\ stream'.job = stream.job /\ stream'.failed = TRUE
        /\ stream'.clientClosed = stream.clientClosed /\ stream'.gone = stream.gone
        /\ stream'.sure = stream.sure /\ stream'.status = stream.status
    BY <2>1 DEF StreamOk, Stream
  <2> QED BY <1>1, <2>2 DEF StreamOk, StreamInv
<1>4. CASE ClientLeaves
  <2> PICK c \in BOOLEAN : c = (stream.pc \notin {"first", "begin"})
    OBVIOUS
  <2>1. stream' = [stream EXCEPT !.gone = TRUE, !.clientClosed = c] /\ stream.pc \notin {"unused", "ended"}
    BY <1>4 DEF ClientLeaves, StreamOnly
  <2>2. stream' \in Stream /\ stream'.pc = stream.pc /\ stream'.job = stream.job /\ stream'.gone = TRUE
        /\ stream'.clientClosed = c /\ stream'.pending = stream.pending
        /\ stream'.sure = stream.sure /\ stream'.status = stream.status
    BY <2>1 DEF StreamOk, Stream
  <2>3. StreamInv(stream)'
    <3>1. CASE c
      BY <1>1, <2>1, <2>2, <3>1 DEF StreamOk, StreamInv
    <3>2. CASE ~c
      <4>1. stream.pc \in {"first", "begin"}
        BY <3>2
      <4> QED BY <1>1, <2>1, <2>2, <3>2, <4>1 DEF StreamOk, StreamInv
    <3> QED BY <3>1, <3>2
  <2> QED BY <2>2, <2>3 DEF StreamOk
<1> QED BY <1>2, <1>3, <1>4

\* A read: a stream that reads while notifications arrive is sure of what it got.
LEMMA StreamReads ==
  ASSUME StreamOk, rows \in [Jobs -> Row], ReadJob
  PROVE  StreamOk'
<1> PICK sure \in BOOLEAN : sure = (stream.pc = "read" /\ listener = "on")
  OBVIOUS
<1> PICK row : row = rows[stream.job]
  OBVIOUS
<1> PICK pc : pc = IF stream.pc = "first" THEN "begin" ELSE "got"
  OBVIOUS
<1>1. stream \in Stream /\ stream.pc \in {"first", "read"} /\ stream.job \in Jobs
  BY DEF ReadJob, StreamOk, Stream
<1>2. row \in Row
  BY <1>1
<1>3. stream' = [stream EXCEPT !.pc = pc, !.rev = row.rev, !.status = row.status, !.sure = sure]
  BY DEF ReadJob, StreamOnly
<1>4. UNCHANGED <<rows, notes, listener, faults>>
  BY DEF ReadJob, StreamOnly
<1>5. stream' \in Stream /\ stream'.pc = pc /\ stream'.job = stream.job /\ stream'.gone = stream.gone
      /\ stream'.clientClosed = stream.clientClosed /\ stream'.rev = row.rev
      /\ stream'.sure = sure /\ stream'.status = row.status
  <2>1. row.rev \in 0..MaxRevision /\ row.status \in JobStatus \cup {"NONE"}
    BY <1>2 DEF Row
  <2>2. pc \in {"begin", "got"}
    OBVIOUS
  <2> QED BY <1>1, <1>3, <2>1, <2>2, ZenonT(60) DEF Stream
<1>6. pc = "begin" => ~sure /\ ~stream.clientClosed
  BY <1>1 DEF StreamOk, StreamInv
<1> QED BY <1>4, <1>5, <1>6 DEF StreamOk, StreamInv

\* What an event does to the stream.
LEMMA ToldFields ==
  ASSUME NEW s \in Stream
  PROVE  LET t == Tell(s)
         IN /\ t \in Stream /\ t.told = s.status /\ t.last = s.rev /\ t.job = s.job /\ t.status = s.status
            /\ t.gone = s.gone /\ t.clientClosed = s.clientClosed /\ t.sure = s.sure
            /\ t.pc = IF isTerminalJobStatus(s.status) THEN "ended" ELSE "loop"
<1> PICK pc : pc = IF isTerminalJobStatus(s.status) THEN "ended" ELSE "loop"
  OBVIOUS
<1> PICK t : t = [s EXCEPT !.told = s.status, !.last = s.rev, !.pc = pc]
  OBVIOUS
<1>1. pc \in {"ended", "loop"}
  OBVIOUS
<1>2. /\ t \in Stream /\ t.told = s.status /\ t.last = s.rev /\ t.job = s.job /\ t.status = s.status
      /\ t.gone = s.gone /\ t.clientClosed = s.clientClosed /\ t.sure = s.sure /\ t.pc = pc
  BY <1>1 DEF Stream
<1>3. t = Tell(s)
  BY DEF Tell
<1> QED BY <1>2, <1>3

LEMMA StreamBegins ==
  ASSUME StreamOk, BeginStream
  PROVE  StreamOk'
<1>1. stream' = Tell(stream) /\ stream.pc = "begin" /\ UNCHANGED <<rows, notes, faults>>
      /\ (listener \in {"on", "broken"} => listener' = listener)
  BY DEF BeginStream, StreamOnly, Started
<1>2. stream \in Stream
  BY DEF StreamOk
<1>3. /\ stream' \in Stream /\ stream'.told = stream.status /\ stream'.last = stream.rev
      /\ stream'.job = stream.job /\ stream'.status = stream.status
      /\ stream'.gone = stream.gone /\ stream'.clientClosed = stream.clientClosed
      /\ stream'.sure = stream.sure
      /\ stream'.pc = IF isTerminalJobStatus(stream.status) THEN "ended" ELSE "loop"
  BY <1>1, <1>2, ToldFields
<1>4. ~stream.sure /\ ~stream.clientClosed
  BY <1>1 DEF StreamOk, StreamInv
<1> QED BY <1>1, <1>3, <1>4 DEF StreamOk, StreamInv

\* Before it waits, a stream looks once more whether a notification came.
LEMMA StreamLoops ==
  ASSUME StreamOk, Loop
  PROVE  StreamOk'
<1>1. stream.pc = "loop" /\ UNCHANGED <<rows, notes, listener, faults>> /\ stream \in Stream
  BY DEF Loop, StreamOnly, StreamOk
<1>2. CASE stream.clientClosed
  <2>1. stream' = [stream EXCEPT !.pc = "ended"]
    BY <1>2 DEF Loop, StreamOnly
  <2>2. stream' \in Stream /\ stream'.pc = "ended" /\ stream'.job = stream.job
        /\ stream'.clientClosed = stream.clientClosed /\ stream'.gone = stream.gone
        /\ stream'.sure = stream.sure /\ stream'.status = stream.status
    BY <1>1, <2>1 DEF Stream
  <2> QED BY <1>1, <1>2, <2>2 DEF StreamOk, StreamInv
<1>3. CASE ~stream.clientClosed /\ stream.pending
  <2>1. stream' = [stream EXCEPT !.pc = "read", !.pending = FALSE]
    BY <1>3 DEF Loop, StreamOnly
  <2>2. stream' \in Stream /\ stream'.pc = "read" /\ stream'.job = stream.job
        /\ stream'.clientClosed = stream.clientClosed /\ stream'.gone = stream.gone
        /\ stream'.sure = stream.sure /\ stream'.status = stream.status
    BY <1>1, <2>1 DEF Stream
  <2> QED BY <1>1, <2>2 DEF StreamOk, StreamInv
<1>4. CASE ~stream.clientClosed /\ ~stream.pending
  <2>1. stream' = [stream EXCEPT !.pc = "wait"]
    BY <1>4 DEF Loop, StreamOnly
  <2>2. stream' \in Stream /\ stream'.pc = "wait" /\ stream'.job = stream.job
        /\ stream'.clientClosed = stream.clientClosed /\ stream'.gone = stream.gone
        /\ stream'.sure = stream.sure /\ stream'.status = stream.status /\ stream'.last = stream.last
    BY <1>1, <2>1 DEF Stream
  <2> QED BY <1>1, <1>4, <2>2 DEF StreamOk, StreamInv
<1> QED BY <1>2, <1>3, <1>4

LEMMA StreamTimesOut ==
  ASSUME StreamOk, WaitTimesOut
  PROVE  StreamOk'
<1>1. stream.pc = "wait" /\ UNCHANGED <<rows, notes, listener, faults>> /\ stream \in Stream
  BY DEF WaitTimesOut, StreamOnly, StreamOk
<1> PICK pc : pc = IF stream.clientClosed THEN "ended" ELSE "read"
  OBVIOUS
<1>2. stream' = [stream EXCEPT !.pc = pc] /\ pc \in {"ended", "read"}
  BY DEF WaitTimesOut, StreamOnly, Awake
<1>3. stream' \in Stream /\ stream'.pc = pc /\ stream'.job = stream.job
      /\ stream'.clientClosed = stream.clientClosed /\ stream'.gone = stream.gone
      /\ stream'.sure = stream.sure /\ stream'.status = stream.status
  BY <1>1, <1>2 DEF Stream
<1>4. pc = "ended" => stream.gone
  BY DEF StreamOk, StreamInv
<1> QED BY <1>1, <1>2, <1>3, <1>4 DEF StreamOk, StreamInv

\* What was read is told if it is new, and known otherwise.
LEMMA StreamHandles ==
  ASSUME StreamOk, HandleJob
  PROVE  StreamOk'
<1>1. stream.pc = "got" /\ UNCHANGED <<rows, notes, listener, faults>> /\ stream \in Stream
  BY DEF HandleJob, StreamOnly, StreamOk
<1>2. CASE stream.rev # stream.last
  <2>1. stream' = Tell(stream)
    BY <1>2 DEF HandleJob, StreamOnly
  <2>2. /\ stream' \in Stream /\ stream'.told = stream.status /\ stream'.last = stream.rev
        /\ stream'.job = stream.job /\ stream'.status = stream.status
        /\ stream'.gone = stream.gone /\ stream'.clientClosed = stream.clientClosed
        /\ stream'.sure = stream.sure
        /\ stream'.pc = IF isTerminalJobStatus(stream.status) THEN "ended" ELSE "loop"
    BY <1>1, <2>1, ToldFields
  <2>3. stream'.pending = stream.pending
    BY <1>1, <2>1 DEF Tell, Stream
  <2> QED BY <1>1, <2>2, <2>3 DEF StreamOk, StreamInv
<1>3. CASE stream.rev = stream.last
  <2>1. stream' = [stream EXCEPT !.pc = "loop"]
    BY <1>3 DEF HandleJob, StreamOnly
  <2>2. stream' \in Stream /\ stream'.pc = "loop" /\ stream'.job = stream.job
        /\ stream'.clientClosed = stream.clientClosed /\ stream'.gone = stream.gone
        /\ stream'.sure = stream.sure /\ stream'.status = stream.status
        /\ stream'.pending = stream.pending /\ stream'.last = stream.last
    BY <1>1, <2>1 DEF Stream
  <2> QED BY <1>1, <1>3, <2>2 DEF StreamOk, StreamInv
<1> QED BY <1>2, <1>3

\* Every step keeps the invariant of the stream.
LEMMA StreamOkKept ==
  ASSUME StreamOk, rows \in [Jobs -> Row], faults \in 0..MaxFaults, [Next]_vars
  PROVE  StreamOk'
<1>1. CASE \E j \in Jobs : WriteJob(j) \/ AgeJob(j) \/ Notify(j)
  BY <1>1, StreamSeesWrite, StreamSeesAge, StreamWakes
<1>2. CASE ListenerReady \/ ListenerFails
  <2>1. UNCHANGED <<stream, rows, notes>>
    BY <1>2 DEF ListenerReady, ListenerFails
  <2>2. \/ listener = "starting" /\ listener' = "on" /\ UNCHANGED faults
        \/ listener \notin {"on", "broken"} /\ (faults' = 0 => faults = 0)
        \/ listener = "on" /\ listener' = "broken" /\ (faults' = 0 => faults = 0)
    BY <1>2, FaultCount DEF ListenerReady, ListenerFails, Fault
  <2> QED BY <2>1, <2>2, StreamSeesListener
<1>3. CASE OpenFeed
  <2>1. UNCHANGED <<stream, rows, notes, faults>>
    BY <1>3 DEF OpenFeed, FeedOnly
  <2>2. listener \notin {"on", "broken"} \/ listener' = listener
    BY <1>3 DEF OpenFeed, Started
  <2> QED BY <2>1, <2>2, StreamSeesListener
<1>4. CASE CloseFeed \/ ScanTimer \/ FeedTask \/ ReadFails
  <2>1. UNCHANGED <<stream, rows, notes, listener>> /\ (faults' = 0 => faults = 0)
    BY <1>4, FaultCount DEF CloseFeed, ScanTimer, FeedTask, StartTask, ReadPage, WritePage, ReadFails,
                            FeedOnly, Fault
  <2> QED BY <2>1, StreamRests
<1>5. CASE OpenStream \/ ReadJobFails \/ ClientLeaves
  BY <1>5, StreamComesAndGoes
<1>6. CASE StreamStep
  BY <1>6, StreamReads, StreamBegins, StreamLoops, StreamTimesOut, StreamHandles DEF StreamStep
<1>7. CASE UNCHANGED vars
  BY <1>7, StreamRests DEF vars
<1> QED BY <1>1, <1>2, <1>3, <1>4, <1>5, <1>6, <1>7 DEF Next

-----------------------------------------------------------------------------
(* The invariant of the whole.                                             *)

LEMMA EventsParts ==
  ASSUME EventsInv
  PROVE  FeedInv /\ StreamOk /\ faults \in 0..MaxFaults
BY DEF EventsInv, TypeOK, FeedInv, FeedOk, Bounded, StreamOk

LEMMA EventsInvInit == Init => EventsInv
<1> SUFFICES ASSUME Init PROVE EventsInv
  OBVIOUS
<1>1. /\ {MaxJobs, MaxRevision, MaxTime} \subseteq Nat \ {0} /\ MaxFaults \in Nat
      /\ 1 \in Jobs /\ 0 \in 0..MaxRevision /\ 0 \in 0..MaxTime
  BY EventBounds, FaultCount DEF Jobs
<1> PICK row : row = [status |-> "NONE", rev |-> 0, at |-> 0, old |-> FALSE]
  OBVIOUS
<1>2. rows \in [Jobs -> Row] /\ RowsInv /\ \A j \in Jobs : rows[j].rev = 0
  <2>1. row \in Row /\ row.status = "NONE" /\ row.rev = 0
    BY <1>1 DEF Row
  <2>2. rows = [j \in Jobs |-> row]
    BY DEF Init
  <2> QED BY <2>1, <2>2 DEF RowsInv
<1>3. shown = [j \in Jobs |-> 0] /\ feed = ClosedFeed("unused") /\ stream = IdleStream(1)
      /\ notes = {} /\ listener = "off" /\ faults = 0
  BY DEF Init
<1>4. FeedOk(feed) /\ feed.state = "unused" /\ feed.page = <<>>
  <2> PICK f : f = [ClosedFeed("unused") EXCEPT !.wanted = {}]
    OBVIOUS
  <2>1. "unused" \in {"unused", "open", "closed"} /\ {} \in SUBSET JobStatus
    OBVIOUS
  <2>2. LET e == [ClosedFeed("unused") EXCEPT !.wanted = {}]
        IN FeedOk(e) /\ e.state = "unused" /\ e.page = <<>>
    BY <2>1, EmptyFeedFields
  <2>3. f = ClosedFeed("unused")
    BY DEF ClosedFeed
  <2> QED BY <1>3, <2>2, <2>3, Zenon
<1>5. PageInv
  BY <1>4 DEF PageInv
<1>6. ShownInv
  BY <1>2, <1>3, <1>4 DEF ShownInv
<1>7. stream \in Stream
  BY <1>1, <1>3 DEF IdleStream, Stream
<1>8. StreamInv(stream)
  <2>1. /\ stream.pc = "unused" /\ stream.status = "NONE" /\ stream.sure = FALSE
        /\ stream.clientClosed = FALSE
    BY <1>3 DEF IdleStream
  <2> QED BY <2>1 DEF StreamInv, isTerminalJobStatus, TERMINAL_JOB_STATUSES
<1>9. shown \in [Jobs -> 0..MaxRevision] /\ notes \subseteq Jobs /\ listener \in ListenerStates
      /\ faults \in 0..MaxFaults
  BY <1>1, <1>3 DEF ListenerStates
<1> QED BY <1>2, <1>4, <1>5, <1>6, <1>7, <1>8, <1>9 DEF EventsInv, TypeOK, FeedOk, Bounded

LEMMA EventsInvStep == EventsInv /\ [Next]_vars => EventsInv'
<1> SUFFICES ASSUME EventsInv, [Next]_vars PROVE EventsInv'
  OBVIOUS
<1>1. FeedInv /\ StreamOk /\ faults \in 0..MaxFaults
  BY EventsParts
<1>2. FeedInv'
  BY <1>1, FeedInvKept
<1>3. StreamOk'
  BY <1>1, StreamOkKept DEF FeedInv
<1>4. notes \subseteq Jobs /\ listener \in ListenerStates
  BY DEF EventsInv, TypeOK
<1>5. notes' \subseteq Jobs
  BY <1>4 DEF Next, vars, WriteJob, AgeJob, Notify, ListenerReady, ListenerFails, OpenFeed, CloseFeed,
     ScanTimer, FeedTask, StartTask, ReadPage, WritePage, ReadFails, OpenStream, StreamStep, ReadJob,
     BeginStream, Loop, WaitTimesOut, HandleJob, ReadJobFails, ClientLeaves, FeedOnly, StreamOnly
<1>6. listener' \in ListenerStates
  <2>1. \/ listener' = listener \/ listener' = Started
        \/ listener' \in {"on", "off", "broken"}
    BY DEF Next, vars, WriteJob, AgeJob, Notify, ListenerReady, ListenerFails, OpenFeed, CloseFeed,
       ScanTimer, FeedTask, StartTask, ReadPage, WritePage, ReadFails, OpenStream, StreamStep, ReadJob,
       BeginStream, Loop, WaitTimesOut, HandleJob, ReadJobFails, ClientLeaves
  <2> QED BY <1>4, <2>1 DEF ListenerStates, Started
<1>7. faults' \in 0..MaxFaults
  <2>1. faults' = faults \/ (faults < MaxFaults /\ faults' = faults + 1)
    BY DEF Next, vars, WriteJob, AgeJob, Notify, ListenerReady, ListenerFails, OpenFeed, CloseFeed,
       ScanTimer, FeedTask, StartTask, ReadPage, WritePage, ReadFails, OpenStream, StreamStep, ReadJob,
       BeginStream, Loop, WaitTimesOut, HandleJob, ReadJobFails, ClientLeaves, Fault
  <2> QED BY <1>1, <2>1, FaultCount
<1> QED BY <1>2, <1>3, <1>5, <1>6, <1>7 DEF EventsInv, TypeOK, FeedInv, FeedOk, Bounded, StreamOk

\* The invariant behind the two properties of JobEvents: the queue of a feed, the pages it
\* reads and what it has shown, and what a stream knows of its job.
THEOREM EventsInvariant == Spec => []EventsInv
<1>1. Init => EventsInv
  BY EventsInvInit
<1>2. EventsInv /\ [Next]_vars => EventsInv'
  BY EventsInvStep
<1> QED BY <1>1, <1>2, PTL DEF Spec

\* The listener, the feed and the stream keep to their types and the feed to its limits: the
\* hints it keeps (MAX_PENDING_HINTS), those it takes at once (HINT_BATCH_SIZE), and the rows
\* of a page (PAGE_SIZE).
THEOREM EventsTypeCorrect == Spec => []TypeOK
<1>1. EventsInv => TypeOK
  BY DEF EventsInv
<1> QED BY <1>1, EventsInvariant, PTL

-----------------------------------------------------------------------------
(* Nothing is forgotten.                                                   *)

LEMMA TasksInQueues ==
  ASSUME NEW t \in Queues
  PROVE  /\ "scan" \in ToSet(t) <=> t \notin {<<>>, <<"hints">>}
         /\ "hints" \in ToSet(t) <=> t \notin {<<>>, <<"scan">>}
         /\ Len(t) <= 2
<1>1. /\ DOMAIN <<>> = 1..0 /\ DOMAIN <<"scan">> = 1..1 /\ DOMAIN <<"hints">> = 1..1
      /\ DOMAIN <<"scan", "hints">> = 1..2 /\ DOMAIN <<"hints", "scan">> = 1..2
  OBVIOUS
<1>2. CASE t = <<>>
  BY <1>2 DEF ToSet
<1>3. CASE t = <<"scan">>
  BY <1>3, QueuesDiffer DEF ToSet
<1>4. CASE t = <<"hints">>
  BY <1>4, QueuesDiffer DEF ToSet
<1>5. CASE t = <<"scan", "hints">>
  <2>1. t[1] = "scan" /\ t[2] = "hints" /\ 1 \in DOMAIN t /\ 2 \in DOMAIN t /\ Len(t) = 2
    BY <1>5
  <2> QED BY <1>5, <2>1, QueuesDiffer DEF ToSet
<1>6. CASE t = <<"hints", "scan">>
  <2>1. t[1] = "hints" /\ t[2] = "scan" /\ 1 \in DOMAIN t /\ 2 \in DOMAIN t /\ Len(t) = 2
    BY <1>6
  <2> QED BY <1>6, <2>1, QueuesDiffer DEF ToSet
<1> QED BY <1>2, <1>3, <1>4, <1>5, <1>6 DEF Queues

LEMMA InvariantForgetsNothing == EventsInv => NothingIsForgotten
<1> SUFFICES ASSUME EventsInv PROVE NothingIsForgotten
  OBVIOUS
<1>1. TaskInv(feed) /\ PendingInv(feed) /\ StreamInv(stream)
  BY DEF EventsInv
<1>2. QueuedIsComing
  BY <1>1, TasksInQueues DEF QueuedIsComing, TaskInv, PendingInv
<1>3. NoMissedWake /\ EndedStreamToldFinal
  BY <1>1 DEF StreamInv, NoMissedWake, EndedStreamToldFinal
<1> QED BY <1>2, <1>3 DEF NothingIsForgotten

\* The flags of a feed tell which tasks are queued and a hint it keeps has its task; a
\* stream that waits while notifications arrive knows its job as it is or is about to be
\* woken; a stream that ends by itself has told how its job ended.
THEOREM NothingIsEverForgotten == Spec => []NothingIsForgotten
BY EventsInvariant, InvariantForgetsNothing, PTL

-----------------------------------------------------------------------------
(* The feed keeps its promise.                                             *)

\* The numbers of writes, as EventFeed sees them.
Revisions == [j \in Jobs |-> rows[j].rev]

LEMMA PromiseInit == Init => Promise!Init
<1> SUFFICES ASSUME Init PROVE Promise!Init
  OBVIOUS
<1>1. Revisions \in [Jobs -> Nat]
  <2> PICK row : row = [status |-> "NONE", rev |-> 0, at |-> 0, old |-> FALSE]
    OBVIOUS
  <2>1. rows = [j \in Jobs |-> row] /\ row.rev = 0
    BY DEF Init
  <2> QED BY <2>1 DEF Revisions
<1>2. feed.state # "open" /\ shown = [j \in Jobs |-> 0]
  BY DEF Init, ClosedFeed
<1> QED BY <1>1, <1>2 DEF Promise!Init, Revisions

\* A step that leaves the numbers, the state of the feed and what it has shown.
LEMMA PromiseStutters ==
  ASSUME Revisions' = Revisions, feed'.state = feed.state, shown' = shown
  PROVE  [Promise!Next]_<<[j \in Jobs |-> rows[j].rev], feed.state = "open", shown>>
BY DEF Revisions

LEMMA PromiseStep ==
  ASSUME EventsInv, [Next]_vars
  PROVE  [Promise!Next]_<<[j \in Jobs |-> rows[j].rev], feed.state = "open", shown>>
<1>1. FeedInv /\ FeedOk(feed) /\ rows \in [Jobs -> Row] /\ shown \in [Jobs -> 0..MaxRevision]
  BY EventsParts DEF FeedInv
<1>2. ASSUME UNCHANGED <<rows, shown>>, feed'.state = feed.state
      PROVE  [Promise!Next]_<<[j \in Jobs |-> rows[j].rev], feed.state = "open", shown>>
  BY <1>2, PromiseStutters DEF Revisions
<1>3. ASSUME NEW j \in Jobs, WriteJob(j)
      PROVE  Promise!Next
  <2>1. RowsMove(j) /\ rows'[j].rev = rows[j].rev + 1
    BY <1>1, <1>3, WriteMovesRow
  <2>2. Revisions' = [Revisions EXCEPT ![j] = @ + 1]
    BY <2>1 DEF Revisions, RowsMove
  <2>3. UNCHANGED <<feed, shown>>
    BY <1>3 DEF WriteJob
  <2>4. Promise!Write(j)
    BY <2>2, <2>3 DEF Promise!Write, Revisions
  <2> QED BY <2>4 DEF Promise!Next
<1>4. ASSUME NEW i \in Jobs, AgeJob(i)
      PROVE  [Promise!Next]_<<[j \in Jobs |-> rows[j].rev], feed.state = "open", shown>>
  <2>1. RowsMove(i) /\ rows'[i].rev = rows[i].rev
    BY <1>1, <1>4, AgeMovesRow
  <2>2. Revisions' = Revisions
    BY <2>1 DEF Revisions, RowsMove
  <2>3. UNCHANGED <<feed, shown>>
    BY <1>4 DEF AgeJob
  <2> QED BY <2>2, <2>3, PromiseStutters
<1>5. ASSUME NEW i \in Jobs, Notify(i)
      PROVE  [Promise!Next]_<<[j \in Jobs |-> rows[j].rev], feed.state = "open", shown>>
  <2>1. UNCHANGED <<rows, shown>> /\ (feed' = feed \/ feed' = Hint(feed, i))
    BY <1>5 DEF Notify
  <2>2. feed'.state = feed.state
    BY <1>1, <2>1, HintGoesOn DEF GoesOn
  <2> QED BY <1>2, <2>1, <2>2
<1>6. CASE OpenFeed
  <2>1. UNCHANGED <<rows, shown>> /\ feed.state # "open" /\ feed'.state = "open"
    BY <1>6, OpenIsEmpty DEF OpenFeed, FeedOnly
  <2>2. Promise!Open
    BY <2>1 DEF Promise!Open
  <2> QED BY <2>2 DEF Promise!Next
<1>7. CASE CloseFeed
  <2>1. UNCHANGED <<rows, shown>> /\ feed.state = "open" /\ feed'.state = "closed"
    BY <1>1, <1>7, CloseClears DEF CloseFeed, FeedOnly
  <2>2. Promise!Close
    BY <2>1 DEF Promise!Close
  <2> QED BY <2>2 DEF Promise!Next
<1>8. CASE ScanTimer \/ StartTask \/ ReadPage \/ ReadFails
  <2>1. UNCHANGED <<rows, shown>>
    BY <1>8 DEF ScanTimer, StartTask, ReadPage, ReadFails, FeedOnly
  <2>2. feed'.state = feed.state
    BY <1>1, <1>8, TimerGoesOn, StartGoesOn, ReadGoesOn, FailedReadGoesOn DEF FeedInv, GoesOn
  <2> QED BY <1>2, <2>1, <2>2
<1>9. CASE WritePage
  <2>1. /\ feed'.state = feed.state /\ shown' \in [Jobs -> 0..MaxRevision]
        /\ \A j \in Jobs : ShownForward(feed, j, feed')
    BY <1>1, <1>9, WriteGoesOn DEF FeedInv
  <2>2. UNCHANGED rows
    BY <1>9 DEF WritePage, FeedOnly
  <2>3. CASE shown' = shown
    BY <1>2, <2>1, <2>2, <2>3
  <2>4. CASE shown' # shown
    <3>1. PICK j \in Jobs : shown'[j] # shown[j]
      BY <1>1, <2>1, <2>4
    <3>2. feed.state = "open"
      BY <2>1, <3>1 DEF ShownForward
    <3>3. \A k \in Jobs : shown'[k] # shown[k] => shown[k] < shown'[k] /\ shown'[k] <= Revisions[k]
      BY <2>1 DEF ShownForward, Revisions
    <3>4. shown' \in [Jobs -> Nat]
      BY <2>1, EventBounds
    <3>5. Promise!Show
      BY <2>1, <2>2, <3>2, <3>3, <3>4 DEF Promise!Show, Revisions
    <3> QED BY <3>5 DEF Promise!Next
  <2> QED BY <2>3, <2>4
<1>10. CASE \/ ListenerReady \/ ListenerFails \/ OpenStream \/ StreamStep \/ ReadJobFails \/ ClientLeaves
            \/ UNCHANGED vars
  <2>1. UNCHANGED <<rows, feed, shown>>
    BY <1>10 DEF ListenerReady, ListenerFails, OpenStream, StreamStep, ReadJobFails, ClientLeaves, ReadJob,
                 BeginStream, Loop, WaitTimesOut, HandleJob, StreamOnly, vars
  <2> QED BY <1>2, <2>1
<1> QED BY <1>3, <1>4, <1>5, <1>6, <1>7, <1>8, <1>9, <1>10 DEF Next, FeedTask

\* The feed shows the states of each job in the order in which it had them, only while it is
\* open, and no state the job never had: scans, hints and closing may come in any order.
THEOREM PromiseIsKept == Spec => KeepsPromise
<1>1. Init => Promise!Init
  BY PromiseInit
<1>2. EventsInv /\ [Next]_vars => [Promise!Next]_<<[j \in Jobs |-> rows[j].rev], feed.state = "open", shown>>
  BY PromiseStep
<1> QED BY <1>1, <1>2, EventsInvariant, PTL DEF Spec, KeepsPromise, Promise!Spec
=============================================================================
