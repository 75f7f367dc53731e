------------------------- MODULE SessionTitlesProofs -------------------------
(***************************************************************************)
(* Theorems about SessionTitles, for any number of sessions, replies, jobs *)
(* and workers, any page, batch and transcript size, and any number of     *)
(* faults.                                                                 *)
(***************************************************************************)
EXTENDS Sessions, WorkspaceAccessProofs

-----------------------------------------------------------------------------
(* Sets of numbers.                                                        *)

\* One that is bounded has a largest.
LEMMA HasLargest ==
  ASSUME NEW N \in Nat, NEW S \in SUBSET (0..N), S # {}
  PROVE  \E x \in S : \A y \in S : y <= x
<1> DEFINE T == {N - x : x \in S}
<1>0. \A x \in S : x \in Nat /\ x <= N /\ N - x \in Nat
  OBVIOUS
<1>1. T \in SUBSET Nat /\ T # {}
  BY <1>0
<1>2. PICK t \in T : \A y \in T : t <= y
  BY <1>1, HasSmallest
<1>3. PICK x \in S : t = N - x
  BY <1>2
<1>4. \A y \in S : N - y \in T
  OBVIOUS
<1>5. \A y \in S : N - x <= N - y
  BY <1>2, <1>3, <1>4
<1>6. \A y \in S : y <= x
  BY <1>0, <1>5
<1> QED BY <1>6

\* The smallest is what Min chooses.
LEMMA MinIsSmallest ==
  ASSUME NEW S \in SUBSET Nat, S # {}
  PROVE  Min(S) \in S /\ \A y \in S : Min(S) <= y
<1>1. \E x \in S : \A y \in S : x <= y
  BY HasSmallest
<1> QED BY <1>1 DEF Min

\* The largest is what Max chooses.
LEMMA MaxIsLargest ==
  ASSUME NEW S \in SUBSET Nat, NEW x \in S, \A y \in S : y <= x
  PROVE  Max(S) = x
<1>1. \E z \in S : \A y \in S : z >= y
  OBVIOUS
<1>2. Max(S) \in S /\ \A y \in S : Max(S) >= y
  BY <1>1 DEF Max
<1>3. Max(S) \in Nat /\ x \in Nat /\ Max(S) >= x /\ Max(S) <= x
  BY <1>2
<1> QED BY <1>3
-----------------------------------------------------------------------------
(* The newest of a set of replies.                                         *)

Above(ids, m) == {n \in ids : n > m}

\* Replies are finitely many.
LEMMA RepliesFinite ==
  ASSUME NEW ids \in SUBSET Replies
  PROVE  /\ IsFiniteSet(ids) /\ Cardinality(ids) \in Nat /\ ids \in SUBSET Nat
         /\ \A sub \in SUBSET ids : IsFiniteSet(sub) /\ Cardinality(sub) \in Nat
                                    /\ Cardinality(sub) <= Cardinality(ids)
<1>1. MaxReplies \in Nat /\ IsFiniteSet(1..MaxReplies)
  BY TitleBounds, FS_Interval
<1>2. IsFiniteSet(ids)
  BY <1>1, FS_Subset DEF Replies
<1>3. \A sub \in SUBSET ids : IsFiniteSet(sub) /\ Cardinality(sub) <= Cardinality(ids)
  BY <1>2, FS_Subset
<1> QED BY <1>1, <1>2, <1>3, FS_CardinalityType DEF Replies

\* What is not among the newest is older than all of them.
LEMMA NewestAbove ==
  ASSUME NEW ids \in SUBSET Replies, NEW count \in Nat, NEW m \in ids \ Newest(ids, count)
  PROVE  \A p \in Newest(ids, count) : p > m
<1> SUFFICES ASSUME NEW p \in Newest(ids, count), ~(p > m) PROVE FALSE
  OBVIOUS
<1>1. p \in Nat /\ m \in Nat /\ p \in ids
  BY DEF Newest, Replies
<1>2. Above(ids, m) \subseteq Above(ids, p)
  <2> SUFFICES ASSUME NEW n \in ids, n > m PROVE n > p
    BY DEF Above
  <2>1. n \in Nat
    BY RepliesFinite
  <2> QED BY <1>1, <2>1
<1>3. Cardinality(Above(ids, p)) < count /\ ~(Cardinality(Above(ids, m)) < count)
  BY DEF Above, Newest
<1>4. Above(ids, p) \in SUBSET Replies
  BY DEF Above
<1>5. /\ Cardinality(Above(ids, m)) <= Cardinality(Above(ids, p))
      /\ Cardinality(Above(ids, m)) \in Nat /\ Cardinality(Above(ids, p)) \in Nat
  BY <1>2, <1>4, RepliesFinite
<1> QED BY <1>3, <1>5

\* They are as many as asked for, or all.
LEMMA NewestCount ==
  ASSUME NEW count \in Nat, NEW ids \in SUBSET Replies
  PROVE  Cardinality(Newest(ids, count)) =
           IF Cardinality(ids) < count THEN Cardinality(ids) ELSE count
<1> DEFINE Right(c, U) == Cardinality(Newest(U, c)) = IF Cardinality(U) < c THEN Cardinality(U) ELSE c
           Wrong == {c \in Nat : \E U \in SUBSET Replies : ~Right(c, U)}
<1> SUFFICES ASSUME Wrong # {} PROVE FALSE
  OBVIOUS
<1>1. PICK c \in Wrong : \A d \in Wrong : c <= d
  <2>1. Wrong \in SUBSET Nat
    OBVIOUS
  <2> HIDE DEF Wrong
  <2> QED BY <2>1, HasSmallest
<1>2. PICK U \in SUBSET Replies : ~Right(c, U)
  BY <1>1
<1>3. c \in Nat /\ Cardinality(U) \in Nat
  BY <1>1, RepliesFinite
<1>4. CASE c = 0
  <2>1. Newest(U, 0) = {}
    <3>1. \A m \in U : Above(U, m) \in SUBSET U
      BY DEF Above
    <3>2. \A m \in U : ~(Cardinality(Above(U, m)) < 0)
      BY <3>1, RepliesFinite
    <3> QED BY <3>2 DEF Newest, Above
  <2> QED BY <1>2, <1>3, <1>4, <2>1, FS_EmptySet
<1>5. CASE c # 0
  <2>1. PICK d \in Nat : c = d + 1
    BY <1>3, <1>5
  <2>2. Right(d, U)
    <3>1. d \notin Wrong
      BY <1>1, <2>1
    <3> QED BY <3>1
  <2> HIDE DEF Wrong
  <2> DEFINE N == Newest(U, d)
  <2>3. N \subseteq U /\ IsFiniteSet(U) /\ IsFiniteSet(N)
    BY RepliesFinite DEF Newest
  <2>4. \A m \in U : Above(U, m) \in SUBSET U /\ Cardinality(Above(U, m)) \in Nat
    BY RepliesFinite DEF Above
  <2>5. N \subseteq Newest(U, c)
    BY <2>1, <2>4 DEF Newest, Above
  <2>6. CASE Cardinality(U) <= d
    <3>1. Cardinality(N) = Cardinality(U)
      BY <1>3, <2>2, <2>6
    <3>2. N = U
      BY <2>3, <3>1, FS_Subset
    <3>3. Newest(U, c) = U
      BY <2>5, <3>2 DEF Newest
    <3> QED BY <1>2, <1>3, <2>1, <2>6, <3>3
  <2>7. CASE Cardinality(U) > d
    <3>1. Cardinality(N) = d /\ N # U
      BY <1>3, <2>2, <2>7
    <3>2. PICK x \in U \ N : \A y \in U \ N : y <= x
      <4> HIDE DEF N
      <4>0. MaxReplies \in Nat
        BY TitleBounds
      <4>1. U \ N \in SUBSET (0..MaxReplies) /\ U \ N # {}
        <5>1. \A n \in Replies : n \in 0..MaxReplies
          BY <4>0 DEF Replies
        <5>2. U \ N # {}
          BY <2>3, <3>1
        <5> QED BY <5>1, <5>2
      <4> QED BY <4>0, <4>1, HasLargest
    <3>3. \A p \in N : p > x
      BY <3>2, NewestAbove
    <3>4. Above(U, x) = N
      <4>1. \A p \in U : p \in Nat
        BY RepliesFinite
      <4> HIDE DEF N
      <4> QED BY <2>3, <3>2, <3>3, <4>1 DEF Above
    <3>5. x \in Newest(U, c)
      <4>1. Cardinality(Above(U, x)) = d
        BY <3>1, <3>4
      <4>2. Cardinality(Above(U, x)) < c
        BY <2>1, <4>1
      <4> HIDE DEF N
      <4> QED BY <3>2, <4>2 DEF Newest, Above
    <3>6. ASSUME NEW y \in U \ N, y # x PROVE y \notin Newest(U, c)
      <4>1. y < x /\ x \notin N
        BY <3>2, <3>6, RepliesFinite
      <4>2. N \cup {x} \subseteq Above(U, y)
        <5>1. \A p \in U : p \in Nat
          BY RepliesFinite
        <5> HIDE DEF N
        <5> QED BY <2>3, <3>2, <3>3, <3>6, <4>1, <5>1 DEF Above
      <4>3. Cardinality(N \cup {x}) = d + 1
        BY <2>3, <3>1, <4>1, FS_AddElement
      <4>4. Above(U, y) \in SUBSET Replies
        BY DEF Above
      <4>5. Cardinality(N \cup {x}) <= Cardinality(Above(U, y)) /\ Cardinality(Above(U, y)) \in Nat
        BY <4>2, <4>4, RepliesFinite
      <4> QED BY <2>1, <4>3, <4>5 DEF Newest, Above
    <3>7. Newest(U, c) = N \cup {x}
      <4>1. Newest(U, c) \subseteq U
        BY DEF Newest
      <4> HIDE DEF N
      <4> QED BY <2>3, <2>5, <3>2, <3>5, <3>6, <4>1
    <3>8. Cardinality(Newest(U, c)) = d + 1
      <4> HIDE DEF N
      <4> QED BY <2>3, <3>1, <3>2, <3>7, FS_AddElement
    <3> QED BY <1>2, <1>3, <2>1, <2>7, <3>8
  <2> QED BY <1>3, <2>6, <2>7
<1> QED BY <1>4, <1>5

-----------------------------------------------------------------------------
(* The inductive invariant.                                                *)

ActiveStatus == {"QUEUED", "RUNNING", "CANCEL_REQUESTED"}

\* A complete reply of the session that is stored, which it stays.
WholeReply(m, s) ==
  m \in Replies /\ replies[m].session = s /\ replies[m].state = "stored" /\ replies[m].whole

\* The phases in which a tick holds the lock of its session.
Holding == {"read", "write", "enqueue", "unlock"}

\* Between its reads and the end of its claim a tick has the session for itself: no job of
\* it is active, and the claimed reply is newer than the reply of any job.
WorkerInv(w) ==
  /\ workers[w].phase \in {"down", "unused"} => workers[w].pc = "idle"
  /\ workers[w].pc = "lock" => workers[w].todo # {}
  /\ workers[w].pc \in Holding => workers[w].session \in Sessions /\ lock[workers[w].session] = w
  /\ workers[w].pc \in {"write", "enqueue"} =>
       /\ WholeReply(workers[w].reply, workers[w].session)
       /\ \A k \in Jobs : jobs[k].session = workers[w].session => jobs[k].status \notin ActiveStatus
  /\ workers[w].pc = "enqueue" =>
       /\ sessions[workers[w].session].attempted = workers[w].reply
       /\ \A k \in Jobs : jobs[k].session = workers[w].session => jobs[k].reply < workers[w].reply

LockInv(s) ==
  lock[s] # NoWorker => workers[lock[s]].pc \in Holding /\ workers[lock[s]].session = s

\* A session begins without replies; the mark of a placeholder is its newest whole reply.
SessionInv(s) ==
  /\ sessions[s].source = "absent" =>
       sessions[s].eligible = 0 /\ \A m \in Replies : replies[m].session # s
  /\ sessions[s].eligible # 0 => WholeReply(sessions[s].eligible, s)
  /\ sessions[s].source = "PLACEHOLDER" =>
       \A m \in Replies : WholeReply(m, s) => m <= sessions[s].eligible

\* The title of a session is of the job that says so, and there is none before.
TitleInv(s) ==
  /\ sessions[s].source \in {"absent", "PLACEHOLDER"} => applied[s] = 0
  /\ applied[s] # 0 => jobs[applied[s]].session = s /\ jobs[applied[s]].outcome = "APPLIED"

ClaimInv(s) ==
  LET m == sessions[s].attempted IN
  \/ m = 0 \/ faults > 0
  \/ \E k \in Jobs : jobs[k].session = s /\ jobs[k].reply = m
  \/ \E w \in Workers : lock[s] = w /\ workers[w].pc = "enqueue" /\ workers[w].reply = m

\* The pages read so far: nothing that was known when the run began is missing down to
\* the last row read.
CollectInv(k) ==
  /\ Cardinality(jobs[k].pairs) < MaxExchanges
  /\ jobs[k].before <= MaxReplies => jobs[k].reply \in jobs[k].pairs
  /\ \A p \in jobs[k].pairs : jobs[k].before <= p /\ p <= jobs[k].reply
  /\ \A m \in jobs[k].known \cap Stored(jobs[k].session) : jobs[k].before <= m => m \in jobs[k].pairs

ReadInv(k) ==
  /\ Cardinality(jobs[k].pairs) <= MaxExchanges /\ jobs[k].reply \in jobs[k].pairs
  /\ \A m \in (jobs[k].known \cap Stored(jobs[k].session)) \ jobs[k].pairs :
       Cardinality({p \in jobs[k].pairs : p > m}) = MaxExchanges

\* The phases of a run before it reads.
Unread == {"waiting", "checkpoint", "find"}

JobInv(k) ==
  /\ jobs[k].status = "NONE" => jobs[k].session = 0 /\ jobs[k].pc = "waiting" /\ jobs[k].outcome = "none"
                                /\ jobs[k].worker = NoWorker /\ jobs[k].reply = 0
  /\ jobs[k].status # "NONE" =>
       /\ jobs[k].session \in Sessions /\ WholeReply(jobs[k].reply, jobs[k].session)
       /\ jobs[k].reply <= sessions[jobs[k].session].attempted
  /\ jobs[k].pc \in Unread => jobs[k].pairs = {} /\ jobs[k].known = {} /\ jobs[k].before = MaxReplies + 1
  /\ jobs[k].pc \notin {"finish", "over"} => jobs[k].outcome = "none"
  /\ jobs[k].outcome = "APPLIED" => applied[jobs[k].session] = k
  /\ \A m \in jobs[k].known : WholeReply(m, jobs[k].session) /\ m <= jobs[k].reply
  /\ jobs[k].pc = "collect" => CollectInv(k)
  /\ jobs[k].pc \in {"complete", "verify", "apply"} => ReadInv(k)

\* Jobs are created in order, for newer and newer replies, one at a time.
JobsInv ==
  \A k, l \in Jobs :
    /\ k < l /\ jobs[l].status # "NONE" =>
         /\ jobs[k].status # "NONE"
         /\ jobs[k].session = jobs[l].session => jobs[k].reply < jobs[l].reply
    /\ jobs[k].session = jobs[l].session /\ jobs[k].status \in ActiveStatus
       /\ jobs[l].status \in ActiveStatus => k = l

TitlesInv ==
  /\ TypeOK
  /\ \A w \in Workers : WorkerInv(w)
  /\ \A s \in Sessions : LockInv(s) /\ SessionInv(s) /\ TitleInv(s) /\ ClaimInv(s)
  /\ \A k \in Jobs : JobInv(k)
  /\ JobsInv

-----------------------------------------------------------------------------
(* What the parts of the invariant depend on.                              *)

RepliesGrow == \A m, s : WholeReply(m, s) => WholeReply(m, s)'

\* A session that is over stays so.
LiveShrinks == \A s \in Sessions : sessions[s].source # "absent" /\ Live(s)' => Live(s)

\* Jobs go on, none is new.
JobsMove ==
  \A k \in Jobs :
    /\ jobs'[k].session = jobs[k].session /\ jobs'[k].reply = jobs[k].reply
    /\ jobs'[k].status = "NONE" <=> jobs[k].status = "NONE"
    /\ jobs'[k].status \in ActiveStatus => jobs[k].status \in ActiveStatus
    /\ jobs[k].outcome = "APPLIED" => jobs'[k].outcome = "APPLIED"

\* What a tick that holds the session relies on.
Undisturbed(s) ==
  /\ lock'[s] = lock[s] /\ sessions'[s].attempted = sessions[s].attempted
  /\ \A k \in Jobs : jobs'[k].session = s =>
       /\ jobs[k].session = s /\ jobs'[k].reply = jobs[k].reply
       /\ jobs'[k].status \in ActiveStatus => jobs[k].status \in ActiveStatus

\* A worker that does not move.
LEMMA WorkerKept ==
  ASSUME TitlesInv, RepliesGrow, NEW w \in Workers, workers'[w] = workers[w],
         workers[w].pc \in Holding => Undisturbed(workers[w].session)
  PROVE  WorkerInv(w)'
<1>1. WorkerInv(w)
  BY DEF TitlesInv
<1>2. PICK row : row = workers[w] /\ row = workers'[w]
  OBVIOUS
<1>3. ASSUME row.pc \in Holding
      PROVE  /\ row.session \in Sessions /\ lock'[row.session] = w
             /\ row.pc \in {"write", "enqueue"} =>
                  /\ WholeReply(row.reply, row.session)'
                  /\ \A k \in Jobs : jobs'[k].session = row.session => jobs'[k].status \notin ActiveStatus
             /\ row.pc = "enqueue" =>
                  /\ sessions'[row.session].attempted = row.reply
                  /\ \A k \in Jobs : jobs'[k].session = row.session => jobs'[k].reply < row.reply
  <2>1. Undisturbed(row.session)
    BY <1>2, <1>3
  <2>2. row.session \in Sessions /\ lock'[row.session] = w
    BY <1>1, <1>2, <1>3, <2>1 DEF WorkerInv, Undisturbed
  <2>3. ASSUME row.pc \in {"write", "enqueue"}
        PROVE  /\ WholeReply(row.reply, row.session)'
               /\ \A k \in Jobs : jobs'[k].session = row.session => jobs'[k].status \notin ActiveStatus
    BY <1>1, <1>2, <2>1, <2>3 DEF WorkerInv, Undisturbed, RepliesGrow
  <2>4. ASSUME row.pc = "enqueue"
        PROVE  /\ sessions'[row.session].attempted = row.reply
               /\ \A k \in Jobs : jobs'[k].session = row.session => jobs'[k].reply < row.reply
    BY <1>1, <1>2, <2>1, <2>4 DEF WorkerInv, Undisturbed
  <2> QED BY <2>2, <2>3, <2>4
<1> QED BY <1>1, <1>2, <1>3 DEF WorkerInv, Holding, WholeReply

\* Whoever holds a lock holds one.
LEMMA OneHolder ==
  ASSUME TitlesInv, NEW w \in Workers, NEW v \in Workers, w # v, workers[w].pc \in Holding,
         workers[v].pc \in Holding
  PROVE  workers[w].session # workers[v].session
BY DEF TitlesInv, WorkerInv

\* Jobs that go on keep their order.
LEMMA JobsKept ==
  ASSUME TitlesInv, JobsMove
  PROVE  JobsInv'
<1> SUFFICES ASSUME NEW k \in Jobs, NEW l \in Jobs
             PROVE  /\ k < l /\ jobs'[l].status # "NONE" =>
                         /\ jobs'[k].status # "NONE"
                         /\ jobs'[k].session = jobs'[l].session => jobs'[k].reply < jobs'[l].reply
                    /\ jobs'[k].session = jobs'[l].session /\ jobs'[k].status \in ActiveStatus
                       /\ jobs'[l].status \in ActiveStatus => k = l
  BY DEF JobsInv
<1>1. JobsInv
  BY DEF TitlesInv
<1> QED BY <1>1 DEF JobsMove, JobsInv

\* A claim that nobody takes back.
LEMMA ClaimKept ==
  ASSUME TitlesInv, NEW s \in Sessions, sessions'[s].attempted = sessions[s].attempted,
         faults' \in {faults, faults + 1},
         \A k \in Jobs : jobs[k].session = s /\ jobs[k].reply # 0 =>
           jobs'[k].session = s /\ jobs'[k].reply = jobs[k].reply,
         \A w \in Workers : lock[s] = w /\ workers[w].pc = "enqueue" =>
           \/ lock'[s] = w /\ workers'[w].pc = "enqueue" /\ workers'[w].reply = workers[w].reply
           \/ faults' > 0
  PROVE  ClaimInv(s)'
<1>1. ClaimInv(s) /\ faults \in Nat
  BY DEF TitlesInv, TypeOK
<1>2. PICK m : m = sessions[s].attempted /\ m = sessions'[s].attempted
  OBVIOUS
<1>3. CASE faults > 0
  <2>1. faults' > 0
    BY <1>1, <1>3
  <2> QED BY <2>1 DEF ClaimInv
<1>4. CASE m # 0 /\ \E k \in Jobs : jobs[k].session = s /\ jobs[k].reply = m
  BY <1>2, <1>4 DEF ClaimInv
<1>5. CASE \E w \in Workers : lock[s] = w /\ workers[w].pc = "enqueue" /\ workers[w].reply = m
  BY <1>2, <1>5 DEF ClaimInv
<1>6. CASE m = 0
  BY <1>2, <1>6 DEF ClaimInv
<1> QED BY <1>1, <1>2, <1>3, <1>4, <1>5, <1>6 DEF ClaimInv

\* A session whose row and replies are left alone.
LEMMA SessionKept ==
  ASSUME TitlesInv, NEW s \in Sessions, sessions'[s].source = sessions[s].source,
         sessions'[s].eligible = sessions[s].eligible, UNCHANGED replies
  PROVE  SessionInv(s)'
<1>1. SessionInv(s)
  BY DEF TitlesInv
<1>2. \A m : WholeReply(m, s)' <=> WholeReply(m, s)
  BY DEF WholeReply
<1>3. PICK e : e = sessions[s].eligible /\ e = sessions'[s].eligible
  OBVIOUS
<1>4. e # 0 => WholeReply(e, s)'
  BY <1>1, <1>2, <1>3 DEF SessionInv
<1> QED BY <1>1, <1>2, <1>3, <1>4 DEF SessionInv, WholeReply

\* A title is not taken back.
LEMMA TitleKept ==
  ASSUME TitlesInv, NEW s \in Sessions, applied'[s] = applied[s],
         sessions'[s].source \in {"absent", "PLACEHOLDER"} =>
           sessions[s].source \in {"absent", "PLACEHOLDER"},
         \A k \in Jobs : jobs[k].outcome = "APPLIED" =>
           jobs'[k].session = jobs[k].session /\ jobs'[k].outcome = "APPLIED"
  PROVE  TitleInv(s)'
<1>1. TitleInv(s) /\ applied[s] \in Jobs \cup {0}
  BY DEF TitlesInv, TypeOK
<1> QED BY <1>1 DEF TitleInv

\* What a run knew is still there as far as its session is.
LEMMA KnownKept ==
  ASSUME TitlesInv, RepliesGrow, LiveShrinks, NEW k \in Jobs,
         NEW m \in jobs[k].known, m \in Stored(jobs[k].session)'
  PROVE  m \in Stored(jobs[k].session) \/ jobs'[k].session # jobs[k].session
<1> SUFFICES ASSUME jobs'[k].session = jobs[k].session
             PROVE  m \in Stored(jobs[k].session)
  OBVIOUS
<1>1. PICK s : s = jobs[k].session /\ s = jobs'[k].session
  OBVIOUS
<1>2. WholeReply(m, s)
  BY <1>1 DEF TitlesInv, JobInv
<1>3. Live(s)'
  BY <1>1 DEF Stored, Live
<1>4. s \in Sessions /\ sessions[s].source # "absent"
  <2>1. s \in Sessions
    <3>1. jobs[k].known # {}
      OBVIOUS
    <3>2. jobs[k].session \in Sessions \cup {0}
      BY DEF TitlesInv, TypeOK, Job
    <3>3. jobs[k].status # "NONE" \/ jobs[k].pc = "waiting"
      BY DEF TitlesInv, JobInv
    <3> QED BY <1>1, <3>1, <3>2, <3>3 DEF TitlesInv, JobInv, Unread
  <2> QED BY <1>2, <2>1 DEF TitlesInv, SessionInv, WholeReply
<1>5. Live(s)
  BY <1>3, <1>4 DEF LiveShrinks
<1> QED BY <1>1, <1>2, <1>5 DEF Stored, WholeReply

\* A job that goes on with what it has read.
LEMMA JobKept ==
  ASSUME TitlesInv, RepliesGrow, LiveShrinks, NEW k \in Jobs, NEW row \in Job, jobs'[k] = row,
         row.session = jobs[k].session, row.reply = jobs[k].reply,
         row.status = "NONE" <=> jobs[k].status = "NONE",
         row.status = "NONE" => row = jobs[k],
         sessions' \in [Sessions -> SessionRow],
         jobs[k].status # "NONE" =>
           sessions'[jobs[k].session].attempted >= sessions[jobs[k].session].attempted,
         \/ row.pairs = jobs[k].pairs /\ row.known = jobs[k].known /\ row.before = jobs[k].before
         \/ row.pc = "over" /\ row.known = {},
         row.pc \in Unread => jobs[k].pc \in Unread,
         row.pc = "collect" => jobs[k].pc = "collect",
         row.pc \in {"complete", "verify", "apply"} => jobs[k].pc \in {"complete", "verify", "apply"},
         row.pc \notin {"finish", "over"} => row.outcome = "none",
         row.outcome = "APPLIED" => applied'[row.session] = k
  PROVE  JobInv(k)'
<1>0. PICK old : old = jobs[k]
  OBVIOUS
<1>1. JobInv(k) /\ old \in Job
  BY <1>0 DEF TitlesInv, TypeOK
<1>2. row.status = "NONE" => row.session = 0 /\ row.pc = "waiting" /\ row.outcome = "none"
                              /\ row.worker = NoWorker /\ row.reply = 0
  BY <1>1 DEF JobInv
<1>3. ASSUME row.status # "NONE"
      PROVE  /\ row.session \in Sessions /\ WholeReply(row.reply, row.session)'
             /\ row.reply <= sessions'[row.session].attempted
  <2>1. /\ old.session \in Sessions /\ WholeReply(old.reply, old.session)
        /\ old.reply <= sessions[old.session].attempted /\ old.status # "NONE"
    BY <1>0, <1>1, <1>3 DEF JobInv
  <2>2. sessions'[old.session].attempted >= sessions[old.session].attempted
    BY <1>0, <2>1
  <2>3. WholeReply(old.reply, old.session)'
    BY <2>1 DEF RepliesGrow
  <2>4. /\ old.reply \in Nat /\ sessions[old.session].attempted \in Nat
        /\ sessions'[old.session].attempted \in Nat
    BY <2>1 DEF WholeReply, Replies, TitlesInv, TypeOK, SessionRow
  <2> QED BY <1>0, <2>1, <2>2, <2>3, <2>4
<1>4. row.pc \in Unread => row.pairs = {} /\ row.known = {} /\ row.before = MaxReplies + 1
  BY <1>1 DEF JobInv, Unread
<1>5. \A m \in row.known : WholeReply(m, row.session)' /\ m <= row.reply
  <2> SUFFICES ASSUME NEW m \in row.known PROVE WholeReply(m, row.session)' /\ m <= row.reply
    OBVIOUS
  <2>1. m \in old.known /\ row.session = old.session /\ row.reply = old.reply
    BY <1>0
  <2>2. WholeReply(m, old.session) /\ m <= old.reply
    BY <1>0, <1>1, <2>1 DEF JobInv
  <2> QED BY <2>1, <2>2 DEF RepliesGrow
<1>6. \A m \in row.known : m \in Stored(row.session)' => m \in Stored(row.session)
  <2> SUFFICES ASSUME NEW m \in row.known, m \in Stored(row.session)' PROVE m \in Stored(row.session)
    OBVIOUS
  <2>1. m \in jobs[k].known /\ m \in Stored(jobs[k].session)'
    <3>1. jobs'[k].session = row.session
      OBVIOUS
    <3> QED BY <3>1 DEF Stored, Live
  <2>2. m \in Stored(jobs[k].session)
    BY <2>1, KnownKept
  <2> QED BY <2>2
<1>7. ASSUME row.pc = "collect" PROVE CollectInv(k)'
  <2>1. /\ old.pc = "collect" /\ row.pairs = old.pairs /\ row.known = old.known
        /\ row.before = old.before /\ row.session = old.session /\ row.reply = old.reply
    BY <1>0, <1>7
  <2>2. CollectInv(k)
    BY <1>0, <1>1, <2>1 DEF JobInv
  <2>3. /\ Cardinality(row.pairs) < MaxExchanges
        /\ row.before <= MaxReplies => row.reply \in row.pairs
        /\ \A p \in row.pairs : row.before <= p /\ p <= row.reply
        /\ \A m \in row.known \cap Stored(row.session) : row.before <= m => m \in row.pairs
    BY <1>0, <2>1, <2>2 DEF CollectInv
  <2>4. \A m \in row.known \cap Stored(row.session)' : row.before <= m => m \in row.pairs
    BY <1>6, <2>3
  <2> QED BY <2>3, <2>4 DEF CollectInv, Stored, Live
<1>8. ASSUME row.pc \in {"complete", "verify", "apply"} PROVE ReadInv(k)'
  <2>1. /\ old.pc \in {"complete", "verify", "apply"} /\ row.pairs = old.pairs
        /\ row.known = old.known /\ row.session = old.session /\ row.reply = old.reply
    BY <1>0, <1>8
  <2>2. ReadInv(k)
    BY <1>0, <1>1, <2>1 DEF JobInv
  <2>3. /\ Cardinality(row.pairs) <= MaxExchanges /\ row.reply \in row.pairs
        /\ \A m \in (row.known \cap Stored(row.session)) \ row.pairs :
             Cardinality({p \in row.pairs : p > m}) = MaxExchanges
    BY <1>0, <2>1, <2>2 DEF ReadInv
  <2>4. \A m \in (row.known \cap Stored(row.session)') \ row.pairs :
          Cardinality({p \in row.pairs : p > m}) = MaxExchanges
    BY <1>6, <2>3
  <2> QED BY <2>3, <2>4 DEF ReadInv, Stored, Live
<1> QED BY <1>2, <1>3, <1>4, <1>5, <1>7, <1>8 DEF JobInv, WholeReply

-----------------------------------------------------------------------------
(* Steps put together from what they leave alone.                          *)

\* Steps that touch no session: ticks, processes and most of what jobs do.
LEMMA SessionsLeftAlone ==
  ASSUME TitlesInv, TypeOK', UNCHANGED <<sessions, replies, applied>>, JobsMove,
         \A w \in Workers : WorkerInv(w)', \A s \in Sessions : LockInv(s)' /\ ClaimInv(s)',
         \A k \in Jobs : JobInv(k)'
  PROVE  TitlesInv'
<1>1. \A s \in Sessions : SessionInv(s)'
  BY SessionKept
<1>2. \A s \in Sessions : TitleInv(s)'
  <2> SUFFICES ASSUME NEW s \in Sessions PROVE TitleInv(s)'
    OBVIOUS
  <2>1. \A k \in Jobs : jobs[k].outcome = "APPLIED" =>
           jobs'[k].session = jobs[k].session /\ jobs'[k].outcome = "APPLIED"
    BY DEF JobsMove
  <2> QED BY <2>1, TitleKept
<1>3. JobsInv'
  BY JobsKept
<1> QED BY <1>1, <1>2, <1>3 DEF TitlesInv

\* Steps of the sessions and of their replies.
LEMMA JobsLeftAlone ==
  ASSUME TitlesInv, TypeOK', UNCHANGED <<workers, lock, jobs, applied>>, RepliesGrow, LiveShrinks,
         faults' \in {faults, faults + 1},
         \A s \in Sessions :
           /\ sessions'[s].attempted = sessions[s].attempted
           /\ sessions'[s].source \in {"absent", "PLACEHOLDER"} =>
                sessions[s].source \in {"absent", "PLACEHOLDER"}
           /\ SessionInv(s)'
  PROVE  TitlesInv'
<1>1. ASSUME NEW w \in Workers PROVE WorkerInv(w)'
  <2>1. workers[w].pc \in Holding => Undisturbed(workers[w].session)
    BY DEF TitlesInv, WorkerInv, Undisturbed
  <2> QED BY <2>1, WorkerKept
<1>2. \A s \in Sessions : LockInv(s)'
  BY DEF TitlesInv, LockInv
<1>3. \A s \in Sessions : TitleInv(s)'
  BY TitleKept
<1>4. \A s \in Sessions : ClaimInv(s)'
  BY ClaimKept
<1>5. ASSUME NEW k \in Jobs PROVE JobInv(k)'
  <2>1. PICK row : row = jobs[k]
    OBVIOUS
  <2>2. row \in Job /\ JobInv(k) /\ sessions' \in [Sessions -> SessionRow]
    BY <2>1 DEF TitlesInv, TypeOK
  <2>3. row.status # "NONE" => row.session \in Sessions
    BY <2>1, <2>2 DEF JobInv
  <2>4. row.status # "NONE" => sessions'[row.session].attempted >= sessions[row.session].attempted
    <3> SUFFICES ASSUME row.status # "NONE"
                 PROVE  sessions'[row.session].attempted >= sessions[row.session].attempted
      OBVIOUS
    <3>1. sessions'[row.session].attempted \in Nat
      BY <2>2, <2>3 DEF SessionRow, Replies
    <3> QED BY <2>3, <3>1
  <2>5. row.pc \notin {"finish", "over"} => row.outcome = "none"
    BY <2>1, <2>2 DEF JobInv
  <2>6. row.outcome = "APPLIED" => applied'[row.session] = k
    BY <2>1, <2>2 DEF JobInv
  <2> QED BY <2>1, <2>2, <2>4, <2>5, <2>6, JobKept
<1>6. JobsInv'
  BY JobsKept DEF JobsMove
<1> QED BY <1>1, <1>2, <1>3, <1>4, <1>5, <1>6 DEF TitlesInv

\* Steps of one job that does not touch its session.
LEMMA OneJobGoesOn ==
  ASSUME TitlesInv, TypeOK', UNCHANGED <<sessions, replies, workers, lock, applied>>,
         faults' \in {faults, faults + 1}, JobsMove,
         NEW k \in Jobs, \A l \in Jobs \ {k} : jobs'[l] = jobs[l], JobInv(k)'
  PROVE  TitlesInv'
<1>1. ASSUME NEW w \in Workers PROVE WorkerInv(w)'
  <2>1. workers[w].pc \in Holding => Undisturbed(workers[w].session)
    BY DEF TitlesInv, WorkerInv, Undisturbed, JobsMove
  <2> QED BY <2>1, WorkerKept DEF RepliesGrow, WholeReply
<1>2. \A s \in Sessions : LockInv(s)'
  BY DEF TitlesInv, LockInv
<1>3. ASSUME NEW s \in Sessions PROVE ClaimInv(s)'
  <2>1. \A l \in Jobs : jobs[l].session = s /\ jobs[l].reply # 0 =>
           jobs'[l].session = s /\ jobs'[l].reply = jobs[l].reply
    BY DEF JobsMove
  <2> QED BY <2>1, ClaimKept
<1>4. ASSUME NEW l \in Jobs, l # k PROVE JobInv(l)'
  <2>1. JobInv(l) /\ jobs'[l] = jobs[l]
    BY <1>4 DEF TitlesInv
  <2> QED BY <2>1 DEF JobInv, CollectInv, ReadInv, Stored, Live, WholeReply
<1> QED BY <1>1, <1>2, <1>3, <1>4, SessionsLeftAlone

-----------------------------------------------------------------------------
(* Types.                                                                  *)

\* What is left of a run that is over.
LEMMA OverRow ==
  ASSUME NEW job \in Job
  PROVE  Over(job) = [status |-> job.status, session |-> job.session, reply |-> job.reply,
                      pc |-> "over", worker |-> NoWorker, aborted |-> FALSE, pairs |-> {},
                      known |-> {}, before |-> MaxReplies + 1, outcome |-> job.outcome]
<1>1. PICK a : a = [NoJob EXCEPT !.status = job.status]
  OBVIOUS
<1>2. PICK b : b = [a EXCEPT !.session = job.session]
  OBVIOUS
<1>3. PICK c : c = [b EXCEPT !.reply = job.reply]
  OBVIOUS
<1>4. PICK d : d = [c EXCEPT !.pc = "over"]
  OBVIOUS
<1>5. Over(job) = [d EXCEPT !.outcome = job.outcome]
  BY <1>1, <1>2, <1>3, <1>4 DEF Over
<1>6. a = [status |-> job.status, session |-> 0, reply |-> 0, pc |-> "waiting",
           worker |-> NoWorker, aborted |-> FALSE, pairs |-> {}, known |-> {},
           before |-> MaxReplies + 1, outcome |-> "none"]
  BY <1>1 DEF NoJob
<1>7. b = [status |-> job.status, session |-> job.session, reply |-> 0, pc |-> "waiting",
           worker |-> NoWorker, aborted |-> FALSE, pairs |-> {}, known |-> {},
           before |-> MaxReplies + 1, outcome |-> "none"]
  BY <1>2, <1>6
<1>8. c = [status |-> job.status, session |-> job.session, reply |-> job.reply, pc |-> "waiting",
           worker |-> NoWorker, aborted |-> FALSE, pairs |-> {}, known |-> {},
           before |-> MaxReplies + 1, outcome |-> "none"]
  BY <1>3, <1>7
<1>9. d = [status |-> job.status, session |-> job.session, reply |-> job.reply, pc |-> "over",
           worker |-> NoWorker, aborted |-> FALSE, pairs |-> {}, known |-> {},
           before |-> MaxReplies + 1, outcome |-> "none"]
  BY <1>4, <1>8
<1> QED BY <1>5, <1>9

\* The rows of jobs that are created, over or ended.
LEMMA JobRowTypes ==
  /\ NoJob \in Job
  /\ \A job \in Job : Over(job) \in Job
  /\ \A job \in Job, status \in {"FAILED", "SUCCEEDED"} : Ended(job, status) \in Job
<1>1. MaxReplies \in Nat
  BY TitleBounds
<1>2. NoJob \in Job
  BY <1>1 DEF NoJob, Job, HandlerPcs, Outcomes, JobStatus
<1>3. \A job \in Job : Over(job) \in Job
  <2> SUFFICES ASSUME NEW job \in Job PROVE Over(job) \in Job
    OBVIOUS
  <2>1. MaxReplies + 1 \in 0..(MaxReplies + 1)
    BY <1>1
  <2>2. PICK row : row = Over(job)
    OBVIOUS
  <2>3. row = [status |-> job.status, session |-> job.session, reply |-> job.reply,
               pc |-> "over", worker |-> NoWorker, aborted |-> FALSE, pairs |-> {},
               known |-> {}, before |-> MaxReplies + 1, outcome |-> job.outcome]
    BY <2>2, OverRow
  <2>4. /\ job.status \in JobStatus \cup {"NONE"} /\ job.session \in Sessions \cup {0}
        /\ job.reply \in Replies \cup {0} /\ job.outcome \in Outcomes
    BY DEF Job
  <2>5. row \in Job
    BY <2>1, <2>3, <2>4 DEF Job, HandlerPcs
  <2> QED BY <2>2, <2>5
<1>4. ASSUME NEW job \in Job, NEW status \in {"FAILED", "SUCCEEDED"} PROVE Ended(job, status) \in Job
  <2>1. PICK row : row = Over(job)
    OBVIOUS
  <2>2. row \in Job
    BY <1>3, <2>1
  <2>3. \A st \in JobStatus : [row EXCEPT !.status = st] \in Job
    BY <2>2 DEF Job
  <2>4. row.status \in JobStatus \cup {"NONE"}
    BY <2>2 DEF Job
  <2>5. {"CANCELLED", "FAILED", "SUCCEEDED"} \subseteq JobStatus
    BY DEF JobStatus, TERMINAL_JOB_STATUSES
  <2>6. CASE row.status = "CANCEL_REQUESTED"
    <3>1. Ended(job, status) = [row EXCEPT !.status = "CANCELLED"]
      BY <2>1, <2>6 DEF Ended
    <3> QED BY <2>3, <2>5, <3>1
  <2>7. CASE row.status = "RUNNING"
    <3>1. Ended(job, status) = [row EXCEPT !.status = status]
      BY <2>1, <2>7 DEF Ended
    <3> QED BY <2>3, <2>5, <3>1
  <2>8. CASE row.status \notin {"CANCEL_REQUESTED", "RUNNING"}
    <3>1. Ended(job, status) = [row EXCEPT !.status = row.status]
      BY <2>1, <2>8 DEF Ended
    <3>2. [row EXCEPT !.status = row.status] = row
      BY <2>2 DEF Job
    <3> QED BY <2>2, <3>1, <3>2
  <2> QED BY <2>6, <2>7, <2>8
<1> QED BY <1>2, <1>3, <1>4

\* One row of the table of jobs is written.
LEMMA JobWritten ==
  ASSUME TypeOK, NEW k \in Jobs, NEW row \in Job, jobs' = [jobs EXCEPT ![k] = row]
  PROVE  jobs' \in [Jobs -> Job] /\ jobs'[k] = row /\ \A l \in Jobs \ {k} : jobs'[l] = jobs[l]
BY DEF TypeOK

\* Where a run goes next.
LEMMA JobStepTypes ==
  ASSUME NEW job \in Job
  PROVE  /\ \A pc \in HandlerPcs : [job EXCEPT !.pc = pc] \in Job
         /\ \A o \in Outcomes : [job EXCEPT !.pc = "finish", !.outcome = o] \in Job
         /\ [job EXCEPT !.aborted = TRUE] \in Job
         /\ \A st \in JobStatus : [job EXCEPT !.status = st] \in Job
         /\ \A w \in Workers : [job EXCEPT !.worker = w, !.pc = "checkpoint", !.status = "RUNNING"] \in Job
         /\ \A ids \in SUBSET Replies : [job EXCEPT !.pc = "collect", !.known = ids] \in Job
         /\ \A ids \in SUBSET Replies : [job EXCEPT !.pc = "complete", !.pairs = ids] \in Job
         /\ \A ids \in SUBSET Replies, m \in 0..(MaxReplies + 1) :
              [job EXCEPT !.before = m, !.pairs = ids] \in Job
<1>1. "RUNNING" \in JobStatus
  BY DEF JobStatus
<1>2. /\ \A pc \in HandlerPcs : [job EXCEPT !.pc = pc] \in Job
      /\ \A o \in Outcomes : [job EXCEPT !.pc = "finish", !.outcome = o] \in Job
      /\ [job EXCEPT !.aborted = TRUE] \in Job
      /\ \A st \in JobStatus : [job EXCEPT !.status = st] \in Job
  BY DEF Job, HandlerPcs
<1>3. \A w \in Workers : [job EXCEPT !.worker = w, !.pc = "checkpoint", !.status = "RUNNING"] \in Job
  BY <1>1 DEF Job, HandlerPcs
<1>4. /\ \A ids \in SUBSET Replies : [job EXCEPT !.pc = "collect", !.known = ids] \in Job
      /\ \A ids \in SUBSET Replies : [job EXCEPT !.pc = "complete", !.pairs = ids] \in Job
  BY DEF Job, HandlerPcs
<1>5. \A ids \in SUBSET Replies, m \in 0..(MaxReplies + 1) :
              [job EXCEPT !.before = m, !.pairs = ids] \in Job
  BY DEF Job
<1> QED BY <1>2, <1>3, <1>4, <1>5

\* Where a handler goes next, as one row that is written.
LEMMA ThenRow ==
  ASSUME TypeOK, NEW k \in Jobs, NEW pc \in HandlerPcs, Then(k, pc)
  PROVE  jobs' = [jobs EXCEPT ![k] = [jobs[k] EXCEPT !.pc = pc]]
BY DEF Then

LEMMA ReturnsRow ==
  ASSUME TypeOK, NEW k \in Jobs, NEW o \in Outcomes, Returns(k, o)
  PROVE  jobs' = [jobs EXCEPT ![k] = [jobs[k] EXCEPT !.pc = "finish", !.outcome = o]]
<1>1. jobs \in [Jobs -> Job]
  BY DEF TypeOK
<1>2. PICK mid : mid = [jobs EXCEPT ![k].pc = "finish"]
  OBVIOUS
<1>3. mid = [jobs EXCEPT ![k] = [jobs[k] EXCEPT !.pc = "finish"]] /\ DOMAIN mid = Jobs
  BY <1>1, <1>2
<1>4. jobs' = [mid EXCEPT ![k].outcome = o]
  BY <1>2 DEF Returns
<1>5. mid[k] = [jobs[k] EXCEPT !.pc = "finish"] /\ \A l \in Jobs \ {k} : mid[l] = jobs[l]
  BY <1>1, <1>3
<1>6. jobs' = [mid EXCEPT ![k] = [mid[k] EXCEPT !.outcome = o]]
  BY <1>4
<1>7. jobs'[k] = [jobs[k] EXCEPT !.pc = "finish", !.outcome = o]
  BY <1>3, <1>5, <1>6
<1> QED BY <1>1, <1>3, <1>5, <1>6, <1>7

\* The end of a run.
LEMMA EndedRow ==
  ASSUME NEW job \in Job, NEW status \in {"FAILED", "SUCCEEDED"},
         NEW row \in {Over(job), Ended(job, status)}
  PROVE  /\ row \in Job
         /\ row.session = job.session /\ row.reply = job.reply /\ row.outcome = job.outcome
         /\ row.pc = "over" /\ row.known = {} /\ row.worker = NoWorker
         /\ row.status = "NONE" <=> job.status = "NONE"
         /\ row.status \in ActiveStatus => job.status \in ActiveStatus
<1>1. PICK o : o = Over(job)
  OBVIOUS
<1>2. /\ o \in Job /\ o.status = job.status
      /\ o.session = job.session /\ o.reply = job.reply /\ o.outcome = job.outcome
      /\ o.pc = "over" /\ o.known = {} /\ o.worker = NoWorker
  BY <1>1, OverRow, JobRowTypes
<1>3. CASE row = o
  BY <1>2, <1>3
<1>4. CASE row # o
  <2>1. row = Ended(job, status) /\ row \in Job
    BY <1>1, <1>4, JobRowTypes
  <2>2. PICK st : st = IF o.status = "CANCEL_REQUESTED" THEN "CANCELLED"
                       ELSE IF o.status = "RUNNING" THEN status ELSE o.status
    OBVIOUS
  <2>3. row = [o EXCEPT !.status = st]
    BY <1>1, <2>1, <2>2 DEF Ended
  <2>4. /\ row.session = o.session /\ row.reply = o.reply /\ row.outcome = o.outcome
        /\ row.pc = o.pc /\ row.known = o.known /\ row.worker = o.worker /\ row.status = st
    BY <1>2, <2>3 DEF Job
  <2>5. st = "NONE" <=> o.status = "NONE"
    BY <2>2
  <2>6. st \in ActiveStatus => o.status \in ActiveStatus
    BY <2>2 DEF ActiveStatus
  <2> QED BY <1>2, <2>1, <2>4, <2>5, <2>6
<1> QED BY <1>3, <1>4

\* What a step of a run keeps of its row.
GoesOn(old, new) ==
  /\ new \in Job /\ old.status # "NONE" /\ new.status # "NONE"
  /\ new.session = old.session /\ new.reply = old.reply
  /\ new.status \in ActiveStatus => old.status \in ActiveStatus
  /\ old.outcome = "APPLIED" => new.outcome = "APPLIED"

\* A step that reads nothing more.
ReadsNoMore(old, new) ==
  /\ \/ new.pairs = old.pairs /\ new.known = old.known /\ new.before = old.before
     \/ new.pc = "over" /\ new.known = {}
  /\ new.pc \in Unread => old.pc \in Unread
  /\ new.pc = "collect" => old.pc = "collect"
  /\ new.pc \in {"complete", "verify", "apply"} => old.pc \in {"complete", "verify", "apply"}
  /\ new.pc \notin {"finish", "over"} => new.outcome = "none"
  /\ new.outcome = "APPLIED" => old.outcome = "APPLIED"

\* Such a step keeps the invariant.
LEMMA RunGoesOn ==
  ASSUME TitlesInv, TypeOK', UNCHANGED <<sessions, replies, workers, lock, applied>>,
         faults' \in {faults, faults + 1}, NEW k \in Jobs, NEW row \in Job,
         jobs' = [jobs EXCEPT ![k] = row], GoesOn(jobs[k], row),
         ReadsNoMore(jobs[k], row) \/ JobInv(k)'
  PROVE  TitlesInv'
<1>1. /\ jobs'[k] = row /\ \A l \in Jobs \ {k} : jobs'[l] = jobs[l]
      /\ sessions' \in [Sessions -> SessionRow]
  BY JobWritten DEF TitlesInv, TypeOK
<1>2. JobsMove
  BY <1>1 DEF JobsMove, GoesOn
<1>3. JobInv(k) /\ jobs[k] \in Job
  BY DEF TitlesInv, TypeOK
<1>4. ASSUME ReadsNoMore(jobs[k], row) PROVE JobInv(k)'
  <2>1. RepliesGrow /\ LiveShrinks
    BY DEF RepliesGrow, LiveShrinks, WholeReply, Live
  <2>2. sessions'[jobs[k].session].attempted >= sessions[jobs[k].session].attempted
    <3>1. sessions[jobs[k].session].attempted \in Nat
      BY <1>3 DEF JobInv, GoesOn, TitlesInv, TypeOK, SessionRow, Replies
    <3> QED BY <3>1
  <2>3. row.outcome = "APPLIED" => applied'[row.session] = k
    BY <1>3, <1>4 DEF ReadsNoMore, GoesOn, JobInv
  <2> QED BY <1>1, <1>4, <2>1, <2>2, <2>3, JobKept DEF ReadsNoMore, GoesOn
<1> QED BY <1>1, <1>2, <1>4, OneJobGoesOn

-----------------------------------------------------------------------------
(* The steps of jobs that read nothing more, one lemma per action.         *)

\* A run that has begun is of a job.
LEMMA RunOfJob ==
  ASSUME TitlesInv, NEW k \in Jobs, jobs[k].pc # "waiting"
  PROVE  jobs[k] \in Job /\ jobs[k].status # "NONE"
BY DEF TitlesInv, TypeOK, JobInv

\* The handler goes on, returns or throws.
LEMMA ThenGoesOn ==
  ASSUME TitlesInv, NEW k \in Jobs, jobs[k].pc # "waiting", jobs[k].outcome = "none",
         NEW pc \in HandlerPcs \ {"waiting"}, Then(k, pc), pc \in Unread => jobs[k].pc \in Unread,
         pc = "collect" => jobs[k].pc = "collect",
         pc \in {"complete", "verify", "apply"} => jobs[k].pc \in {"complete", "verify", "apply"}
  PROVE  \E row \in Job : /\ jobs' = [jobs EXCEPT ![k] = row]
                          /\ GoesOn(jobs[k], row) /\ ReadsNoMore(jobs[k], row)
<1>1. PICK old : old = jobs[k]
  OBVIOUS
<1>2. old \in Job /\ old.status # "NONE" /\ TypeOK
  BY <1>1, RunOfJob DEF TitlesInv
<1>3. PICK row : row = [old EXCEPT !.pc = pc]
  OBVIOUS
<1>4. row \in Job /\ jobs' = [jobs EXCEPT ![k] = row]
  BY <1>1, <1>2, <1>3, JobStepTypes, ThenRow
<1>5. /\ row.session = old.session /\ row.reply = old.reply /\ row.status = old.status
      /\ row.outcome = old.outcome /\ row.pairs = old.pairs /\ row.known = old.known
      /\ row.before = old.before /\ row.pc = pc
  BY <1>2, <1>3 DEF Job
<1> QED BY <1>1, <1>2, <1>4, <1>5 DEF GoesOn, ReadsNoMore

LEMMA ReturnsGoesOn ==
  ASSUME TitlesInv, NEW k \in Jobs, jobs[k].pc # "waiting", jobs[k].outcome = "none",
         Returns(k, "KEPT")
  PROVE  \E row \in Job : /\ jobs' = [jobs EXCEPT ![k] = row]
                          /\ GoesOn(jobs[k], row) /\ ReadsNoMore(jobs[k], row)
<1>1. PICK old : old = jobs[k]
  OBVIOUS
<1>2. old \in Job /\ old.status # "NONE" /\ TypeOK /\ "KEPT" \in Outcomes
  BY <1>1, RunOfJob DEF TitlesInv, Outcomes
<1>3. PICK row : row = [old EXCEPT !.pc = "finish", !.outcome = "KEPT"]
  OBVIOUS
<1>4. row \in Job /\ jobs' = [jobs EXCEPT ![k] = row]
  BY <1>1, <1>2, <1>3, JobStepTypes, ReturnsRow
<1>5. /\ row.session = old.session /\ row.reply = old.reply /\ row.status = old.status
      /\ row.outcome = "KEPT" /\ row.pairs = old.pairs /\ row.known = old.known
      /\ row.before = old.before /\ row.pc = "finish"
  BY <1>2, <1>3 DEF Job
<1> QED BY <1>1, <1>2, <1>4, <1>5 DEF GoesOn, ReadsNoMore, Unread

LEMMA EndGoesOn ==
  ASSUME TitlesInv, NEW k \in Jobs, jobs[k].status # "NONE",
         NEW status \in {"FAILED", "SUCCEEDED"}, NEW row \in {Over(jobs[k]), Ended(jobs[k], status)},
         jobs' = [jobs EXCEPT ![k] = row]
  PROVE  /\ row \in Job /\ jobs' = [jobs EXCEPT ![k] = row]
         /\ GoesOn(jobs[k], row) /\ ReadsNoMore(jobs[k], row)
<1>1. jobs[k] \in Job
  BY DEF TitlesInv, TypeOK
<1> QED BY <1>1, EndedRow DEF GoesOn, ReadsNoMore, Unread

LEMMA ThrowsGoesOn ==
  ASSUME TitlesInv, NEW k \in Jobs, jobs[k].pc # "waiting", Throws(k)
  PROVE  \E row \in Job : /\ jobs' = [jobs EXCEPT ![k] = row]
                          /\ GoesOn(jobs[k], row) /\ ReadsNoMore(jobs[k], row)
<1>1. PICK row : row = IF jobs[k].aborted THEN Over(jobs[k]) ELSE Ended(jobs[k], "FAILED")
  OBVIOUS
<1>2. jobs' = [jobs EXCEPT ![k] = row] /\ row \in {Over(jobs[k]), Ended(jobs[k], "FAILED")}
  BY <1>1 DEF Throws
<1>3. jobs[k].status # "NONE"
  BY RunOfJob
<1> QED BY <1>2, <1>3, EndGoesOn

\* A cancellation.
LEMMA CancelJobKeeps ==
  ASSUME TitlesInv, TypeOK', NEW k \in Jobs, CancelJob(k)
  PROVE  TitlesInv'
<1>1. PICK old : old = jobs[k]
  OBVIOUS
<1>2. old \in Job /\ old.status \in {"QUEUED", "RUNNING"} /\ TypeOK /\ JobInv(k)
  BY <1>1 DEF TitlesInv, TypeOK, CancelJob
<1>3. PICK row : row = [old EXCEPT !.status = "CANCEL_REQUESTED"]
  OBVIOUS
<1>4. row \in Job /\ jobs' = [jobs EXCEPT ![k] = row]
  BY <1>1, <1>2, <1>3, JobStepTypes DEF CancelJob, JobStatus
<1>5. /\ row.session = old.session /\ row.reply = old.reply /\ row.status = "CANCEL_REQUESTED"
      /\ row.outcome = old.outcome /\ row.pairs = old.pairs /\ row.known = old.known
      /\ row.before = old.before /\ row.pc = old.pc
  BY <1>2, <1>3 DEF Job
<1>6. old.pc \notin {"finish", "over"} => old.outcome = "none"
  BY <1>1, <1>2 DEF JobInv
<1>7. GoesOn(jobs[k], row) /\ ReadsNoMore(jobs[k], row)
  BY <1>1, <1>2, <1>4, <1>5, <1>6 DEF GoesOn, ReadsNoMore, ActiveStatus
<1>8. UNCHANGED <<sessions, replies, workers, lock, applied>> /\ faults' \in {faults, faults + 1}
  BY DEF CancelJob
<1> QED BY <1>4, <1>7, <1>8, RunGoesOn

\* A signal that is aborted.
LEMMA AbortRunKeeps ==
  ASSUME TitlesInv, TypeOK', NEW k \in Jobs, AbortRun(k)
  PROVE  TitlesInv'
<1>1. PICK old : old = jobs[k]
  OBVIOUS
<1>2. old \in Job /\ old.worker # NoWorker /\ TypeOK /\ JobInv(k)
  BY <1>1 DEF TitlesInv, TypeOK, AbortRun
<1>3. PICK row : row = [old EXCEPT !.aborted = TRUE]
  OBVIOUS
<1>4. row \in Job /\ jobs' = [jobs EXCEPT ![k] = row]
  BY <1>1, <1>2, <1>3, JobStepTypes DEF AbortRun
<1>5. /\ row.session = old.session /\ row.reply = old.reply /\ row.status = old.status
      /\ row.outcome = old.outcome /\ row.pairs = old.pairs /\ row.known = old.known
      /\ row.before = old.before /\ row.pc = old.pc
  BY <1>2, <1>3 DEF Job
<1>6. (old.pc \notin {"finish", "over"} => old.outcome = "none") /\ old.status # "NONE"
  BY <1>1, <1>2 DEF JobInv
<1>7. GoesOn(jobs[k], row) /\ ReadsNoMore(jobs[k], row)
  BY <1>1, <1>2, <1>4, <1>5, <1>6 DEF GoesOn, ReadsNoMore
<1>8. UNCHANGED <<sessions, replies, workers, lock, applied>> /\ faults' \in {faults, faults + 1}
  BY DEF AbortRun, Fault
<1> QED BY <1>4, <1>7, <1>8, RunGoesOn

\* A delivered job: a run, or the end of one that was cancelled before.
LEMMA StartJobKeeps ==
  ASSUME TitlesInv, TypeOK', NEW w \in Workers, NEW k \in Jobs, StartJob(w, k)
  PROVE  TitlesInv'
<1>1. PICK old : old = jobs[k]
  OBVIOUS
<1>2. /\ old \in Job /\ old.status \in {"QUEUED", "CANCEL_REQUESTED"} /\ old.pc = "waiting"
      /\ TypeOK /\ JobInv(k) /\ old.outcome = "none"
  BY <1>1 DEF TitlesInv, TypeOK, StartJob, JobInv
<1>3. UNCHANGED <<sessions, replies, workers, lock, applied>> /\ faults' \in {faults, faults + 1}
  BY DEF StartJob
<1>4. CASE old.status = "QUEUED"
  <2>1. PICK row : row = [old EXCEPT !.worker = w, !.pc = "checkpoint", !.status = "RUNNING"]
    OBVIOUS
  <2>2. row \in Job /\ jobs' = [jobs EXCEPT ![k] = row]
    BY <1>1, <1>2, <1>4, <2>1, JobStepTypes DEF StartJob
  <2>3. /\ row.session = old.session /\ row.reply = old.reply /\ row.status = "RUNNING"
        /\ row.outcome = old.outcome /\ row.pairs = old.pairs /\ row.known = old.known
        /\ row.before = old.before /\ row.pc = "checkpoint"
    BY <1>2, <2>1 DEF Job
  <2>4. GoesOn(jobs[k], row) /\ ReadsNoMore(jobs[k], row)
    BY <1>1, <1>2, <1>4, <2>2, <2>3 DEF GoesOn, ReadsNoMore, ActiveStatus, Unread
  <2> QED BY <1>3, <2>2, <2>4, RunGoesOn
<1>5. CASE old.status # "QUEUED"
  <2>1. PICK row : row = Ended(old, "FAILED")
    OBVIOUS
  <2>2. jobs' = [jobs EXCEPT ![k] = row]
    BY <1>1, <1>5, <2>1 DEF StartJob
  <2>3. row \in Job /\ GoesOn(jobs[k], row) /\ ReadsNoMore(jobs[k], row)
    BY <1>1, <1>2, <2>1, <2>2, EndGoesOn
  <2> QED BY <1>3, <2>2, <2>3, RunGoesOn
<1> QED BY <1>4, <1>5

\* The checkpoints, the call and the end of the run.
LEMMA FirstCheckpointKeeps ==
  ASSUME TitlesInv, TypeOK', NEW k \in Jobs, FirstCheckpoint(k)
  PROVE  TitlesInv'
<1>1. UNCHANGED <<sessions, replies, workers, lock, applied>> /\ faults' \in {faults, faults + 1}
  BY DEF FirstCheckpoint
<1>2. jobs[k].pc = "checkpoint" /\ jobs[k].outcome = "none"
  BY DEF FirstCheckpoint, TitlesInv, JobInv
<1>3. \E row \in Job : /\ jobs' = [jobs EXCEPT ![k] = row]
                       /\ GoesOn(jobs[k], row) /\ ReadsNoMore(jobs[k], row)
  <2>1. CASE jobs[k].status = "CANCEL_REQUESTED"
    <3>1. PICK row : row = Ended(jobs[k], "FAILED")
      OBVIOUS
    <3>2. jobs' = [jobs EXCEPT ![k] = row]
      BY <2>1, <3>1 DEF FirstCheckpoint
    <3> QED BY <2>1, <3>1, <3>2, EndGoesOn
  <2>2. CASE jobs[k].status # "CANCEL_REQUESTED"
    <3>1. Then(k, "find") /\ "find" \in HandlerPcs \ {"waiting"}
      BY <2>2 DEF FirstCheckpoint, HandlerPcs
    <3> QED BY <1>2, <3>1, ThenGoesOn DEF Unread
  <2> QED BY <2>1, <2>2
<1> QED BY <1>1, <1>3, RunGoesOn

LEMMA CallModelKeeps ==
  ASSUME TitlesInv, TypeOK', NEW k \in Jobs, CallModel(k)
  PROVE  TitlesInv'
<1>1. UNCHANGED <<sessions, replies, workers, lock, applied>> /\ faults' \in {faults, faults + 1}
  BY DEF CallModel
<1>2. jobs[k].pc = "complete" /\ jobs[k].outcome = "none"
  BY DEF CallModel, TitlesInv, JobInv
<1>3. Then(k, "verify") \/ Returns(k, "KEPT") \/ Throws(k)
  BY DEF CallModel
<1>4. "verify" \in HandlerPcs \ {"waiting"}
  BY DEF HandlerPcs
<1>5. \E row \in Job : /\ jobs' = [jobs EXCEPT ![k] = row]
                       /\ GoesOn(jobs[k], row) /\ ReadsNoMore(jobs[k], row)
  <2>1. CASE Then(k, "verify")
    BY <1>2, <1>4, <2>1, ThenGoesOn DEF Unread
  <2>2. CASE Returns(k, "KEPT")
    BY <1>2, <2>2, ReturnsGoesOn
  <2>3. CASE Throws(k)
    BY <1>2, <2>3, ThrowsGoesOn
  <2> QED BY <1>3, <2>1, <2>2, <2>3
<1> QED BY <1>1, <1>5, RunGoesOn

LEMMA VerifyAnswerKeeps ==
  ASSUME TitlesInv, TypeOK', NEW k \in Jobs, VerifyAnswer(k)
  PROVE  TitlesInv'
<1>1. UNCHANGED <<sessions, replies, workers, lock, applied>> /\ faults' \in {faults, faults + 1}
  BY DEF VerifyAnswer
<1>2. jobs[k].pc = "verify" /\ jobs[k].outcome = "none" /\ jobs[k].status # "NONE"
  BY DEF VerifyAnswer, TitlesInv, JobInv
<1>3. \/ Then(k, "apply") \/ Returns(k, "KEPT")
      \/ jobs' = [jobs EXCEPT ![k] = Ended(jobs[k], "FAILED")]
  BY DEF VerifyAnswer
<1>4. "apply" \in HandlerPcs \ {"waiting"}
  BY DEF HandlerPcs
<1>5. \E row \in Job : /\ jobs' = [jobs EXCEPT ![k] = row]
                       /\ GoesOn(jobs[k], row) /\ ReadsNoMore(jobs[k], row)
  <2>1. CASE Then(k, "apply")
    BY <1>2, <1>4, <2>1, ThenGoesOn DEF Unread
  <2>2. CASE Returns(k, "KEPT")
    BY <1>2, <2>2, ReturnsGoesOn
  <2>3. CASE jobs' = [jobs EXCEPT ![k] = Ended(jobs[k], "FAILED")]
    <3>1. PICK row : row = Ended(jobs[k], "FAILED")
      OBVIOUS
    <3> QED BY <1>2, <2>3, <3>1, EndGoesOn
  <2> QED BY <1>3, <2>1, <2>2, <2>3
<1> QED BY <1>1, <1>5, RunGoesOn

LEMMA FinishJobKeeps ==
  ASSUME TitlesInv, TypeOK', NEW k \in Jobs, FinishJob(k)
  PROVE  TitlesInv'
<1>1. UNCHANGED <<sessions, replies, workers, lock, applied>> /\ faults' \in {faults, faults + 1}
  BY DEF FinishJob
<1>2. jobs[k].status # "NONE"
  BY DEF FinishJob, TitlesInv, JobInv
<1>3. PICK row : row = Ended(jobs[k], "SUCCEEDED")
  OBVIOUS
<1>4. jobs' = [jobs EXCEPT ![k] = row]
  BY <1>3 DEF FinishJob
<1>5. row \in Job /\ GoesOn(jobs[k], row) /\ ReadsNoMore(jobs[k], row)
  BY <1>2, <1>3, <1>4, EndGoesOn
<1> QED BY <1>1, <1>4, <1>5, RunGoesOn

\* The run begins to read with the whole replies that are stored.
LEMMA FindEligibleKeeps ==
  ASSUME TitlesInv, TypeOK', NEW k \in Jobs, FindEligible(k)
  PROVE  TitlesInv'
<1>1. UNCHANGED <<sessions, replies, workers, lock, applied>> /\ faults' \in {faults, faults + 1}
  BY DEF FindEligible
<1>2. PICK old : old = jobs[k]
  OBVIOUS
<1>3. old \in Job /\ old.pc = "find" /\ old.outcome = "none" /\ old.status # "NONE" /\ JobInv(k)
  BY <1>2 DEF FindEligible, TitlesInv, TypeOK, JobInv
<1>4. CASE Returns(k, "KEPT")
  BY <1>1, <1>2, <1>3, <1>4, ReturnsGoesOn, RunGoesOn
<1>5. CASE ~Returns(k, "KEPT")
  <2>1. PICK known : known = Whole({n \in Stored(old.session) : n <= old.reply})
    OBVIOUS
  <2>2. known \in SUBSET Replies
    BY <2>1 DEF Whole, Stored
  <2>3. PICK row : row = [old EXCEPT !.pc = "collect", !.known = known]
    OBVIOUS
  <2>4. row \in Job
    BY <1>3, <2>2, <2>3, JobStepTypes
  <2>5. jobs' = [jobs EXCEPT ![k].pc = "collect", ![k].known = known]
    BY <1>2, <1>5, <2>1 DEF FindEligible
  <2>6. jobs' = [jobs EXCEPT ![k] = row]
    BY <1>2, <2>3, <2>5 DEF TitlesInv, TypeOK
  <2>7. /\ row.session = old.session /\ row.reply = old.reply /\ row.status = old.status
        /\ row.outcome = old.outcome /\ row.pairs = old.pairs /\ row.known = known
        /\ row.before = old.before /\ row.pc = "collect"
    BY <1>3, <2>3 DEF Job
  <2>8. old.pairs = {} /\ old.before = MaxReplies + 1
    BY <1>2, <1>3 DEF JobInv, Unread
  <2>9. jobs'[k] = row
    BY <2>4, <2>6, JobWritten DEF TitlesInv
  <2>10. MaxExchanges \in Nat \ {0} /\ MaxReplies \in Nat
    BY TitleBounds
  <2>11. CollectInv(k)'
    <3>1. ~(MaxReplies + 1 <= MaxReplies) /\ Cardinality({}) < MaxExchanges
      BY <2>10, FS_EmptySet
    <3>2. \A m \in Replies : ~(MaxReplies + 1 <= m)
      BY <2>10 DEF Replies
    <3> QED BY <2>2, <2>7, <2>8, <2>9, <3>1, <3>2 DEF CollectInv
  <2>12. /\ old.session \in Sessions /\ WholeReply(old.reply, old.session)
         /\ old.reply <= sessions[old.session].attempted
    BY <1>2, <1>3 DEF JobInv
  <2>13. \A m \in known : WholeReply(m, old.session) /\ m <= old.reply
    BY <2>1 DEF Whole, Stored, WholeReply
  <2>14. JobInv(k)'
    BY <1>1, <1>3, <2>7, <2>9, <2>11, <2>12, <2>13 DEF JobInv, Unread, WholeReply
  <2>15. GoesOn(old, row)
    BY <1>3, <2>4, <2>7 DEF GoesOn
  <2> QED BY <1>1, <1>2, <2>4, <2>6, <2>14, <2>15, RunGoesOn
<1> QED BY <1>4, <1>5

-----------------------------------------------------------------------------
(* The pages of a run's transcript.                                        *)

\* S, W: the stored replies and the whole ones; P: the exchanges of the pages down to b; K: what
\* was known when the run began; r: the claimed reply.
Paging(S, W, P, K, b, r, page, pairs) ==
  /\ S \in SUBSET Replies /\ W \in SUBSET S /\ P \in SUBSET Replies /\ K \in SUBSET S
  /\ b \in 0..(MaxReplies + 1) /\ r \in Replies
  /\ \A p \in P : b <= p /\ p <= r
  /\ \A m \in K : m \in W /\ m <= r /\ (b <= m => m \in P)
  /\ page = Newest({m \in S : m <= r /\ m < b}, PageSize)
  /\ pairs = Newest(P \cup (page \cap W), MaxExchanges)
  /\ r \in P \cup (page \cap W)

\* One more page leaves out nothing known above its last row, and where it is the last page,
\* what is left out is older than MaxExchanges exchanges.
Paged(K, r, page, pairs) ==
  /\ page \in SUBSET Replies /\ pairs \in SUBSET Replies
  /\ r \in pairs /\ Cardinality(pairs) <= MaxExchanges
  /\ Cardinality(pairs) = MaxExchanges \/ Cardinality(page) < PageSize =>
       \A m \in K \ pairs : Cardinality({p \in pairs : p > m}) = MaxExchanges
  /\ ~(Cardinality(pairs) = MaxExchanges \/ Cardinality(page) < PageSize) =>
       /\ Cardinality(pairs) < MaxExchanges /\ Min(page) \in 0..(MaxReplies + 1)
       /\ \A p \in pairs : Min(page) <= p /\ p <= r
       /\ \A m \in K : Min(page) <= m => m \in pairs

\* A page read from what the pages before it left.
LEMMA PageReads ==
  ASSUME NEW S, NEW W, NEW P, NEW K, NEW b, NEW r, NEW page, NEW pairs,
         Paging(S, W, P, K, b, r, page, pairs)
  PROVE  Paged(K, r, page, pairs)
<1> SUFFICES ASSUME S \in SUBSET Replies, W \in SUBSET S, P \in SUBSET Replies, K \in SUBSET S,
                    b \in 0..(MaxReplies + 1), r \in Replies,
                    \A p \in P : b <= p /\ p <= r,
                    \A m \in K : m \in W /\ m <= r /\ (b <= m => m \in P),
                    page = Newest({m \in S : m <= r /\ m < b}, PageSize),
                    pairs = Newest(P \cup (page \cap W), MaxExchanges),
                    r \in P \cup (page \cap W)
             PROVE  Paged(K, r, page, pairs)
  BY DEF Paging
<1>1. PageSize \in Nat \ {0} /\ MaxExchanges \in Nat \ {0} /\ MaxReplies \in Nat
  BY TitleBounds
<1>2. PICK C : C = {m \in S : m <= r /\ m < b}
  OBVIOUS
<1>3. PICK U : U = P \cup (page \cap W)
  OBVIOUS
<1>4. page = Newest(C, PageSize) /\ pairs = Newest(U, MaxExchanges)
  BY <1>2, <1>3
<1>5. C \in SUBSET Replies /\ page \in SUBSET C /\ U \in SUBSET Replies /\ pairs \in SUBSET U
  BY <1>2, <1>3, <1>4 DEF Newest
<1>6. \A m \in Replies : m \in Nat
  BY DEF Replies
<1>7. /\ IsFiniteSet(C) /\ IsFiniteSet(page) /\ IsFiniteSet(U) /\ IsFiniteSet(pairs)
      /\ Cardinality(C) \in Nat /\ Cardinality(page) \in Nat
      /\ Cardinality(U) \in Nat /\ Cardinality(pairs) \in Nat
  <2>1. page \in SUBSET Replies /\ pairs \in SUBSET Replies
    BY <1>5
  <2> QED BY <1>5, <2>1, RepliesFinite
<1>8. r \in U /\ \A p \in U : p <= r
  <2>1. \A p \in page : p <= r
    BY <1>2, <1>5
  <2> QED BY <1>3, <2>1
<1>9. r \in pairs
  <2>1. {p \in U : p > r} = {}
    BY <1>5, <1>6, <1>8
  <2>2. Cardinality({p \in U : p > r}) < MaxExchanges
    BY <1>1, <2>1, FS_EmptySet
  <2> QED BY <1>4, <1>8, <2>2 DEF Newest
<1>10. Cardinality(pairs) = IF Cardinality(U) < MaxExchanges THEN Cardinality(U) ELSE MaxExchanges
  BY <1>1, <1>4, <1>5, NewestCount
<1>11. Cardinality(page) = IF Cardinality(C) < PageSize THEN Cardinality(C) ELSE PageSize
  BY <1>1, <1>4, <1>5, NewestCount
<1>12. Cardinality(pairs) < MaxExchanges => pairs = U
  <2> SUFFICES ASSUME Cardinality(pairs) < MaxExchanges PROVE pairs = U
    OBVIOUS
  <2>1. Cardinality(pairs) = Cardinality(U)
    BY <1>1, <1>7, <1>10
  <2> QED BY <1>5, <1>7, <2>1, FS_Subset
<1>13. Cardinality(page) < PageSize => page = C
  <2> SUFFICES ASSUME Cardinality(page) < PageSize PROVE page = C
    OBVIOUS
  <2>1. Cardinality(page) = Cardinality(C)
    BY <1>1, <1>7, <1>11
  <2> QED BY <1>5, <1>7, <2>1, FS_Subset
<1>14. \A m \in U \ pairs : \A p \in pairs : p > m
  BY <1>1, <1>4, <1>5, NewestAbove
<1>15. \A m \in C \ page : \A p \in page : p > m
  BY <1>1, <1>4, <1>5, NewestAbove
<1>16. ASSUME NEW m \in K, m \notin U
       PROVE  m \in C \ page /\ \A p \in U : p > m
  <2>1. m \in W /\ m <= r /\ m \notin P /\ ~(b <= m) /\ m \in Replies /\ m \in S
    BY <1>3, <1>16
  <2>2. m < b
    BY <1>1, <1>6, <2>1
  <2>3. m \in C \ page
    BY <1>2, <1>3, <1>16, <2>1, <2>2
  <2>4. \A p \in P : p > m
    <3> SUFFICES ASSUME NEW p \in P PROVE p > m
      OBVIOUS
    <3>1. b <= p /\ p \in Nat /\ m \in Nat /\ b \in Nat
      BY <1>1, <1>6, <2>1
    <3> QED BY <2>2, <3>1
  <2> QED BY <1>3, <1>15, <2>3, <2>4
<1>17. ASSUME Cardinality(pairs) = MaxExchanges \/ Cardinality(page) < PageSize, NEW m \in K \ pairs
       PROVE  Cardinality({p \in pairs : p > m}) = MaxExchanges
  <2>1. \A p \in pairs : p > m
    BY <1>5, <1>14, <1>16
  <2>2. {p \in pairs : p > m} = pairs
    BY <2>1
  <2>3. Cardinality(pairs) = MaxExchanges
    <3>1. CASE m \in U
      <4>1. ~(Cardinality(pairs) < MaxExchanges)
        BY <1>12, <1>17, <3>1
      <4> QED BY <1>1, <1>7, <1>10, <4>1
    <3>2. CASE m \notin U
      BY <1>13, <1>16, <1>17, <3>2
    <3> QED BY <3>1, <3>2
  <2> QED BY <2>2, <2>3
<1>18. ASSUME ~(Cardinality(pairs) = MaxExchanges \/ Cardinality(page) < PageSize)
       PROVE  /\ Cardinality(pairs) < MaxExchanges /\ Min(page) \in 0..(MaxReplies + 1)
              /\ \A p \in pairs : Min(page) <= p /\ p <= r
              /\ \A m \in K : Min(page) <= m => m \in pairs
  <2>1. Cardinality(pairs) < MaxExchanges
    BY <1>1, <1>7, <1>10, <1>18
  <2>2. pairs = U
    BY <1>12, <2>1
  <2>3. page # {}
    BY <1>1, <1>18, FS_EmptySet
  <2>4. page \in SUBSET Nat
    BY <1>5, <1>6
  <2>5. Min(page) \in page /\ \A y \in page : Min(page) <= y
    BY <2>3, <2>4, MinIsSmallest
  <2>6. PICK x : x = Min(page)
    OBVIOUS
  <2>7. x \in page /\ x \in Nat /\ x < b /\ x <= MaxReplies /\ \A y \in page : x <= y
    BY <1>1, <1>2, <1>5, <2>4, <2>5, <2>6 DEF Replies
  <2>8. x \in 0..(MaxReplies + 1)
    BY <1>1, <2>7
  <2>9. \A p \in U : x <= p
    <3> SUFFICES ASSUME NEW p \in P PROVE x <= p
      BY <1>3, <2>7
    <3>1. b <= p /\ p \in Nat /\ b \in Nat
      BY <1>1, <1>6
    <3> QED BY <2>7, <3>1
  <2>10. ASSUME NEW m \in K, x <= m PROVE m \in U
    <3> SUFFICES ASSUME m \notin U PROVE FALSE
      OBVIOUS
    <3>1. m \in C \ page
      BY <1>16
    <3>2. x > m /\ m \in Nat
      BY <1>5, <1>6, <1>15, <2>7, <3>1
    <3> QED BY <2>7, <2>10, <3>2
  <2> QED BY <1>8, <2>1, <2>2, <2>6, <2>8, <2>9, <2>10
<1>19. Cardinality(pairs) <= MaxExchanges
  BY <1>1, <1>7, <1>10
<1>20. page \in SUBSET Replies /\ pairs \in SUBSET Replies
  BY <1>5
<1> QED BY <1>9, <1>17, <1>18, <1>19, <1>20 DEF Paged

\* One more page of a run.
LEMMA CollectPageKeeps ==
  ASSUME TitlesInv, TypeOK', NEW k \in Jobs, CollectPage(k)
  PROVE  TitlesInv'
<1>1. UNCHANGED <<sessions, replies, workers, lock, applied>> /\ faults' \in {faults, faults + 1}
  BY DEF CollectPage
<1>2. PICK old : old = jobs[k]
  OBVIOUS
<1>3. old \in Job /\ old.pc = "collect" /\ old.outcome = "none" /\ old.status # "NONE" /\ JobInv(k)
  BY <1>2 DEF CollectPage, TitlesInv, TypeOK, JobInv
<1>4. CASE Returns(k, "KEPT")
  BY <1>1, <1>2, <1>3, <1>4, ReturnsGoesOn, RunGoesOn
<1>5. CASE ~Returns(k, "KEPT")
  <2>1. PICK S, page, W, pairs :
          /\ S = Stored(old.session) /\ page = Page(k) /\ W = Whole(S)
          /\ pairs = Newest(old.pairs \cup Whole(page), MaxExchanges)
    OBVIOUS
  <2>2. page = Newest({m \in S : m <= old.reply /\ m < old.before}, PageSize)
    BY <1>2, <2>1 DEF Page
  <2>3. S \in SUBSET Replies /\ W \in SUBSET S /\ page \in SUBSET S
    BY <2>1, <2>2 DEF Stored, Whole, Newest
  <2>4. Whole(page) = page \cap W
    BY <2>1, <2>3 DEF Whole
  <2>5. /\ old.before = MaxReplies + 1 => old.reply \in page
        /\ \/ /\ Cardinality(pairs) = MaxExchanges \/ Cardinality(page) < PageSize
              /\ jobs' = [jobs EXCEPT ![k].pc = "complete", ![k].pairs = pairs]
           \/ /\ ~(Cardinality(pairs) = MaxExchanges \/ Cardinality(page) < PageSize)
              /\ jobs' = [jobs EXCEPT ![k].before = Min(page), ![k].pairs = pairs]
    <3>1. ~(old.before = MaxReplies + 1 /\ old.reply \notin page)
      BY <1>2, <1>5, <2>1 DEF CollectPage
    <3> QED BY <1>2, <1>5, <2>1, <3>1 DEF CollectPage
  <2>6. /\ old.session \in Sessions /\ WholeReply(old.reply, old.session)
        /\ old.reply <= sessions[old.session].attempted
        /\ \A m \in old.known : WholeReply(m, old.session) /\ m <= old.reply
    BY <1>2, <1>3 DEF JobInv
  <2>7. /\ old.before <= MaxReplies => old.reply \in old.pairs
        /\ \A p \in old.pairs : old.before <= p /\ p <= old.reply
        /\ \A m \in old.known \cap S : old.before <= m => m \in old.pairs
    BY <1>2, <1>3, <2>1 DEF JobInv, CollectInv
  <2>8. /\ old.pairs \in SUBSET Replies /\ old.before \in 0..(MaxReplies + 1)
        /\ old.reply \in Replies
    BY <1>3, <2>6 DEF Job, WholeReply
  <2>9. old.reply \in old.pairs \cup (page \cap W)
    <3>1. old.before = MaxReplies + 1 \/ old.before <= MaxReplies
      BY <2>8, TitleBounds
    <3>2. old.reply \in page => old.reply \in W
      BY <2>1, <2>3, <2>6 DEF Whole, WholeReply
    <3> QED BY <2>5, <2>7, <3>1, <3>2
  <2>10. PICK K : K = old.known \cap S
    OBVIOUS
  <2>11. K \in SUBSET S /\ \A m \in K : m \in W /\ m <= old.reply /\ (old.before <= m => m \in old.pairs)
    BY <2>1, <2>6, <2>7, <2>10 DEF Whole, WholeReply
  <2>12. pairs = Newest(old.pairs \cup (page \cap W), MaxExchanges)
    BY <2>1, <2>4
  <2>13. /\ page \in SUBSET Replies /\ pairs \in SUBSET Replies
         /\ old.reply \in pairs /\ Cardinality(pairs) <= MaxExchanges
         /\ Cardinality(pairs) = MaxExchanges \/ Cardinality(page) < PageSize =>
              \A m \in K \ pairs : Cardinality({p \in pairs : p > m}) = MaxExchanges
         /\ ~(Cardinality(pairs) = MaxExchanges \/ Cardinality(page) < PageSize) =>
              /\ Cardinality(pairs) < MaxExchanges /\ Min(page) \in 0..(MaxReplies + 1)
              /\ \A p \in pairs : Min(page) <= p /\ p <= old.reply
              /\ \A m \in K : Min(page) <= m => m \in pairs
    <3>1. PICK P, b, r : P = old.pairs /\ b = old.before /\ r = old.reply
      OBVIOUS
    <3>2. P \in SUBSET Replies /\ b \in 0..(MaxReplies + 1) /\ r \in Replies
      BY <2>8, <3>1
    <3>3. Paging(S, W, P, K, b, r, page, pairs)
      BY <2>2, <2>3, <2>7, <2>9, <2>11, <2>12, <3>1, <3>2 DEF Paging
    <3>4. Paged(K, r, page, pairs)
      BY <3>3, PageReads
    <3> QED BY <3>1, <3>4 DEF Paged
  <2>14. Stored(old.session)' = S
    BY <1>1, <2>1 DEF Stored, Live
  <2>15. ASSUME NEW row \in Job, jobs' = [jobs EXCEPT ![k] = row], row.session = old.session,
                row.reply = old.reply, row.status = old.status, row.outcome = old.outcome,
                row.known = old.known, row.pc \in {"collect", "complete"}, row.pairs = pairs,
                row.pc = "collect" => CollectInv(k)', row.pc = "complete" => ReadInv(k)'
         PROVE  TitlesInv'
    <3>1. jobs'[k] = row
      BY <2>15, JobWritten DEF TitlesInv
    <3>2. GoesOn(old, row)
      BY <1>3, <2>15 DEF GoesOn
    <3>3. JobInv(k)'
      BY <1>1, <1>3, <2>6, <2>15, <3>1 DEF JobInv, Unread, WholeReply
    <3> QED BY <1>1, <1>2, <2>15, <3>2, <3>3, RunGoesOn
  <2>16. CASE Cardinality(pairs) = MaxExchanges \/ Cardinality(page) < PageSize
    <3>1. PICK row : row = [old EXCEPT !.pc = "complete", !.pairs = pairs]
      OBVIOUS
    <3>2. row \in Job
      BY <1>3, <2>13, <3>1, JobStepTypes
    <3>3. jobs' = [jobs EXCEPT ![k].pc = "complete", ![k].pairs = pairs]
      BY <2>5, <2>16
    <3>4. jobs' = [jobs EXCEPT ![k] = row]
      BY <1>2, <3>1, <3>3 DEF TitlesInv, TypeOK
    <3>5. /\ row.session = old.session /\ row.reply = old.reply /\ row.status = old.status
          /\ row.outcome = old.outcome /\ row.pairs = pairs /\ row.known = old.known
          /\ row.pc = "complete"
      BY <1>3, <3>1 DEF Job
    <3>6. jobs'[k] = row
      BY <3>2, <3>4, JobWritten DEF TitlesInv
    <3>7. ReadInv(k)'
      <4>1. \A m \in (row.known \cap S) \ row.pairs :
              Cardinality({p \in row.pairs : p > m}) = MaxExchanges
        BY <2>10, <2>13, <2>16, <3>5
      <4>2. Cardinality(row.pairs) <= MaxExchanges /\ row.reply \in row.pairs
        BY <2>13, <3>5
      <4>3. Stored(jobs[k].session)' = S
        BY <2>14, <3>5, <3>6 DEF Stored, Live
      <4> QED BY <3>6, <4>1, <4>2, <4>3 DEF ReadInv
    <3> QED BY <2>15, <3>2, <3>4, <3>5, <3>7
  <2>17. CASE ~(Cardinality(pairs) = MaxExchanges \/ Cardinality(page) < PageSize)
    <3>0. PICK low : low = Min(page)
      OBVIOUS
    <3>1. PICK row : row = [old EXCEPT !.before = low, !.pairs = pairs]
      OBVIOUS
    <3>2. row \in Job
      BY <1>3, <2>13, <2>17, <3>0, <3>1, JobStepTypes
    <3>3. jobs' = [jobs EXCEPT ![k].before = low, ![k].pairs = pairs]
      BY <2>5, <2>17, <3>0
    <3>4. jobs' = [jobs EXCEPT ![k] = row]
      BY <1>2, <3>1, <3>3 DEF TitlesInv, TypeOK
    <3>5. /\ row.session = old.session /\ row.reply = old.reply /\ row.status = old.status
          /\ row.outcome = old.outcome /\ row.pairs = pairs /\ row.known = old.known
          /\ row.pc = "collect" /\ row.before = low
      BY <1>3, <3>1 DEF Job
    <3>6. jobs'[k] = row
      BY <3>2, <3>4, JobWritten DEF TitlesInv
    <3>7. CollectInv(k)'
      <4>1. \A m \in row.known \cap S : row.before <= m => m \in row.pairs
        BY <2>10, <2>13, <2>17, <3>0, <3>5
      <4>2. /\ Cardinality(row.pairs) < MaxExchanges /\ row.reply \in row.pairs
            /\ \A p \in row.pairs : row.before <= p /\ p <= row.reply
        BY <2>13, <2>17, <3>0, <3>5
      <4>3. Stored(jobs[k].session)' = S
        BY <2>14, <3>5, <3>6 DEF Stored, Live
      <4> QED BY <3>6, <4>1, <4>2, <4>3 DEF CollectInv
    <3> QED BY <2>15, <3>2, <3>4, <3>5, <3>7
  <2> QED BY <2>16, <2>17
<1> QED BY <1>4, <1>5

-----------------------------------------------------------------------------
(* The other steps.                                                        *)

\* The title is written: nobody had named the session.
LEMMA ApplyTitleKeeps ==
  ASSUME TitlesInv, TypeOK', NEW k \in Jobs, ApplyTitle(k)
  PROVE  TitlesInv'
<1>1. PICK old, s : old = jobs[k] /\ s = old.session
  OBVIOUS
<1>2. /\ old \in Job /\ old.pc = "apply" /\ old.outcome = "none" /\ old.status # "NONE"
      /\ JobInv(k) /\ s \in Sessions
  BY <1>1 DEF ApplyTitle, TitlesInv, TypeOK, JobInv
<1>3. UNCHANGED <<replies, workers, lock, faults>>
  BY DEF ApplyTitle
<1>4. CASE ~TakesTitle(s)
  <2>1. UNCHANGED <<sessions, applied>> /\ Returns(k, "KEPT")
    BY <1>1, <1>4 DEF ApplyTitle
  <2> QED BY <1>1, <1>2, <1>3, <2>1, ReturnsGoesOn, RunGoesOn
<1>5. CASE TakesTitle(s)
  <2>1. /\ sessions' = [sessions EXCEPT ![s].source = "GENERATED"]
        /\ applied' = [applied EXCEPT ![s] = k] /\ Returns(k, "APPLIED")
    BY <1>1, <1>5 DEF ApplyTitle
  <2>2. /\ sessions \in [Sessions -> SessionRow] /\ sessions' \in [Sessions -> SessionRow]
        /\ applied \in [Sessions -> Jobs \cup {0}] /\ sessions[s].source = "PLACEHOLDER"
    BY <1>5 DEF TitlesInv, TypeOK, TakesTitle
  <2>3. /\ sessions'[s].source = "GENERATED" /\ applied'[s] = k
        /\ \A t \in Sessions : /\ sessions'[t].eligible = sessions[t].eligible
                               /\ sessions'[t].attempted = sessions[t].attempted
                               /\ t # s => sessions'[t] = sessions[t] /\ applied'[t] = applied[t]
    <3>1. sessions'[s] = [sessions[s] EXCEPT !.source = "GENERATED"] /\ sessions[s] \in SessionRow
      BY <1>2, <2>1, <2>2
    <3>2. /\ sessions'[s].source = "GENERATED" /\ sessions'[s].eligible = sessions[s].eligible
          /\ sessions'[s].attempted = sessions[s].attempted
      BY <3>1 DEF SessionRow
    <3> QED BY <1>2, <2>1, <2>2, <3>2
  <2>4. PICK row : row = [old EXCEPT !.pc = "finish", !.outcome = "APPLIED"]
    OBVIOUS
  <2>5. row \in Job /\ jobs' = [jobs EXCEPT ![k] = row]
    <3>1. "APPLIED" \in Outcomes
      BY DEF Outcomes
    <3> QED BY <1>1, <1>2, <2>1, <2>4, <3>1, JobStepTypes, ReturnsRow DEF TitlesInv
  <2>6. /\ row.session = old.session /\ row.reply = old.reply /\ row.status = old.status
        /\ row.outcome = "APPLIED" /\ row.pairs = old.pairs /\ row.known = old.known
        /\ row.before = old.before /\ row.pc = "finish"
    BY <1>2, <2>4 DEF Job
  <2>7. jobs'[k] = row /\ \A l \in Jobs \ {k} : jobs'[l] = jobs[l]
    BY <2>5, JobWritten DEF TitlesInv
  <2>8. RepliesGrow /\ LiveShrinks
    <3>1. RepliesGrow
      BY <1>3 DEF RepliesGrow, WholeReply
    <3>2. LiveShrinks
      BY <2>2, <2>3 DEF LiveShrinks, Live
    <3> QED BY <3>1, <3>2
  <2>9. JobsMove
    BY <1>1, <1>2, <2>6, <2>7 DEF JobsMove
  <2>10. applied[s] = 0
    BY <1>2, <2>2 DEF TitlesInv, TitleInv
  <2>11. ASSUME NEW w \in Workers PROVE WorkerInv(w)'
    <3>1. workers[w].pc \in Holding => Undisturbed(workers[w].session)
      BY <1>3, <2>3, <2>9 DEF TitlesInv, WorkerInv, Undisturbed, JobsMove
    <3> QED BY <1>3, <2>8, <3>1, WorkerKept
  <2>12. ASSUME NEW t \in Sessions PROVE LockInv(t)' /\ ClaimInv(t)'
    <3>1. LockInv(t)'
      BY <1>3 DEF TitlesInv, LockInv
    <3>2. \A l \in Jobs : jobs[l].session = t /\ jobs[l].reply # 0 =>
            jobs'[l].session = t /\ jobs'[l].reply = jobs[l].reply
      BY <2>9 DEF JobsMove
    <3>3. ClaimInv(t)'
      BY <1>3, <2>3, <3>2, ClaimKept
    <3> QED BY <3>1, <3>3
  <2>13. ASSUME NEW t \in Sessions PROVE SessionInv(t)'
    <3>1. CASE t = s
      <4>1. SessionInv(s)
        BY <1>2 DEF TitlesInv
      <4> QED BY <1>3, <2>3, <3>1, <4>1 DEF SessionInv, WholeReply
    <3>2. CASE t # s
      BY <1>3, <2>3, <3>2, SessionKept
    <3> QED BY <3>1, <3>2
  <2>14. ASSUME NEW t \in Sessions PROVE TitleInv(t)'
    <3>1. CASE t = s
      BY <1>1, <2>3, <2>6, <2>7, <3>1 DEF TitleInv
    <3>2. CASE t # s
      <4>1. \A l \in Jobs : jobs[l].outcome = "APPLIED" =>
              jobs'[l].session = jobs[l].session /\ jobs'[l].outcome = "APPLIED"
        BY <2>9 DEF JobsMove
      <4> QED BY <2>3, <3>2, <4>1, TitleKept
    <3> QED BY <3>1, <3>2
  <2>15. ASSUME NEW l \in Jobs PROVE JobInv(l)'
    <3>1. PICK now : now = jobs'[l]
      OBVIOUS
    <3>2. JobInv(l) /\ jobs[l] \in Job
      BY DEF TitlesInv, TypeOK
    <3>3. jobs[l].status # "NONE" =>
            sessions'[jobs[l].session].attempted >= sessions[jobs[l].session].attempted
      <4> SUFFICES ASSUME jobs[l].status # "NONE"
                   PROVE  sessions'[jobs[l].session].attempted >= sessions[jobs[l].session].attempted
        OBVIOUS
      <4>1. jobs[l].session \in Sessions
        BY <3>2 DEF JobInv
      <4>2. sessions[jobs[l].session].attempted \in Nat
        BY <2>2, <4>1 DEF SessionRow, Replies
      <4> QED BY <2>3, <4>1, <4>2
    <3>4. CASE l = k
      BY <1>1, <1>2, <2>2, <2>3, <2>5, <2>6, <2>7, <2>8, <3>3, <3>4, JobKept DEF Unread
    <3>5. CASE l # k
      <4>1. now = jobs[l] /\ now \in Job
        BY <2>7, <3>1, <3>2, <3>5
      <4>2. now.outcome = "APPLIED" => applied'[now.session] = l
        <5> SUFFICES ASSUME now.outcome = "APPLIED" PROVE applied'[now.session] = l
          OBVIOUS
        <5>1. applied[now.session] = l
          BY <3>2, <4>1 DEF JobInv
        <5>2. now.session \in Sessions
          BY <3>2, <4>1 DEF JobInv
        <5>3. l # 0
          BY DEF Jobs
        <5> QED BY <2>3, <2>10, <5>1, <5>2, <5>3
      <4>3. now.pc \notin {"finish", "over"} => now.outcome = "none"
        BY <3>2, <4>1 DEF JobInv
      <4> QED BY <2>2, <2>8, <3>1, <3>3, <4>1, <4>2, <4>3, JobKept
    <3> QED BY <3>4, <3>5
  <2>16. JobsInv'
    BY <2>9, JobsKept
  <2> QED BY <2>11, <2>12, <2>13, <2>14, <2>15, <2>16 DEF TitlesInv
<1> QED BY <1>4, <1>5

\* The source of a session is written.
LEMMA SourceWritten ==
  ASSUME TypeOK, NEW s \in Sessions, NEW source, sessions' = [sessions EXCEPT ![s].source = source]
  PROVE  /\ sessions'[s].source = source
         /\ \A t \in Sessions : /\ sessions'[t].eligible = sessions[t].eligible
                                /\ sessions'[t].attempted = sessions[t].attempted
                                /\ t # s => sessions'[t].source = sessions[t].source
<1>1. sessions \in [Sessions -> SessionRow]
  BY DEF TypeOK
<1>2. sessions'[s] = [sessions[s] EXCEPT !.source = source] /\ sessions[s] \in SessionRow
  BY <1>1
<1>3. /\ sessions'[s].source = source /\ sessions'[s].eligible = sessions[s].eligible
      /\ sessions'[s].attempted = sessions[s].attempted
  BY <1>2 DEF SessionRow
<1> QED BY <1>1, <1>3

\* The users' sessions.
LEMMA UserStepKeeps ==
  ASSUME TitlesInv, TypeOK', NEW s \in Sessions,
         CreateSession(s) \/ RenameSession(s) \/ DeleteSession(s)
  PROVE  TitlesInv'
<1>1. UNCHANGED <<replies, workers, lock, jobs, applied, faults>> /\ TypeOK /\ SessionInv(s)
  BY DEF CreateSession, RenameSession, DeleteSession, TitlesInv
<1>2. PICK source :
        /\ sessions' = [sessions EXCEPT ![s].source = source]
        /\ \/ sessions[s].source = "absent" /\ source \in {"PLACEHOLDER", "USER"}
           \/ Live(s) /\ source \in {"USER", "deleted"}
  BY DEF CreateSession, RenameSession, DeleteSession
<1>3. /\ sessions'[s].source = source
      /\ \A t \in Sessions : /\ sessions'[t].eligible = sessions[t].eligible
                             /\ sessions'[t].attempted = sessions[t].attempted
                             /\ t # s => sessions'[t].source = sessions[t].source
  BY <1>1, <1>2, SourceWritten
<1>4. RepliesGrow
  BY <1>1 DEF RepliesGrow, WholeReply
<1>5. LiveShrinks
  BY <1>2, <1>3 DEF LiveShrinks, Live
<1>6. SessionInv(s)'
  <2>1. CASE sessions[s].source = "absent"
    <3>1. \A m \in Replies : replies[m].session # s
      BY <1>1, <2>1 DEF SessionInv
    <3>2. \A m \in Replies : ~WholeReply(m, s)'
      BY <1>1, <3>1 DEF WholeReply
    <3> QED BY <1>1, <1>2, <1>3, <2>1, <3>2 DEF SessionInv, Live
  <2>2. CASE sessions[s].source # "absent"
    <3>1. sessions'[s].source \notin {"absent", "PLACEHOLDER"}
      BY <1>2, <1>3, <2>2
    <3> QED BY <1>1, <1>3, <3>1 DEF SessionInv, WholeReply
  <2> QED BY <2>1, <2>2
<1>7. ASSUME NEW t \in Sessions
      PROVE  /\ sessions'[t].attempted = sessions[t].attempted
             /\ sessions'[t].source \in {"absent", "PLACEHOLDER"} =>
                  sessions[t].source \in {"absent", "PLACEHOLDER"}
             /\ SessionInv(t)'
  <2>1. CASE t = s
    BY <1>2, <1>3, <1>6, <2>1
  <2>2. CASE t # s
    <3>1. SessionInv(t)'
      BY <1>1, <1>3, <2>2, SessionKept
    <3> QED BY <1>3, <2>2, <3>1
  <2> QED BY <2>1, <2>2
<1> QED BY <1>1, <1>4, <1>5, <1>7, JobsLeftAlone

LEMMA ArchiveWorkspaceKeeps ==
  ASSUME TitlesInv, TypeOK', ArchiveWorkspace
  PROVE  TitlesInv'
<1>1. UNCHANGED <<sessions, replies, workers, lock, jobs, applied>> /\ faults' \in {faults, faults + 1}
  BY DEF ArchiveWorkspace, Fault
<1>2. RepliesGrow /\ LiveShrinks
  BY <1>1 DEF RepliesGrow, LiveShrinks, WholeReply, Live
<1>3. \A t \in Sessions : SessionInv(t)'
  BY <1>1, SessionKept
<1> QED BY <1>1, <1>2, <1>3, JobsLeftAlone

\* A reply that is not whole and stored is nobody's title.
LEMMA InsertReplyKeeps ==
  ASSUME TitlesInv, TypeOK', NEW s \in Sessions, InsertReply(s)
  PROVE  TitlesInv'
<1>1. UNCHANGED <<sessions, workers, lock, jobs, applied, faults>> /\ TypeOK /\ Live(s)
  BY DEF InsertReply, TitlesInv
<1>2. PICK m \in Replies, whole \in BOOLEAN :
        /\ replies[m].state = "free"
        /\ replies' = [replies EXCEPT ![m] = [session |-> s, state |-> "open", whole |-> whole]]
  BY DEF InsertReply
<1>3. /\ replies'[m].session = s /\ replies'[m].state = "open"
      /\ \A n \in Replies \ {m} : replies'[n] = replies[n]
  BY <1>1, <1>2 DEF TypeOK
<1>4. \A n, t : WholeReply(n, t)' <=> WholeReply(n, t)
  <2> SUFFICES ASSUME NEW n, NEW t PROVE WholeReply(n, t)' <=> WholeReply(n, t)
    OBVIOUS
  <2>1. CASE n = m
    BY <1>2, <1>3, <2>1 DEF WholeReply
  <2>2. CASE n # m
    BY <1>3, <2>2 DEF WholeReply
  <2> QED BY <2>1, <2>2
<1>5. RepliesGrow /\ LiveShrinks
  BY <1>1, <1>4 DEF RepliesGrow, LiveShrinks, Live
<1>6. ASSUME NEW t \in Sessions PROVE SessionInv(t)'
  <2>1. SessionInv(t)
    BY DEF TitlesInv
  <2>2. PICK row : row = sessions[t] /\ row = sessions'[t]
    BY <1>1
  <2>3. row.eligible # 0 => WholeReply(row.eligible, t)'
    BY <1>4, <2>1, <2>2 DEF SessionInv
  <2>4. row.source = "PLACEHOLDER" => \A n \in Replies : WholeReply(n, t)' => n <= row.eligible
    BY <1>4, <2>1, <2>2 DEF SessionInv
  <2>5. row.source = "absent" => row.eligible = 0 /\ \A n \in Replies : replies'[n].session # t
    BY <1>1, <1>3, <2>1, <2>2 DEF SessionInv, Live
  <2> QED BY <2>2, <2>3, <2>4, <2>5 DEF SessionInv, WholeReply
<1> QED BY <1>1, <1>5, <1>6, JobsLeftAlone

LEMMA RollBackReplyKeeps ==
  ASSUME TitlesInv, TypeOK', NEW m \in Replies, RollBackReply(m)
  PROVE  TitlesInv'
<1>1. /\ UNCHANGED <<sessions, workers, lock, jobs, applied>> /\ faults' \in {faults, faults + 1}
      /\ TypeOK /\ replies[m].state = "open"
      /\ replies' = [replies EXCEPT ![m].state = "rolled_back"]
  BY DEF RollBackReply, Fault, TitlesInv
<1>2. /\ replies'[m].state = "rolled_back" /\ replies'[m].session = replies[m].session
      /\ \A n \in Replies \ {m} : replies'[n] = replies[n]
  <2>1. replies \in [Replies -> Reply]
    BY <1>1 DEF TypeOK
  <2>2. replies'[m] = [replies[m] EXCEPT !.state = "rolled_back"] /\ replies[m] \in Reply
    BY <1>1, <2>1
  <2> QED BY <1>1, <2>1, <2>2 DEF Reply
<1>4. \A n, t : WholeReply(n, t)' <=> WholeReply(n, t)
  <2> SUFFICES ASSUME NEW n, NEW t PROVE WholeReply(n, t)' <=> WholeReply(n, t)
    OBVIOUS
  <2>1. CASE n = m
    BY <1>1, <1>2, <2>1 DEF WholeReply
  <2>2. CASE n # m
    BY <1>2, <2>2 DEF WholeReply
  <2> QED BY <2>1, <2>2
<1>5. RepliesGrow /\ LiveShrinks
  BY <1>1, <1>4 DEF RepliesGrow, LiveShrinks, Live
<1>6. ASSUME NEW t \in Sessions PROVE SessionInv(t)'
  <2>1. SessionInv(t)
    BY DEF TitlesInv
  <2>2. PICK row : row = sessions[t] /\ row = sessions'[t]
    BY <1>1
  <2>3. row.eligible # 0 => WholeReply(row.eligible, t)'
    BY <1>4, <2>1, <2>2 DEF SessionInv
  <2>4. row.source = "PLACEHOLDER" => \A n \in Replies : WholeReply(n, t)' => n <= row.eligible
    BY <1>4, <2>1, <2>2 DEF SessionInv
  <2>5. row.source = "absent" => row.eligible = 0 /\ \A n \in Replies : replies'[n].session # t
    BY <1>2, <2>1, <2>2 DEF SessionInv
  <2> QED BY <2>2, <2>3, <2>4, <2>5 DEF SessionInv, WholeReply
<1> QED BY <1>1, <1>5, <1>6, JobsLeftAlone

\* A whole reply becomes the mark of its session unless a newer one is.
LEMMA CommitReplyKeeps ==
  ASSUME TitlesInv, TypeOK', NEW m \in Replies, CommitReply(m)
  PROVE  TitlesInv'
<1>1. /\ UNCHANGED <<workers, lock, jobs, applied, faults>> /\ TypeOK /\ replies[m].state = "open"
      /\ replies' = [replies EXCEPT ![m].state = "stored"]
  BY DEF CommitReply, TitlesInv
<1>2. PICK s, whole : s = replies[m].session /\ whole = replies[m].whole
  OBVIOUS
<1>3. sessions' = IF whole THEN [sessions EXCEPT ![s] = MarkEligible(sessions[s], m)] ELSE sessions
  BY <1>2 DEF CommitReply
<1>4. /\ replies'[m].state = "stored" /\ replies'[m].session = s /\ replies'[m].whole = whole
      /\ \A n \in Replies \ {m} : replies'[n] = replies[n]
  <2>1. replies \in [Replies -> Reply]
    BY <1>1 DEF TypeOK
  <2>2. replies'[m] = [replies[m] EXCEPT !.state = "stored"] /\ replies[m] \in Reply
    BY <1>1, <2>1
  <2> QED BY <1>1, <1>2, <2>1, <2>2 DEF Reply
<1>5. ASSUME NEW n, NEW t
      PROVE  WholeReply(n, t)' <=> WholeReply(n, t) \/ (n = m /\ t = s /\ whole)
  <2>1. CASE n = m
    BY <1>1, <1>4, <2>1 DEF WholeReply
  <2>2. CASE n # m
    BY <1>4, <2>2 DEF WholeReply
  <2> QED BY <2>1, <2>2
<1>6. ASSUME NEW t \in Sessions
      PROVE  /\ sessions'[t].source = sessions[t].source
             /\ sessions'[t].attempted = sessions[t].attempted
             /\ sessions'[t].eligible =
                  IF t = s /\ whole /\ sessions[s].source = "PLACEHOLDER" /\ sessions[s].eligible < m
                  THEN m ELSE sessions[t].eligible
  <2>1. sessions \in [Sessions -> SessionRow] /\ sessions[t] \in SessionRow
    BY <1>1 DEF TypeOK
  <2>2. CASE t = s /\ whole
    <3>1. PICK row : row = sessions[t]
      OBVIOUS
    <3>2. sessions'[t] = MarkEligible(row, m)
      BY <1>3, <2>1, <2>2, <3>1
    <3>3. [row EXCEPT !.eligible = m].source = row.source
          /\ [row EXCEPT !.eligible = m].attempted = row.attempted
          /\ [row EXCEPT !.eligible = m].eligible = m
      BY <2>1, <3>1 DEF SessionRow
    <3>4. CASE row.source = "PLACEHOLDER" /\ row.eligible < m
      BY <2>2, <3>1, <3>2, <3>3, <3>4 DEF MarkEligible
    <3>5. CASE ~(row.source = "PLACEHOLDER" /\ row.eligible < m)
      BY <2>2, <3>1, <3>2, <3>5 DEF MarkEligible
    <3> QED BY <3>4, <3>5
  <2>3. CASE ~(t = s /\ whole)
    BY <1>3, <2>1, <2>3
  <2> QED BY <2>2, <2>3
<1>7. RepliesGrow /\ LiveShrinks
  BY <1>5, <1>6 DEF RepliesGrow, LiveShrinks, Live
<1>8. ASSUME NEW t \in Sessions PROVE SessionInv(t)'
  <2>1. SessionInv(t) /\ sessions[t] \in SessionRow
    BY <1>1 DEF TitlesInv, TypeOK
  <2>2. PICK row, old : row = sessions'[t] /\ old = sessions[t]
    OBVIOUS
  <2>3. old.eligible \in Nat /\ m \in Nat
    BY <2>1, <2>2 DEF SessionRow, Replies
  <2>4. /\ row.source = old.source
        /\ row.eligible = IF t = s /\ whole /\ old.source = "PLACEHOLDER" /\ old.eligible < m
                          THEN m ELSE old.eligible
    BY <1>6, <2>2
  <2>5. row.source = "absent" => row.eligible = 0 /\ \A n \in Replies : replies'[n].session # t
    BY <1>2, <1>4, <2>1, <2>2, <2>4 DEF SessionInv
  <2>6. row.eligible # 0 => WholeReply(row.eligible, t)'
    BY <1>5, <2>1, <2>2, <2>4 DEF SessionInv
  <2>7. ASSUME row.source = "PLACEHOLDER", NEW n \in Replies, WholeReply(n, t)'
        PROVE  n <= row.eligible
    <3>1. WholeReply(n, t) \/ (n = m /\ t = s /\ whole)
      BY <1>5, <2>7
    <3>2. CASE WholeReply(n, t)
      <4>1. n <= old.eligible /\ n \in Nat
        BY <2>1, <2>2, <2>4, <2>7, <3>2 DEF SessionInv, Replies
      <4> QED BY <2>3, <2>4, <4>1
    <3>3. CASE n = m /\ t = s /\ whole
      BY <2>3, <2>4, <2>7, <3>3
    <3> QED BY <3>1, <3>2, <3>3
  <2> QED BY <2>2, <2>5, <2>6, <2>7 DEF SessionInv, WholeReply
<1> QED BY <1>1, <1>6, <1>7, <1>8, JobsLeftAlone

-----------------------------------------------------------------------------
(* The ticks of the workers.                                               *)

\* Jobs that nothing happens to.
LEMMA JobsUnmoved ==
  ASSUME TitlesInv, UNCHANGED <<sessions, replies, jobs, applied>>
  PROVE  JobsMove /\ \A k \in Jobs : JobInv(k)'
<1>1. JobsMove
  BY DEF JobsMove
<1>2. ASSUME NEW k \in Jobs PROVE JobInv(k)'
  <2>1. JobInv(k)
    BY DEF TitlesInv
  <2> QED BY <2>1 DEF JobInv, CollectInv, ReadInv, Stored, Live, WholeReply
<1> QED BY <1>1, <1>2

\* A step of one worker that takes or gives back only its own lock.
LEMMA WorkerGoesOn ==
  ASSUME TitlesInv, TypeOK', UNCHANGED <<sessions, replies, applied>>,
         faults' \in {faults, faults + 1}, JobsMove, \A k \in Jobs : JobInv(k)',
         NEW w \in Workers, \A v \in Workers \ {w} : workers'[v] = workers[v], WorkerInv(w)',
         \A s \in Sessions : lock'[s] = w => workers'[w].pc \in Holding /\ workers'[w].session = s,
         \A s \in Sessions : lock'[s] # lock[s] => lock[s] \in {w, NoWorker} /\ lock'[s] \in {w, NoWorker},
         workers[w].pc = "enqueue" =>
           \/ faults' > 0
           \/ workers'[w].pc = "enqueue" /\ workers'[w].reply = workers[w].reply /\ lock' = lock
  PROVE  TitlesInv'
<1>1. RepliesGrow
  BY DEF RepliesGrow, WholeReply
<1>2. ASSUME NEW v \in Workers PROVE WorkerInv(v)'
  <2>1. CASE v = w
    BY <2>1
  <2>2. CASE v # w
    <3>1. v # NoWorker
      BY TitleBounds
    <3>2. ASSUME workers[v].pc \in Holding PROVE Undisturbed(workers[v].session)
      <4>1. PICK s : s = workers[v].session
        OBVIOUS
      <4>2. s \in Sessions /\ lock[s] = v
        BY <3>2, <4>1 DEF TitlesInv, WorkerInv
      <4>3. lock'[s] = lock[s]
        BY <2>2, <3>1, <4>2
      <4> QED BY <4>1, <4>3 DEF Undisturbed, JobsMove
    <3>3. workers'[v] = workers[v]
      BY <2>2
    <3> QED BY <1>1, <3>2, <3>3, WorkerKept
  <2> QED BY <2>1, <2>2
<1>3. ASSUME NEW s \in Sessions PROVE LockInv(s)'
  <2>1. lock[s] \in Workers \cup {NoWorker} /\ LockInv(s)
    BY DEF TitlesInv, TypeOK
  <2>2. CASE lock'[s] = w
    BY <2>2 DEF LockInv
  <2>3. CASE lock'[s] # w
    <3>1. lock'[s] = NoWorker \/ lock'[s] = lock[s]
      BY <2>3
    <3> QED BY <2>1, <2>3, <3>1 DEF LockInv
  <2> QED BY <2>2, <2>3
<1>4. ASSUME NEW s \in Sessions PROVE ClaimInv(s)'
  <2>1. \A l \in Jobs : jobs[l].session = s /\ jobs[l].reply # 0 =>
           jobs'[l].session = s /\ jobs'[l].reply = jobs[l].reply
    BY DEF JobsMove
  <2>2. \A v \in Workers : lock[s] = v /\ workers[v].pc = "enqueue" =>
           \/ lock'[s] = v /\ workers'[v].pc = "enqueue" /\ workers'[v].reply = workers[v].reply
           \/ faults' > 0
    <3> SUFFICES ASSUME NEW v \in Workers, lock[s] = v, workers[v].pc = "enqueue", ~(faults' > 0)
                 PROVE  lock'[s] = v /\ workers'[v].pc = "enqueue" /\ workers'[v].reply = workers[v].reply
      OBVIOUS
    <3>1. CASE v = w
      BY <3>1
    <3>2. CASE v # w
      <4>1. lock'[s] = lock[s]
        BY <3>2, TitleBounds
      <4> QED BY <3>2, <4>1
    <3> QED BY <3>1, <3>2
  <2> QED BY <2>1, <2>2, ClaimKept
<1> QED BY <1>2, <1>3, <1>4, SessionsLeftAlone

\* One row of the workers is written.
LEMMA WorkerWritten ==
  ASSUME TypeOK, NEW w \in Workers, NEW row, workers' = [workers EXCEPT ![w] = row]
  PROVE  workers'[w] = row /\ \A v \in Workers \ {w} : workers'[v] = workers[v]
BY DEF TypeOK

\* A worker without a lock is nobody's holder.
LEMMA FreeWorker ==
  ASSUME TitlesInv, NEW w \in Workers, workers[w].pc \notin Holding, NEW s \in Sessions
  PROVE  lock[s] # w
BY TitleBounds DEF TitlesInv, LockInv

LEMMA TickKeeps ==
  ASSUME TitlesInv, TypeOK', NEW w \in Workers, Tick(w)
  PROVE  TitlesInv'
<1>1. UNCHANGED <<sessions, replies, jobs, applied, lock, faults>> /\ TypeOK
  BY DEF Tick, TitlesInv
<1>2. PICK old, batch :
        /\ old = workers[w]
        /\ workers' = [workers EXCEPT ![w].pc = IF batch = {} THEN "idle" ELSE "lock",
                                      ![w].todo = batch]
  BY DEF Tick
<1>3. old \in Worker /\ old.phase = "up" /\ old.pc = "idle"
  BY <1>1, <1>2 DEF Tick, TypeOK
<1>4. PICK pc : pc = IF batch = {} THEN "idle" ELSE "lock"
  OBVIOUS
<1>5. PICK row : row = [old EXCEPT !.pc = pc, !.todo = batch]
  OBVIOUS
<1>6. workers' = [workers EXCEPT ![w].pc = pc, ![w].todo = batch]
  BY <1>2, <1>4
<1>7. workers' = [workers EXCEPT ![w] = row]
  BY <1>1, <1>2, <1>5, <1>6 DEF TypeOK
<1>8. row.phase = "up" /\ row.pc = pc /\ row.todo = batch
  BY <1>3, <1>5 DEF Worker
<1>9. workers'[w] = row /\ \A v \in Workers \ {w} : workers'[v] = workers[v]
  BY <1>1, <1>7, WorkerWritten
<1>10. WorkerInv(w)'
  BY <1>4, <1>8, <1>9 DEF WorkerInv, Holding
<1>11. \A s \in Sessions : lock'[s] # w
  BY <1>1, <1>2, <1>3, FreeWorker DEF Holding
<1>12. JobsMove /\ \A k \in Jobs : JobInv(k)'
  BY <1>1, JobsUnmoved
<1> QED BY <1>1, <1>2, <1>3, <1>9, <1>10, <1>11, <1>12, WorkerGoesOn

LEMMA StopWorkerKeeps ==
  ASSUME TitlesInv, TypeOK', NEW w \in Workers, StopWorker(w)
  PROVE  TitlesInv'
<1>1. /\ UNCHANGED <<sessions, replies, jobs, applied, lock>> /\ TypeOK
      /\ faults' \in {faults, faults + 1} /\ WorkerInv(w)
  BY DEF StopWorker, Fault, TitlesInv
<1>2. PICK old : old = workers[w]
  OBVIOUS
<1>3. old \in Worker /\ old.phase = "up"
  BY <1>1, <1>2 DEF StopWorker, TypeOK
<1>4. PICK row : row = [old EXCEPT !.phase = "stopping"]
  OBVIOUS
<1>5. workers' = [workers EXCEPT ![w] = row]
  BY <1>1, <1>2, <1>4 DEF TypeOK, StopWorker
<1>6. /\ row.phase = "stopping" /\ row.pc = old.pc /\ row.todo = old.todo
      /\ row.session = old.session /\ row.reply = old.reply
  BY <1>3, <1>4 DEF Worker
<1>7. workers'[w] = row /\ \A v \in Workers \ {w} : workers'[v] = workers[v]
  BY <1>1, <1>5, WorkerWritten
<1>8. WorkerInv(w)'
  BY <1>1, <1>2, <1>6, <1>7 DEF WorkerInv, Holding, WholeReply
<1>9. \A s \in Sessions : lock'[s] = w => workers'[w].pc \in Holding /\ workers'[w].session = s
  BY <1>1, <1>2, <1>6, <1>7, TitleBounds DEF TitlesInv, LockInv
<1>10. JobsMove /\ \A k \in Jobs : JobInv(k)'
  BY <1>1, JobsUnmoved
<1>11. workers[w].pc = "enqueue" =>
         workers'[w].pc = "enqueue" /\ workers'[w].reply = workers[w].reply /\ lock' = lock
  BY <1>1, <1>2, <1>6, <1>7
<1> QED BY <1>1, <1>7, <1>8, <1>9, <1>10, <1>11, WorkerGoesOn

LEMMA TryLockKeeps ==
  ASSUME TitlesInv, TypeOK', NEW w \in Workers, TryLock(w)
  PROVE  TitlesInv'
<1>1. UNCHANGED <<sessions, replies, jobs, applied, faults>> /\ TypeOK /\ workers[w].pc = "lock"
  BY DEF TryLock, TitlesInv
<1>2. PICK old, s, rest : old = workers[w] /\ s = Min(old.todo) /\ rest = old.todo \ {s}
  OBVIOUS
<1>3. old \in Worker /\ old.pc = "lock" /\ old.todo # {} /\ old.todo \in SUBSET Sessions
  BY <1>1, <1>2 DEF TitlesInv, WorkerInv, TypeOK, Worker
<1>4. s \in old.todo /\ s \in Sessions
  <2>1. old.todo \in SUBSET Nat
    BY <1>3 DEF Sessions
  <2> QED BY <1>2, <1>3, <2>1, MinIsSmallest
<1>5. JobsMove /\ \A k \in Jobs : JobInv(k)'
  BY <1>1, JobsUnmoved
<1>6. \A t \in Sessions : lock[t] # w
  BY <1>1, FreeWorker DEF Holding
<1>7. \/ /\ old.phase = "stopping"
         /\ workers' = [workers EXCEPT ![w].pc = "idle", ![w].todo = {}]
         /\ UNCHANGED lock
      \/ /\ old.phase = "up" /\ lock[s] = NoWorker
         /\ lock' = [lock EXCEPT ![s] = w]
         /\ workers' = [workers EXCEPT ![w].pc = "read", ![w].todo = rest, ![w].session = s]
      \/ /\ old.phase = "up" /\ lock[s] # NoWorker
         /\ workers' = [workers EXCEPT ![w].pc = IF rest = {} THEN "idle" ELSE "lock",
                                       ![w].todo = rest]
         /\ UNCHANGED lock
  BY <1>2 DEF TryLock
<1>8. ASSUME NEW pc \in {"idle", "lock"}, NEW todo, pc = "lock" => todo # {},
             workers' = [workers EXCEPT ![w].pc = pc, ![w].todo = todo], UNCHANGED lock
      PROVE  TitlesInv'
  <2>1. PICK row : row = [old EXCEPT !.pc = pc, !.todo = todo]
    OBVIOUS
  <2>2. workers' = [workers EXCEPT ![w] = row]
    BY <1>1, <1>2, <1>8, <2>1 DEF TypeOK
  <2>3. row.phase = old.phase /\ row.pc = pc /\ row.todo = todo
    BY <1>3, <2>1 DEF Worker
  <2>4. workers'[w] = row /\ \A v \in Workers \ {w} : workers'[v] = workers[v]
    BY <1>1, <2>2, WorkerWritten
  <2>5. old.phase \notin {"down", "unused"}
    BY <1>1, <1>2 DEF TitlesInv, WorkerInv
  <2>6. WorkerInv(w)'
    BY <1>8, <2>3, <2>4, <2>5 DEF WorkerInv, Holding
  <2> QED BY <1>1, <1>5, <1>6, <1>8, <2>4, <2>6, WorkerGoesOn
<1>9. ASSUME old.phase = "up", lock[s] = NoWorker, lock' = [lock EXCEPT ![s] = w],
             workers' = [workers EXCEPT ![w].pc = "read", ![w].todo = rest, ![w].session = s]
      PROVE  TitlesInv'
  <2>1. PICK mid : mid = [workers EXCEPT ![w].pc = "read", ![w].todo = rest]
    OBVIOUS
  <2>2. mid = [workers EXCEPT ![w] = [old EXCEPT !.pc = "read", !.todo = rest]]
    BY <1>1, <1>2, <2>1 DEF TypeOK
  <2>3. workers' = [mid EXCEPT ![w].session = s]
    BY <1>9, <2>1
  <2>4. PICK row : row = [old EXCEPT !.pc = "read", !.todo = rest]
    OBVIOUS
  <2>5. mid[w] = row /\ DOMAIN mid = Workers /\ \A v \in Workers \ {w} : mid[v] = workers[v]
    BY <1>1, <2>2, <2>4 DEF TypeOK
  <2>6. row \in [phase : {"up"}, pc : {"read"}, todo : {rest}, session : Sessions \cup {0},
                 reply : Replies \cup {0}]
    BY <1>3, <1>9, <2>4 DEF Worker
  <2>7. workers'[w] = [row EXCEPT !.session = s] /\ \A v \in Workers \ {w} : workers'[v] = workers[v]
    BY <2>3, <2>5
  <2>8. workers'[w].phase = "up" /\ workers'[w].pc = "read" /\ workers'[w].session = s
    BY <2>6, <2>7
  <2>9. lock \in [Sessions -> Workers \cup {NoWorker}]
    BY <1>1 DEF TypeOK
  <2>10. lock'[s] = w /\ \A t \in Sessions \ {s} : lock'[t] = lock[t]
    BY <1>4, <1>9, <2>9
  <2>11. WorkerInv(w)'
    BY <1>4, <2>8, <2>10 DEF WorkerInv, Holding
  <2>12. \A t \in Sessions : lock'[t] = w => workers'[w].pc \in Holding /\ workers'[w].session = t
    BY <1>6, <2>8, <2>10 DEF Holding
  <2>13. \A t \in Sessions : lock'[t] # lock[t] => lock[t] \in {w, NoWorker} /\ lock'[t] \in {w, NoWorker}
    BY <1>9, <2>10
  <2> QED BY <1>1, <1>5, <2>7, <2>11, <2>12, <2>13, WorkerGoesOn
<1>10. CASE /\ old.phase = "stopping"
            /\ workers' = [workers EXCEPT ![w].pc = "idle", ![w].todo = {}]
            /\ UNCHANGED lock
  BY <1>8, <1>10
<1>11. CASE /\ old.phase = "up" /\ lock[s] # NoWorker
            /\ workers' = [workers EXCEPT ![w].pc = IF rest = {} THEN "idle" ELSE "lock",
                                          ![w].todo = rest]
            /\ UNCHANGED lock
  <2>1. PICK pc : pc = IF rest = {} THEN "idle" ELSE "lock"
    OBVIOUS
  <2>2. pc \in {"idle", "lock"} /\ (pc = "lock" => rest # {})
    BY <2>1
  <2>3. workers' = [workers EXCEPT ![w].pc = pc, ![w].todo = rest]
    BY <1>11, <2>1
  <2> QED BY <1>8, <1>11, <2>2, <2>3
<1> QED BY <1>7, <1>9, <1>10, <1>11

\* What claimLatest reads: the newest whole reply, not tried, and no active job.
LEMMA ReadClaimKeeps ==
  ASSUME TitlesInv, TypeOK', NEW w \in Workers, ReadClaim(w)
  PROVE  TitlesInv'
<1>1. UNCHANGED <<sessions, replies, jobs, applied, lock, faults>> /\ TypeOK
  BY DEF ReadClaim, TitlesInv
<1>2. PICK old, s : old = workers[w] /\ s = old.session
  OBVIOUS
<1>3. /\ old \in Worker /\ old.pc = "read" /\ s \in Sessions /\ lock[s] = w
      /\ old.phase \notin {"down", "unused"}
  BY <1>1, <1>2 DEF ReadClaim, TitlesInv, WorkerInv, TypeOK, Holding
<1>4. JobsMove /\ \A k \in Jobs : JobInv(k)'
  BY <1>1, JobsUnmoved
<1>5. ASSUME NEW row, workers' = [workers EXCEPT ![w] = row], row.phase = old.phase,
             row.session = s, row.pc \in {"write", "unlock"},
             row.pc = "write" => /\ WholeReply(row.reply, s)
                                 /\ \A k \in Jobs : jobs[k].session = s => jobs[k].status \notin ActiveStatus
      PROVE  TitlesInv'
  <2>1. workers'[w] = row /\ \A v \in Workers \ {w} : workers'[v] = workers[v]
    BY <1>1, <1>5, WorkerWritten
  <2>2. WorkerInv(w)'
    BY <1>1, <1>3, <1>5, <2>1 DEF WorkerInv, Holding, WholeReply
  <2>3. \A t \in Sessions : lock'[t] = w => workers'[w].pc \in Holding /\ workers'[w].session = t
    BY <1>1, <1>2, <1>5, <2>1, TitleBounds DEF TitlesInv, LockInv, Holding
  <2> QED BY <1>1, <1>2, <1>3, <1>4, <2>1, <2>2, <2>3, WorkerGoesOn
<1>6. CASE Claimable(s)
  <2>1. PICK m : m = sessions[s].eligible
    OBVIOUS
  <2>2. workers' = [workers EXCEPT ![w].pc = "write", ![w].reply = m]
    BY <1>2, <1>6, <2>1 DEF ReadClaim
  <2>3. PICK row : row = [old EXCEPT !.pc = "write", !.reply = m]
    OBVIOUS
  <2>4. workers' = [workers EXCEPT ![w] = row]
    BY <1>1, <1>2, <2>2, <2>3 DEF TypeOK
  <2>5. row.phase = old.phase /\ row.pc = "write" /\ row.session = s /\ row.reply = m
    BY <1>2, <1>3, <2>3 DEF Worker
  <2>6. WholeReply(m, s)
    <3>1. sessions[s] \in SessionRow /\ sessions[s].eligible > sessions[s].attempted
      BY <1>1, <1>3, <1>6 DEF TypeOK, Claimable
    <3>2. sessions[s].eligible # 0
      BY <3>1 DEF SessionRow, Replies
    <3> QED BY <1>3, <2>1, <3>2 DEF TitlesInv, SessionInv
  <2>7. \A k \in Jobs : jobs[k].session = s => jobs[k].status \notin ActiveStatus
    BY <1>6 DEF Claimable, ActiveJobs, ActiveStatus
  <2> QED BY <1>5, <2>4, <2>5, <2>6, <2>7
<1>7. CASE ~Claimable(s)
  <2>1. PICK row : row = [old EXCEPT !.pc = "unlock"]
    OBVIOUS
  <2>2. workers' = [workers EXCEPT ![w] = row]
    BY <1>1, <1>2, <1>7, <2>1 DEF TypeOK, ReadClaim
  <2>3. row.phase = old.phase /\ row.pc = "unlock" /\ row.session = s
    BY <1>2, <1>3, <2>1 DEF Worker
  <2> QED BY <1>5, <2>2, <2>3
<1> QED BY <1>6, <1>7

\* The holder gives its lock back.
LEMMA UnlockKeeps ==
  ASSUME TitlesInv, TypeOK', NEW w \in Workers, Unlock(w)
  PROVE  TitlesInv'
<1>1. UNCHANGED <<sessions, replies, jobs, applied, faults>> /\ TypeOK
  BY DEF Unlock, TitlesInv
<1>2. PICK old, s : old = workers[w] /\ s = old.session
  OBVIOUS
<1>3. /\ old \in Worker /\ old.pc = "unlock" /\ s \in Sessions /\ lock[s] = w
      /\ old.phase \notin {"down", "unused"}
  BY <1>1, <1>2 DEF Unlock, TitlesInv, WorkerInv, TypeOK, Holding
<1>4. JobsMove /\ \A k \in Jobs : JobInv(k)'
  BY <1>1, JobsUnmoved
<1>5. PICK pc : pc = IF old.todo = {} THEN "idle" ELSE "lock"
  OBVIOUS
<1>6. workers' = [workers EXCEPT ![w].pc = pc, ![w].session = 0, ![w].reply = 0]
  BY <1>2, <1>5 DEF Unlock, NextCandidate
<1>7. /\ workers'[w].phase = old.phase /\ workers'[w].pc = pc /\ workers'[w].todo = old.todo
      /\ \A v \in Workers \ {w} : workers'[v] = workers[v]
  <2>1. PICK mid : mid = [workers EXCEPT ![w].pc = pc, ![w].session = 0]
    OBVIOUS
  <2>2. PICK row : row = [old EXCEPT !.pc = pc, !.session = 0]
    OBVIOUS
  <2>3. mid = [workers EXCEPT ![w] = row]
    BY <1>1, <1>2, <2>1, <2>2 DEF TypeOK
  <2>4. mid[w] = row /\ DOMAIN mid = Workers /\ \A v \in Workers \ {w} : mid[v] = workers[v]
    BY <1>1, <2>3 DEF TypeOK
  <2>5. workers' = [mid EXCEPT ![w].reply = 0]
    BY <1>6, <2>1
  <2>6. workers'[w] = [row EXCEPT !.reply = 0] /\ \A v \in Workers \ {w} : workers'[v] = workers[v]
    BY <2>4, <2>5
  <2>7. row \in [phase : {old.phase}, pc : {pc}, todo : {old.todo}, session : {0},
                 reply : Replies \cup {0}]
    BY <1>3, <2>2 DEF Worker
  <2> QED BY <2>6, <2>7
<1>8. lock' = [lock EXCEPT ![s] = NoWorker] /\ lock \in [Sessions -> Workers \cup {NoWorker}]
  BY <1>1, <1>2 DEF Unlock, TypeOK
<1>9. lock'[s] = NoWorker /\ \A t \in Sessions \ {s} : lock'[t] = lock[t]
  BY <1>3, <1>8
<1>10. \A t \in Sessions : lock'[t] # w
  <2>1. \A t \in Sessions \ {s} : lock[t] # w
    BY <1>2, TitleBounds DEF TitlesInv, LockInv
  <2> QED BY <1>9, <2>1, TitleBounds
<1>11. WorkerInv(w)'
  BY <1>3, <1>5, <1>7 DEF WorkerInv, Holding
<1>12. \A t \in Sessions : lock'[t] # lock[t] => lock[t] \in {w, NoWorker} /\ lock'[t] \in {w, NoWorker}
  BY <1>3, <1>9
<1> QED BY <1>1, <1>2, <1>3, <1>4, <1>7, <1>10, <1>11, <1>12, WorkerGoesOn

\* The attempt is recorded: the claimed reply is newer than any that was tried.
LEMMA WriteClaimKeeps ==
  ASSUME TitlesInv, TypeOK', NEW w \in Workers, WriteClaim(w)
  PROVE  TitlesInv'
<1>1. UNCHANGED <<archived, replies, lock, jobs, applied, faults>> /\ TypeOK
  BY DEF WriteClaim, TitlesInv
<1>2. PICK old, s, m : old = workers[w] /\ s = old.session /\ m = old.reply
  OBVIOUS
<1>3. /\ old \in Worker /\ old.pc = "write" /\ s \in Sessions /\ lock[s] = w
      /\ old.phase \notin {"down", "unused"} /\ WholeReply(m, s)
      /\ \A k \in Jobs : jobs[k].session = s => jobs[k].status \notin ActiveStatus
  BY <1>1, <1>2 DEF WriteClaim, TitlesInv, WorkerInv, TypeOK, Holding
<1>4. ASSUME NEW pc \in {"enqueue", "unlock"}, Go(w, pc)
      PROVE  /\ workers'[w].phase = old.phase /\ workers'[w].pc = pc
             /\ workers'[w].session = s /\ workers'[w].reply = m
             /\ \A v \in Workers \ {w} : workers'[v] = workers[v]
  <2>1. PICK row : row = [old EXCEPT !.pc = pc]
    OBVIOUS
  <2>2. workers' = [workers EXCEPT ![w] = row]
    BY <1>1, <1>2, <1>4, <2>1 DEF TypeOK, Go
  <2>3. row.phase = old.phase /\ row.pc = pc /\ row.session = s /\ row.reply = m
    BY <1>2, <1>3, <2>1 DEF Worker
  <2> QED BY <1>1, <2>2, <2>3, WorkerWritten
<1>5. CASE ~StillLatest(sessions[s], m)
  <2>1. UNCHANGED sessions /\ Go(w, "unlock")
    BY <1>2, <1>5 DEF WriteClaim
  <2>2. /\ workers'[w].phase = old.phase /\ workers'[w].pc = "unlock" /\ workers'[w].session = s
        /\ \A v \in Workers \ {w} : workers'[v] = workers[v]
    BY <1>4, <2>1
  <2>3. WorkerInv(w)'
    BY <1>1, <1>3, <2>2 DEF WorkerInv, Holding
  <2>4. \A t \in Sessions : lock'[t] = w => workers'[w].pc \in Holding /\ workers'[w].session = t
    BY <1>1, <1>2, <2>2, TitleBounds DEF TitlesInv, LockInv, Holding
  <2>5. JobsMove /\ \A k \in Jobs : JobInv(k)'
    BY <1>1, <2>1, JobsUnmoved
  <2> QED BY <1>1, <1>2, <1>3, <2>1, <2>2, <2>3, <2>4, <2>5, WorkerGoesOn
<1>6. CASE StillLatest(sessions[s], m)
  <2>1. sessions' = [sessions EXCEPT ![s].attempted = m] /\ Go(w, "enqueue")
    BY <1>2, <1>6 DEF WriteClaim
  <2>2. /\ workers'[w].phase = old.phase /\ workers'[w].pc = "enqueue"
        /\ workers'[w].session = s /\ workers'[w].reply = m
        /\ \A v \in Workers \ {w} : workers'[v] = workers[v]
    BY <1>4, <2>1
  <2>3. /\ sessions \in [Sessions -> SessionRow] /\ sessions' \in [Sessions -> SessionRow]
        /\ sessions[s].attempted < m /\ m \in Nat /\ sessions[s].attempted \in Nat
    BY <1>1, <1>3, <1>6 DEF TypeOK, StillLatest, WholeReply, Replies, SessionRow
  <2>4. /\ sessions'[s].attempted = m
        /\ \A t \in Sessions : /\ sessions'[t].source = sessions[t].source
                               /\ sessions'[t].eligible = sessions[t].eligible
                               /\ t # s => sessions'[t] = sessions[t]
    <3>1. sessions'[s] = [sessions[s] EXCEPT !.attempted = m] /\ sessions[s] \in SessionRow
      BY <1>3, <2>1, <2>3
    <3>2. /\ sessions'[s].source = sessions[s].source /\ sessions'[s].eligible = sessions[s].eligible
          /\ sessions'[s].attempted = m
      BY <3>1 DEF SessionRow
    <3> QED BY <1>3, <2>1, <2>3, <3>2
  <2>5. RepliesGrow /\ LiveShrinks /\ JobsMove
    BY <1>1, <2>4 DEF RepliesGrow, WholeReply, LiveShrinks, Live, JobsMove
  <2>6. \A k \in Jobs : jobs[k].session = s => jobs[k].reply < m
    <3> SUFFICES ASSUME NEW k \in Jobs, jobs[k].session = s PROVE jobs[k].reply < m
      OBVIOUS
    <3>1. JobInv(k)
      BY DEF TitlesInv
    <3>2. s # 0
      BY <1>3 DEF Sessions
    <3>3. jobs[k].status # "NONE" /\ jobs[k].reply <= sessions[s].attempted
      BY <3>1, <3>2 DEF JobInv
    <3>4. jobs[k].reply \in Nat
      BY <3>1, <3>3 DEF JobInv, WholeReply, Replies
    <3> QED BY <2>3, <3>3, <3>4
  <2>7. ASSUME NEW v \in Workers PROVE WorkerInv(v)'
    <3>1. CASE v = w
      <4>1. WholeReply(m, s)'
        BY <1>3, <2>5 DEF RepliesGrow
      <4> QED BY <1>1, <1>3, <2>2, <2>4, <2>6, <3>1, <4>1 DEF WorkerInv, Holding, WholeReply
    <3>2. CASE v # w
      <4>1. ASSUME workers[v].pc \in Holding PROVE Undisturbed(workers[v].session)
        <5>1. workers[v].session # s /\ workers[v].session \in Sessions
          BY <1>2, <1>3, <3>2, <4>1, OneHolder DEF Holding, TitlesInv, WorkerInv
        <5> QED BY <1>1, <2>4, <5>1 DEF Undisturbed
      <4> QED BY <2>2, <2>5, <3>2, <4>1, WorkerKept
    <3> QED BY <3>1, <3>2
  <2>8. ASSUME NEW t \in Sessions PROVE LockInv(t)'
    <3>1. LockInv(t) /\ lock[t] \in Workers \cup {NoWorker}
      BY <1>1 DEF TitlesInv, TypeOK
    <3>2. CASE lock[t] = w
      <4>1. t = s
        BY <1>2, <3>1, <3>2, TitleBounds DEF LockInv
      <4> QED BY <1>1, <2>2, <3>2, <4>1 DEF LockInv, Holding
    <3>3. CASE lock[t] # w
      BY <1>1, <2>2, <3>1, <3>3 DEF LockInv
    <3> QED BY <3>2, <3>3
  <2>9. ASSUME NEW t \in Sessions PROVE SessionInv(t)' /\ TitleInv(t)'
    <3>1. SessionInv(t)'
      BY <1>1, <2>4, SessionKept
    <3>2. TitleInv(t)'
      BY <1>1, <2>4, TitleKept
    <3> QED BY <3>1, <3>2
  <2>10. ASSUME NEW t \in Sessions PROVE ClaimInv(t)'
    <3>1. CASE t = s
      BY <1>1, <1>3, <2>2, <2>4, <3>1 DEF ClaimInv
    <3>2. CASE t # s
      <4>1. \A v \in Workers : lock[t] = v /\ workers[v].pc = "enqueue" =>
              lock'[t] = v /\ workers'[v].pc = "enqueue" /\ workers'[v].reply = workers[v].reply
        BY <1>1, <1>2, <1>3, <2>2
      <4> QED BY <1>1, <2>4, <3>2, <4>1, ClaimKept
    <3> QED BY <3>1, <3>2
  <2>11. ASSUME NEW k \in Jobs PROVE JobInv(k)'
    <3>1. PICK now : now = jobs[k] /\ now = jobs'[k]
      BY <1>1
    <3>2. JobInv(k) /\ now \in Job
      BY <1>1, <3>1 DEF TitlesInv, TypeOK
    <3>3. now.status # "NONE" =>
            sessions'[now.session].attempted >= sessions[now.session].attempted
      <4> SUFFICES ASSUME now.status # "NONE"
                   PROVE  sessions'[now.session].attempted >= sessions[now.session].attempted
        OBVIOUS
      <4>1. now.session \in Sessions
        BY <3>1, <3>2 DEF JobInv
      <4>2. sessions[now.session].attempted \in Nat
        BY <2>3, <4>1 DEF SessionRow, Replies
      <4> QED BY <2>3, <2>4, <4>1, <4>2
    <3>4. now.pc \notin {"finish", "over"} => now.outcome = "none"
      BY <3>1, <3>2 DEF JobInv
    <3>5. now.outcome = "APPLIED" => applied'[now.session] = k
      BY <1>1, <3>1, <3>2 DEF JobInv
    <3> QED BY <2>3, <2>5, <3>1, <3>2, <3>3, <3>4, <3>5, JobKept
  <2>12. JobsInv'
    BY <2>5, JobsKept
  <2> QED BY <2>7, <2>8, <2>9, <2>10, <2>11, <2>12 DEF TitlesInv
<1> QED BY <1>5, <1>6

\* The claimed reply gets its job, failed at once where its message was not sent.
LEMMA EnqueueKeeps ==
  ASSUME TitlesInv, TypeOK', NEW w \in Workers, EnqueueTitle(w) \/ EnqueueFails(w)
  PROVE  TitlesInv'
<1>1. /\ UNCHANGED <<sessions, archived, replies, lock, applied>> /\ TypeOK
      /\ faults' \in {faults, faults + 1} /\ Go(w, "unlock") /\ workers[w].pc = "enqueue"
  BY DEF EnqueueTitle, EnqueueFails, Fault, TitlesInv
<1>2. PICK old, s, m : old = workers[w] /\ s = old.session /\ m = old.reply
  OBVIOUS
<1>3. /\ old \in Worker /\ old.pc = "enqueue" /\ s \in Sessions /\ lock[s] = w
      /\ old.phase \notin {"down", "unused"} /\ WholeReply(m, s)
      /\ \A k \in Jobs : jobs[k].session = s => jobs[k].status \notin ActiveStatus
      /\ sessions[s].attempted = m
      /\ \A k \in Jobs : jobs[k].session = s => jobs[k].reply < m
  BY <1>1, <1>2 DEF TitlesInv, WorkerInv, TypeOK, Holding
<1>4. PICK k \in Jobs, status \in {"QUEUED", "FAILED"} :
        /\ jobs[k].status = "NONE" /\ \A i \in 1..(k - 1) : jobs[i].status # "NONE"
        /\ jobs' = [jobs EXCEPT ![k] = [NoJob EXCEPT !.status = status, !.reply = m, !.session = s]]
  BY <1>2 DEF EnqueueTitle, EnqueueFails, NewJob
<1>5. PICK row : row = [NoJob EXCEPT !.status = status, !.reply = m, !.session = s]
  OBVIOUS
<1>6. row = [status |-> status, session |-> s, reply |-> m, pc |-> "waiting", worker |-> NoWorker,
             aborted |-> FALSE, pairs |-> {}, known |-> {}, before |-> MaxReplies + 1,
             outcome |-> "none"]
  <2>1. PICK a : a = [NoJob EXCEPT !.status = status]
    OBVIOUS
  <2>2. PICK b : b = [a EXCEPT !.reply = m]
    OBVIOUS
  <2>3. row = [b EXCEPT !.session = s]
    BY <1>5, <2>1, <2>2
  <2>4. a = [status |-> status, session |-> 0, reply |-> 0, pc |-> "waiting", worker |-> NoWorker,
             aborted |-> FALSE, pairs |-> {}, known |-> {}, before |-> MaxReplies + 1,
             outcome |-> "none"]
    BY <2>1 DEF NoJob
  <2>5. b = [status |-> status, session |-> 0, reply |-> m, pc |-> "waiting", worker |-> NoWorker,
             aborted |-> FALSE, pairs |-> {}, known |-> {}, before |-> MaxReplies + 1,
             outcome |-> "none"]
    BY <2>2, <2>4
  <2> QED BY <2>3, <2>5
<1>7. jobs'[k] = row /\ \A l \in Jobs \ {k} : jobs'[l] = jobs[l]
  BY <1>1, <1>4, <1>5 DEF TypeOK
<1>8. /\ workers'[w].phase = old.phase /\ workers'[w].pc = "unlock" /\ workers'[w].session = s
      /\ \A v \in Workers \ {w} : workers'[v] = workers[v]
  <2>1. PICK now : now = [old EXCEPT !.pc = "unlock"]
    OBVIOUS
  <2>2. workers' = [workers EXCEPT ![w] = now]
    BY <1>1, <1>2, <2>1 DEF TypeOK, Go
  <2>3. now.phase = old.phase /\ now.pc = "unlock" /\ now.session = s
    BY <1>2, <1>3, <2>1 DEF Worker
  <2> QED BY <1>1, <2>2, <2>3, WorkerWritten
<1>9. /\ s # 0 /\ m # 0 /\ \A l \in Jobs : l \in Nat
      /\ jobs[k].session = 0 /\ jobs[k].reply = 0 /\ jobs[k].outcome = "none"
  BY <1>3, <1>4 DEF Sessions, Replies, Jobs, WholeReply, TitlesInv, JobInv
<1>10. RepliesGrow
  BY <1>1 DEF RepliesGrow, WholeReply
<1>11. ASSUME NEW v \in Workers PROVE WorkerInv(v)'
  <2>1. CASE v = w
    BY <1>1, <1>3, <1>8, <2>1 DEF WorkerInv, Holding
  <2>2. CASE v # w
    <3>1. ASSUME workers[v].pc \in Holding PROVE Undisturbed(workers[v].session)
      <4>1. workers[v].session # s
        BY <1>2, <1>3, <2>2, <3>1, OneHolder DEF Holding
      <4> QED BY <1>1, <1>6, <1>7, <4>1 DEF Undisturbed
    <3> QED BY <1>8, <1>10, <2>2, <3>1, WorkerKept
  <2> QED BY <2>1, <2>2
<1>12. ASSUME NEW t \in Sessions PROVE LockInv(t)'
  <2>1. LockInv(t) /\ lock[t] \in Workers \cup {NoWorker}
    BY <1>1 DEF TitlesInv, TypeOK
  <2>2. CASE lock[t] = w
    <3>1. t = s
      BY <1>2, <2>1, <2>2, TitleBounds DEF LockInv
    <3> QED BY <1>1, <1>8, <2>2, <3>1 DEF LockInv, Holding
  <2>3. CASE lock[t] # w
    BY <1>1, <1>8, <2>1, <2>3 DEF LockInv
  <2> QED BY <2>2, <2>3
<1>13. ASSUME NEW t \in Sessions PROVE SessionInv(t)' /\ TitleInv(t)'
  <2>1. SessionInv(t)'
    BY <1>1, SessionKept
  <2>2. \A l \in Jobs : jobs[l].outcome = "APPLIED" =>
           jobs'[l].session = jobs[l].session /\ jobs'[l].outcome = "APPLIED"
    BY <1>7, <1>9
  <2>3. TitleInv(t)'
    BY <1>1, <2>2, TitleKept
  <2> QED BY <2>1, <2>3
<1>14. ASSUME NEW t \in Sessions PROVE ClaimInv(t)'
  <2>1. CASE t = s
    BY <1>1, <1>3, <1>6, <1>7, <2>1 DEF ClaimInv
  <2>2. CASE t # s
    <3>1. \A v \in Workers : lock[t] = v /\ workers[v].pc = "enqueue" =>
            lock'[t] = v /\ workers'[v].pc = "enqueue" /\ workers'[v].reply = workers[v].reply
      <4> SUFFICES ASSUME NEW v \in Workers, lock[t] = v, workers[v].pc = "enqueue"
                   PROVE  lock'[t] = v /\ workers'[v].pc = "enqueue" /\ workers'[v].reply = workers[v].reply
        OBVIOUS
      <4>1. v # w
        BY <1>2, <2>2, TitleBounds DEF TitlesInv, LockInv
      <4> QED BY <1>1, <1>8, <4>1
    <3>2. \A l \in Jobs : jobs[l].session = t /\ jobs[l].reply # 0 =>
            jobs'[l].session = t /\ jobs'[l].reply = jobs[l].reply
      BY <1>7, <1>9
    <3> QED BY <1>1, <3>1, <3>2, ClaimKept
  <2> QED BY <2>1, <2>2
<1>15. ASSUME NEW l \in Jobs PROVE JobInv(l)'
  <2>1. CASE l = k
    <3>1. WholeReply(m, s)'
      BY <1>3, <1>10 DEF RepliesGrow
    <3>2. m <= sessions'[s].attempted
      BY <1>1, <1>3 DEF WholeReply, Replies
    <3> QED BY <1>3, <1>6, <1>7, <2>1, <3>1, <3>2 DEF JobInv, Unread, WholeReply
  <2>2. CASE l # k
    <3>1. JobInv(l) /\ jobs'[l] = jobs[l]
      BY <1>7, <2>2 DEF TitlesInv
    <3> QED BY <1>1, <3>1 DEF JobInv, CollectInv, ReadInv, Stored, Live, WholeReply
  <2> QED BY <2>1, <2>2
<1>16. JobsInv'
  <2> SUFFICES ASSUME NEW a \in Jobs, NEW b \in Jobs
               PROVE  /\ a < b /\ jobs'[b].status # "NONE" =>
                           /\ jobs'[a].status # "NONE"
                           /\ jobs'[a].session = jobs'[b].session => jobs'[a].reply < jobs'[b].reply
                      /\ jobs'[a].session = jobs'[b].session /\ jobs'[a].status \in ActiveStatus
                         /\ jobs'[b].status \in ActiveStatus => a = b
    BY DEF JobsInv
  <2>1. JobsInv
    BY DEF TitlesInv
  <2>2. CASE a # k /\ b # k
    BY <1>7, <2>1, <2>2 DEF JobsInv
  <2>3. CASE a # k /\ b = k
    <3>1. jobs'[a] = jobs[a] /\ jobs'[b] = row
      BY <1>7, <2>3
    <3>2. a < k => jobs[a].status # "NONE"
      <4>1. a < k => a \in 1..(k - 1)
        BY DEF Jobs
      <4> QED BY <1>4, <4>1
    <3> QED BY <1>3, <1>6, <2>3, <3>1, <3>2
  <2>4. CASE a = k /\ b # k
    <3>1. jobs'[b] = jobs[b] /\ jobs'[a] = row
      BY <1>7, <2>4
    <3>2. k < b => jobs[b].status = "NONE"
      BY <1>4, <2>1 DEF JobsInv
    <3> QED BY <1>3, <1>6, <2>4, <3>1, <3>2
  <2>5. CASE a = k /\ b = k
    BY <1>9, <2>5
  <2> QED BY <2>2, <2>3, <2>4, <2>5
<1> QED BY <1>11, <1>12, <1>13, <1>14, <1>15, <1>16 DEF TitlesInv

-----------------------------------------------------------------------------
(* The worker processes.                                                   *)

\* Jobs whose runs are lost, and jobs that are swept as stale.
LEMMA JobsOfWorkers ==
  ASSUME TitlesInv, UNCHANGED <<sessions, replies, applied>>, jobs' \in [Jobs -> Job],
         \A k \in Jobs :
           \/ jobs'[k] = jobs[k]
           \/ jobs[k].worker # NoWorker /\ jobs'[k] = Over(jobs[k])
           \/ jobs[k].status = "RUNNING" /\ jobs'[k] = [jobs[k] EXCEPT !.status = "FAILED"]
  PROVE  JobsMove /\ \A k \in Jobs : JobInv(k)'
<1>1. RepliesGrow /\ LiveShrinks
  BY DEF RepliesGrow, WholeReply, LiveShrinks, Live
<1>2. ASSUME NEW k \in Jobs
      PROVE  /\ JobInv(k)'
             /\ jobs'[k].session = jobs[k].session /\ jobs'[k].reply = jobs[k].reply
             /\ jobs'[k].status = "NONE" <=> jobs[k].status = "NONE"
             /\ jobs'[k].status \in ActiveStatus => jobs[k].status \in ActiveStatus
             /\ jobs[k].outcome = "APPLIED" => jobs'[k].outcome = "APPLIED"
  <2>1. PICK old, row : old = jobs[k] /\ row = jobs'[k]
    OBVIOUS
  <2>2. JobInv(k) /\ old \in Job /\ row \in Job /\ sessions' \in [Sessions -> SessionRow]
    BY <2>1 DEF TitlesInv, TypeOK
  <2>3. /\ row.session = old.session /\ row.reply = old.reply /\ row.outcome = old.outcome
        /\ row.status = "NONE" <=> old.status = "NONE"
        /\ row.status \in ActiveStatus => old.status \in ActiveStatus
        /\ \/ row.pc = old.pc /\ row.pairs = old.pairs /\ row.known = old.known /\ row.before = old.before
           \/ row.pc = "over" /\ row.known = {}
        /\ row = old \/ row.status # "NONE"
    <3>1. CASE row = old
      BY <3>1
    <3>2. CASE old.worker # NoWorker /\ row = Over(old)
      <4>1. old.status # "NONE"
        BY <2>1, <2>2, <3>2 DEF JobInv
      <4> QED BY <2>2, <3>2, <4>1, EndedRow
    <3>3. CASE old.status = "RUNNING" /\ row = [old EXCEPT !.status = "FAILED"]
      BY <2>2, <3>3 DEF Job, ActiveStatus
    <3> QED BY <2>1, <3>1, <3>2, <3>3
  <2>4. old.status # "NONE" => sessions'[old.session].attempted >= sessions[old.session].attempted
    <3> SUFFICES ASSUME old.status # "NONE"
                 PROVE  sessions'[old.session].attempted >= sessions[old.session].attempted
      OBVIOUS
    <3>1. old.session \in Sessions
      BY <2>1, <2>2 DEF JobInv
    <3>2. sessions'[old.session].attempted \in Nat
      BY <2>2, <3>1 DEF SessionRow, Replies
    <3> QED BY <3>2
  <2>5. row.pc \notin {"finish", "over"} => row.outcome = "none"
    BY <2>1, <2>2, <2>3 DEF JobInv
  <2>6. row.outcome = "APPLIED" => applied'[row.session] = k
    BY <2>1, <2>2, <2>3 DEF JobInv
  <2>7. JobInv(k)'
    BY <1>1, <2>1, <2>2, <2>3, <2>4, <2>5, <2>6, JobKept DEF Unread
  <2> QED BY <2>1, <2>3, <2>7
<1> QED BY <1>2 DEF JobsMove

\* A worker that begins anew, idle and without a lock.
LEMMA IdleWorkerGoesOn ==
  ASSUME TitlesInv, TypeOK', UNCHANGED <<sessions, replies, applied>>,
         faults' \in {faults, faults + 1}, JobsMove, \A k \in Jobs : JobInv(k)',
         NEW w \in Workers, NEW phase, workers' = [workers EXCEPT ![w] = IdleWorker(phase)],
         \A s \in Sessions : lock'[s] = IF lock[s] = w THEN NoWorker ELSE lock[s],
         workers[w].pc = "enqueue" => faults' > 0
  PROVE  TitlesInv'
<1>1. workers'[w] = IdleWorker(phase) /\ \A v \in Workers \ {w} : workers'[v] = workers[v]
  BY WorkerWritten DEF TitlesInv
<1>2. workers'[w].pc = "idle"
  BY <1>1 DEF IdleWorker
<1>3. WorkerInv(w)'
  BY <1>2 DEF WorkerInv, Holding
<1>4. w # NoWorker
  BY TitleBounds
<1>5. /\ \A s \in Sessions : lock'[s] # w
      /\ \A s \in Sessions : lock'[s] # lock[s] => lock[s] \in {w, NoWorker} /\ lock'[s] \in {w, NoWorker}
  BY <1>4
<1> QED BY <1>1, <1>3, <1>5, WorkerGoesOn

LEMMA CloseQueueKeeps ==
  ASSUME TitlesInv, TypeOK', NEW w \in Workers, CloseQueue(w)
  PROVE  TitlesInv'
<1>1. /\ UNCHANGED <<sessions, replies, lock, applied, faults>> /\ workers[w].pc = "idle"
      /\ workers' = [workers EXCEPT ![w] = IdleWorker("down")] /\ jobs' = LoseRuns(w)
  BY DEF CloseQueue
<1>2. JobsMove /\ \A k \in Jobs : JobInv(k)'
  <2>1. \A k \in Jobs : \/ jobs'[k] = jobs[k]
                        \/ jobs[k].worker # NoWorker /\ jobs'[k] = Over(jobs[k])
    BY <1>1, TitleBounds DEF LoseRuns
  <2>2. jobs' \in [Jobs -> Job]
    BY DEF TypeOK
  <2> QED BY <1>1, <2>1, <2>2, JobsOfWorkers
<1>3. \A s \in Sessions : lock'[s] = IF lock[s] = w THEN NoWorker ELSE lock[s]
  BY <1>1, FreeWorker DEF Holding
<1> QED BY <1>1, <1>2, <1>3, IdleWorkerGoesOn

LEMMA CrashKeeps ==
  ASSUME TitlesInv, TypeOK', NEW w \in Workers, Crash(w)
  PROVE  TitlesInv'
<1>1. /\ UNCHANGED <<sessions, replies, applied>> /\ faults' = faults + 1
      /\ workers' = [workers EXCEPT ![w] = IdleWorker("down")] /\ jobs' = LoseRuns(w)
      /\ \A s \in Sessions : lock'[s] = IF lock[s] = w THEN NoWorker ELSE lock[s]
  BY DEF Crash, Fault
<1>2. JobsMove /\ \A k \in Jobs : JobInv(k)'
  <2>1. \A k \in Jobs : \/ jobs'[k] = jobs[k]
                        \/ jobs[k].worker # NoWorker /\ jobs'[k] = Over(jobs[k])
    BY <1>1, TitleBounds DEF LoseRuns
  <2>2. jobs' \in [Jobs -> Job]
    BY DEF TypeOK
  <2> QED BY <1>1, <2>1, <2>2, JobsOfWorkers
<1>3. faults' > 0
  <2>1. faults \in Nat
    BY TitleBounds DEF TitlesInv, TypeOK
  <2> QED BY <1>1, <2>1
<1> QED BY <1>1, <1>2, <1>3, IdleWorkerGoesOn

LEMMA StartWorkerKeeps ==
  ASSUME TitlesInv, TypeOK', NEW w \in Workers, StartWorker(w)
  PROVE  TitlesInv'
<1>1. /\ UNCHANGED <<sessions, replies, lock, applied, faults>> /\ workers[w].phase = "down"
      /\ workers' = [workers EXCEPT ![w] = IdleWorker("up")]
  BY DEF StartWorker
<1>2. workers[w].pc = "idle"
  BY <1>1 DEF TitlesInv, WorkerInv
<1>3. JobsMove /\ \A k \in Jobs : JobInv(k)'
  <2>1. PICK stale \in SUBSET Silent :
          jobs' = [k \in Jobs |-> IF k \in stale THEN [jobs[k] EXCEPT !.status = "FAILED"] ELSE jobs[k]]
    BY DEF StartWorker
  <2>2. \A k \in Jobs : \/ jobs'[k] = jobs[k]
                        \/ jobs[k].status = "RUNNING" /\ jobs'[k] = [jobs[k] EXCEPT !.status = "FAILED"]
    BY <2>1 DEF Silent
  <2>3. jobs' \in [Jobs -> Job]
    BY DEF TypeOK
  <2> QED BY <1>1, <2>2, <2>3, JobsOfWorkers
<1>4. \A s \in Sessions : lock'[s] = IF lock[s] = w THEN NoWorker ELSE lock[s]
  BY <1>1, <1>2, FreeWorker DEF Holding
<1> QED BY <1>1, <1>2, <1>3, <1>4, IdleWorkerGoesOn

-----------------------------------------------------------------------------
(* Every step keeps the types.                                             *)

LEMMA SessionTypes ==
  ASSUME TypeOK, NEW s \in Sessions,
         CreateSession(s) \/ RenameSession(s) \/ DeleteSession(s) \/ InsertReply(s)
  PROVE  TypeOK'
<1>1. CASE CreateSession(s) \/ RenameSession(s) \/ DeleteSession(s)
  <2>1. PICK source \in {"PLACEHOLDER", "USER", "deleted"} :
          sessions' = [sessions EXCEPT ![s].source = source]
    BY <1>1 DEF CreateSession, RenameSession, DeleteSession
  <2>2. sessions' \in [Sessions -> SessionRow]
    BY <2>1 DEF TypeOK, SessionRow
  <2>3. UNCHANGED <<archived, replies, workers, lock, jobs, applied, faults>>
    BY <1>1 DEF CreateSession, RenameSession, DeleteSession
  <2> QED BY <2>2, <2>3 DEF TypeOK
<1>2. CASE InsertReply(s)
  <2>1. replies' \in [Replies -> Reply]
    BY <1>2 DEF InsertReply, TypeOK, Reply
  <2> QED BY <1>2, <2>1 DEF InsertReply, TypeOK
<1> QED BY <1>1, <1>2

LEMMA FaultTypes ==
  ASSUME TypeOK, Fault
  PROVE  faults' \in 0..MaxFaults
BY TitleBounds DEF TypeOK, Fault

LEMMA ReplyTypes ==
  ASSUME TypeOK, NEW m \in Replies, CommitReply(m) \/ RollBackReply(m)
  PROVE  TypeOK'
<1>1. CASE CommitReply(m)
  <2>1. replies' \in [Replies -> Reply]
    BY <1>1 DEF CommitReply, TypeOK, Reply
  <2>2. sessions' \in [Sessions -> SessionRow]
    <3>1. PICK s : s = replies[m].session
      OBVIOUS
    <3>2. sessions' = sessions \/ sessions' = [sessions EXCEPT ![s] = MarkEligible(sessions[s], m)]
      BY <1>1, <3>1 DEF CommitReply
    <3>3. s \in Sessions => MarkEligible(sessions[s], m) \in SessionRow
      BY DEF TypeOK, SessionRow, MarkEligible
    <3> QED BY <3>2, <3>3 DEF TypeOK
  <2> QED BY <1>1, <2>1, <2>2 DEF CommitReply, TypeOK
<1>2. CASE RollBackReply(m)
  <2>1. replies' \in [Replies -> Reply]
    BY <1>2 DEF RollBackReply, TypeOK, Reply
  <2>2. faults' \in 0..MaxFaults
    BY <1>2, FaultTypes DEF RollBackReply
  <2> QED BY <1>2, <2>1, <2>2 DEF RollBackReply, TypeOK
<1> QED BY <1>1, <1>2

\* The row of a worker in its tick.
LEMMA WorkerRowTypes ==
  ASSUME TypeOK, NEW w \in Workers
  PROVE  /\ \A pc \in TickPcs : [workers EXCEPT ![w].pc = pc] \in [Workers -> Worker]
         /\ \A pc \in TickPcs, todo \in SUBSET Sessions :
              [workers EXCEPT ![w].pc = pc, ![w].todo = todo] \in [Workers -> Worker]
         /\ \A pc \in TickPcs, todo \in SUBSET Sessions, s \in Sessions :
              [workers EXCEPT ![w].pc = pc, ![w].todo = todo, ![w].session = s] \in [Workers -> Worker]
         /\ \A pc \in TickPcs, m \in Replies \cup {0} :
              [workers EXCEPT ![w].pc = pc, ![w].reply = m] \in [Workers -> Worker]
         /\ \A pc \in TickPcs :
              [workers EXCEPT ![w].pc = pc, ![w].session = 0, ![w].reply = 0] \in [Workers -> Worker]
         /\ [workers EXCEPT ![w].phase = "stopping"] \in [Workers -> Worker]
         /\ \A phase \in {"up", "down"} : [workers EXCEPT ![w] = IdleWorker(phase)] \in [Workers -> Worker]
<1>1. \A pc \in TickPcs : [workers EXCEPT ![w].pc = pc] \in [Workers -> Worker]
  BY DEF TypeOK, Worker
<1>2. ASSUME NEW now \in [Workers -> Worker], NEW todo \in SUBSET Sessions
      PROVE  [now EXCEPT ![w].todo = todo] \in [Workers -> Worker]
  BY DEF Worker
<1>3. ASSUME NEW now \in [Workers -> Worker], NEW s \in Sessions \cup {0}
      PROVE  [now EXCEPT ![w].session = s] \in [Workers -> Worker]
  BY DEF Worker
<1>4. ASSUME NEW now \in [Workers -> Worker], NEW m \in Replies \cup {0}
      PROVE  [now EXCEPT ![w].reply = m] \in [Workers -> Worker]
  BY DEF Worker
<1>5. [workers EXCEPT ![w].phase = "stopping"] \in [Workers -> Worker]
  BY DEF TypeOK, Worker
<1>6. ASSUME NEW phase \in {"up", "down"}
      PROVE  [workers EXCEPT ![w] = IdleWorker(phase)] \in [Workers -> Worker]
  <2>1. IdleWorker(phase) \in Worker
    BY DEF IdleWorker, Worker, TickPcs
  <2> QED BY <2>1 DEF TypeOK
<1> QED BY <1>1, <1>2, <1>3, <1>4, <1>5, <1>6

LEMMA TickTypes ==
  ASSUME TitlesInv, NEW w \in Workers, Tick(w) \/ TickStep(w) \/ EnqueueFails(w)
  PROVE  TypeOK'
<1>0. TypeOK
  BY DEF TitlesInv
<1>1. CASE Tick(w)
  <2>1. PICK batch \in SUBSET Sessions, pc \in TickPcs :
          workers' = [workers EXCEPT ![w].pc = pc, ![w].todo = batch]
    <3>1. {"idle", "lock"} \subseteq TickPcs
      BY DEF TickPcs
    <3> QED BY <1>1, <3>1 DEF Tick
  <2>2. workers' \in [Workers -> Worker]
    BY <1>0, <2>1, WorkerRowTypes
  <2> QED BY <1>0, <1>1, <2>2 DEF Tick, TypeOK
<1>2. CASE TryLock(w)
  <2>1. PICK s, rest : s = Min(workers[w].todo) /\ rest = workers[w].todo \ {s}
    OBVIOUS
  <2>2. workers[w].todo \in SUBSET Sessions /\ workers[w].todo # {}
    BY <1>0, <1>2 DEF TryLock, TitlesInv, WorkerInv, TypeOK, Worker
  <2>3. s \in Sessions /\ rest \in SUBSET Sessions
    <3>1. workers[w].todo \in SUBSET Nat
      BY <2>2 DEF Sessions
    <3> QED BY <2>1, <2>2, <3>1, MinIsSmallest
  <2>4. {"idle", "lock", "read"} \subseteq TickPcs
    BY DEF TickPcs
  <2>5. \/ workers' = [workers EXCEPT ![w].pc = "idle", ![w].todo = {}] /\ UNCHANGED lock
        \/ /\ workers' = [workers EXCEPT ![w].pc = "read", ![w].todo = rest, ![w].session = s]
           /\ lock' = [lock EXCEPT ![s] = w]
        \/ \E pc \in {"idle", "lock"} : workers' = [workers EXCEPT ![w].pc = pc, ![w].todo = rest]
                                          /\ UNCHANGED lock
    BY <1>2, <2>1 DEF TryLock
  <2>6. workers' \in [Workers -> Worker]
    <3>1. CASE workers' = [workers EXCEPT ![w].pc = "idle", ![w].todo = {}]
      BY <1>0, <2>4, <3>1, WorkerRowTypes
    <3>2. CASE workers' = [workers EXCEPT ![w].pc = "read", ![w].todo = rest, ![w].session = s]
      BY <1>0, <2>3, <2>4, <3>2, WorkerRowTypes
    <3>3. CASE \E pc \in {"idle", "lock"} : workers' = [workers EXCEPT ![w].pc = pc, ![w].todo = rest]
      <4>1. PICK pc \in {"idle", "lock"} : workers' = [workers EXCEPT ![w].pc = pc, ![w].todo = rest]
        BY <3>3
      <4>2. pc \in TickPcs
        BY <2>4
      <4>3. [workers EXCEPT ![w].pc = pc, ![w].todo = rest] \in [Workers -> Worker]
        BY <1>0, <2>3, <4>2, WorkerRowTypes
      <4> QED BY <4>1, <4>3
    <3> QED BY <2>5, <3>1, <3>2, <3>3
  <2>7. lock' \in [Sessions -> Workers \cup {NoWorker}]
    BY <1>0, <2>5 DEF TypeOK
  <2> QED BY <1>0, <1>2, <2>6, <2>7 DEF TryLock, TypeOK
<1>3. CASE ReadClaim(w)
  <2>1. {"write", "unlock"} \subseteq TickPcs
    BY DEF TickPcs
  <2>2. PICK s : s = workers[w].session
    OBVIOUS
  <2>3. s \in Sessions
    BY <1>3, <2>2 DEF ReadClaim, TitlesInv, WorkerInv, Holding
  <2>4. PICK m : m = sessions[s].eligible
    OBVIOUS
  <2>5. m \in Replies \cup {0}
    BY <1>0, <2>3, <2>4 DEF TypeOK, SessionRow
  <2>6. \/ workers' = [workers EXCEPT ![w].pc = "write", ![w].reply = m]
        \/ workers' = [workers EXCEPT ![w].pc = "unlock"]
    BY <1>3, <2>2, <2>4 DEF ReadClaim
  <2>7. workers' \in [Workers -> Worker]
    <3>1. [workers EXCEPT ![w].pc = "write", ![w].reply = m] \in [Workers -> Worker]
      BY <1>0, <2>1, <2>5, WorkerRowTypes
    <3>2. [workers EXCEPT ![w].pc = "unlock"] \in [Workers -> Worker]
      BY <1>0, <2>1, WorkerRowTypes
    <3> QED BY <2>6, <3>1, <3>2
  <2> QED BY <1>0, <1>3, <2>7 DEF ReadClaim, TypeOK
<1>4. CASE WriteClaim(w)
  <2>1. PICK s, m : s = workers[w].session /\ m = workers[w].reply
    OBVIOUS
  <2>2. m \in Replies \cup {0}
    BY <1>0, <2>1 DEF TypeOK, Worker
  <2>3. sessions' = [sessions EXCEPT ![s].attempted = m] \/ sessions' = sessions
    BY <1>4, <2>1 DEF WriteClaim
  <2>4. sessions' \in [Sessions -> SessionRow]
    BY <1>0, <2>2, <2>3 DEF TypeOK, SessionRow
  <2>5. workers' \in [Workers -> Worker]
    <3>1. {"enqueue", "unlock"} \subseteq TickPcs
      BY DEF TickPcs
    <3>2. PICK pc \in {"enqueue", "unlock"} : workers' = [workers EXCEPT ![w].pc = pc]
      BY <1>4 DEF WriteClaim, Go
    <3>3. pc \in TickPcs
      BY <3>1
    <3>4. [workers EXCEPT ![w].pc = pc] \in [Workers -> Worker]
      BY <1>0, <3>3, WorkerRowTypes
    <3> QED BY <3>2, <3>4
  <2> QED BY <1>0, <1>4, <2>4, <2>5 DEF WriteClaim, TypeOK
<1>5. CASE EnqueueTitle(w) \/ EnqueueFails(w)
  <2>1. PICK s, m : s = workers[w].session /\ m = workers[w].reply
    OBVIOUS
  <2>2. m \in Replies \cup {0} /\ s \in Sessions \cup {0}
    BY <1>0, <2>1 DEF TypeOK, Worker
  <2>3. PICK k \in Jobs, status \in {"QUEUED", "FAILED"} :
          jobs' = [jobs EXCEPT ![k] = [NoJob EXCEPT !.status = status, !.reply = m, !.session = s]]
    BY <1>5, <2>1 DEF EnqueueTitle, EnqueueFails, NewJob
  <2>4. [NoJob EXCEPT !.status = status, !.reply = m, !.session = s] \in Job
    <3>1. {"QUEUED", "FAILED"} \subseteq JobStatus
      BY DEF JobStatus, TERMINAL_JOB_STATUSES
    <3>2. PICK none : none = NoJob
      OBVIOUS
    <3>3. none \in Job
      BY <3>2, JobRowTypes
    <3>4. [none EXCEPT !.status = status, !.reply = m, !.session = s] \in Job
      BY <2>2, <3>1, <3>3 DEF Job
    <3> QED BY <3>2, <3>4
  <2>5. jobs' \in [Jobs -> Job]
    BY <1>0, <2>3, <2>4 DEF TypeOK
  <2>6. workers' \in [Workers -> Worker]
    <3>1. "unlock" \in TickPcs
      BY DEF TickPcs
    <3>2. workers' = [workers EXCEPT ![w].pc = "unlock"]
      BY <1>5 DEF EnqueueTitle, EnqueueFails, Go
    <3> QED BY <1>0, <3>1, <3>2, WorkerRowTypes
  <2>7. faults' \in 0..MaxFaults
    BY <1>0, <1>5, FaultTypes DEF EnqueueTitle, EnqueueFails, TypeOK
  <2> QED BY <1>0, <1>5, <2>5, <2>6, <2>7 DEF EnqueueTitle, EnqueueFails, TypeOK
<1>6. CASE Unlock(w)
  <2>1. {"idle", "lock"} \subseteq TickPcs
    BY DEF TickPcs
  <2>2. PICK pc \in {"idle", "lock"} :
          workers' = [workers EXCEPT ![w].pc = pc, ![w].session = 0, ![w].reply = 0]
    BY <1>6 DEF Unlock, NextCandidate
  <2>3. workers' \in [Workers -> Worker]
    <3>1. pc \in TickPcs
      BY <2>1
    <3>2. [workers EXCEPT ![w].pc = pc, ![w].session = 0, ![w].reply = 0] \in [Workers -> Worker]
      BY <1>0, <3>1, WorkerRowTypes
    <3> QED BY <2>2, <3>2
  <2>4. lock' \in [Sessions -> Workers \cup {NoWorker}]
    BY <1>0, <1>6 DEF Unlock, TypeOK
  <2> QED BY <1>0, <1>6, <2>3, <2>4 DEF Unlock, TypeOK
<1> QED BY <1>1, <1>2, <1>3, <1>4, <1>5, <1>6 DEF TickStep

LEMMA ProcessTypes ==
  ASSUME TypeOK, NEW w \in Workers,
         StopWorker(w) \/ CloseQueue(w) \/ Crash(w) \/ StartWorker(w)
  PROVE  TypeOK'
<1>1. CASE StopWorker(w)
  <2>1. workers' \in [Workers -> Worker]
    BY <1>1, WorkerRowTypes DEF StopWorker
  <2>2. faults' \in 0..MaxFaults
    BY <1>1, FaultTypes DEF StopWorker
  <2> QED BY <1>1, <2>1, <2>2 DEF StopWorker, TypeOK
<1>2. LoseRuns(w) \in [Jobs -> Job]
  BY JobRowTypes DEF LoseRuns, TypeOK
<1>3. CASE CloseQueue(w)
  <2>1. workers' \in [Workers -> Worker]
    BY <1>3, WorkerRowTypes DEF CloseQueue
  <2> QED BY <1>2, <1>3, <2>1 DEF CloseQueue, TypeOK
<1>4. CASE Crash(w)
  <2>1. workers' \in [Workers -> Worker]
    BY <1>4, WorkerRowTypes DEF Crash
  <2>2. faults' \in 0..MaxFaults
    BY <1>4, FaultTypes DEF Crash
  <2>3. lock' \in [Sessions -> Workers \cup {NoWorker}]
    BY <1>4 DEF Crash, TypeOK
  <2> QED BY <1>2, <1>4, <2>1, <2>2, <2>3 DEF Crash, TypeOK
<1>5. CASE StartWorker(w)
  <2>1. workers' \in [Workers -> Worker]
    BY <1>5, WorkerRowTypes DEF StartWorker
  <2>2. jobs' \in [Jobs -> Job]
    <3>1. PICK stale \in SUBSET Silent :
            jobs' = [k \in Jobs |-> IF k \in stale THEN [jobs[k] EXCEPT !.status = "FAILED"] ELSE jobs[k]]
      BY <1>5 DEF StartWorker
    <3>2. "FAILED" \in JobStatus
      BY DEF JobStatus, TERMINAL_JOB_STATUSES
    <3>3. \A k \in Jobs : jobs[k] \in Job /\ [jobs[k] EXCEPT !.status = "FAILED"] \in Job
      BY <3>2, JobStepTypes DEF TypeOK
    <3> QED BY <3>1, <3>3
  <2> QED BY <1>5, <2>1, <2>2 DEF StartWorker, TypeOK
<1> QED BY <1>1, <1>3, <1>4, <1>5

\* Where a handler goes, returns or throws, its row stays a job.
LEMMA HandlerTypes ==
  ASSUME TypeOK, NEW k \in Jobs,
         \/ \E pc \in HandlerPcs : Then(k, pc)
         \/ \E o \in Outcomes : Returns(k, o)
         \/ Throws(k)
         \/ \E status \in {"FAILED", "SUCCEEDED"} : jobs' = [jobs EXCEPT ![k] = Ended(jobs[k], status)]
  PROVE  jobs' \in [Jobs -> Job]
<1>1. jobs \in [Jobs -> Job] /\ jobs[k] \in Job
  BY DEF TypeOK
<1>2. ASSUME NEW pc \in HandlerPcs, Then(k, pc) PROVE jobs' \in [Jobs -> Job]
  <2>1. [jobs[k] EXCEPT !.pc = pc] \in Job
    BY <1>1, JobStepTypes
  <2> QED BY <1>1, <1>2, <2>1, ThenRow
<1>3. ASSUME NEW o \in Outcomes, Returns(k, o) PROVE jobs' \in [Jobs -> Job]
  <2>1. PICK row : row = [jobs[k] EXCEPT !.pc = "finish", !.outcome = o]
    OBVIOUS
  <2>2. row \in Job
    BY <1>1, <2>1, JobStepTypes
  <2>3. jobs' = [jobs EXCEPT ![k] = row]
    BY <1>3, <2>1, ReturnsRow
  <2> QED BY <1>1, <2>2, <2>3
<1>4. ASSUME NEW status \in {"FAILED", "SUCCEEDED"}, jobs' = [jobs EXCEPT ![k] = Ended(jobs[k], status)]
      PROVE  jobs' \in [Jobs -> Job]
  BY <1>1, <1>4, JobRowTypes
<1>5. ASSUME Throws(k) PROVE jobs' \in [Jobs -> Job]
  BY <1>1, <1>5, JobRowTypes DEF Throws
<1> QED BY <1>2, <1>3, <1>4, <1>5

LEMMA JobTypes ==
  ASSUME TitlesInv, NEW k \in Jobs, CancelJob(k) \/ AbortRun(k) \/ \E w \in Workers : StartJob(w, k)
  PROVE  TypeOK'
<1>0. TypeOK /\ jobs \in [Jobs -> Job] /\ jobs[k] \in Job
  BY DEF TypeOK, TitlesInv
<1>1. CASE CancelJob(k)
  <2>1. "CANCEL_REQUESTED" \in JobStatus
    BY DEF JobStatus
  <2>2. jobs' \in [Jobs -> Job]
    BY <1>0, <1>1, <2>1, JobStepTypes DEF CancelJob
  <2> QED BY <1>0, <1>1, <2>2 DEF CancelJob, TypeOK
<1>2. CASE AbortRun(k)
  <2>1. jobs' \in [Jobs -> Job]
    BY <1>0, <1>2, JobStepTypes DEF AbortRun
  <2>2. faults' \in 0..MaxFaults
    BY <1>0, <1>2, FaultTypes DEF AbortRun
  <2> QED BY <1>0, <1>2, <2>1, <2>2 DEF AbortRun, TypeOK
<1>3. ASSUME NEW w \in Workers, StartJob(w, k) PROVE TypeOK'
  <2>1. /\ [jobs[k] EXCEPT !.worker = w, !.pc = "checkpoint", !.status = "RUNNING"] \in Job
        /\ Ended(jobs[k], "FAILED") \in Job
    BY <1>0, JobStepTypes, JobRowTypes
  <2>2. jobs' \in [Jobs -> Job]
    BY <1>0, <1>3, <2>1 DEF StartJob
  <2> QED BY <1>0, <1>3, <2>2 DEF StartJob, TypeOK
<1> QED BY <1>1, <1>2, <1>3

LEMMA RunTypes ==
  ASSUME TitlesInv, NEW k \in Jobs, JobStep(k)
  PROVE  TypeOK'
<1>0. TypeOK /\ jobs \in [Jobs -> Job] /\ jobs[k] \in Job
  BY DEF TypeOK, TitlesInv
<1>1. {"find", "verify", "apply"} \subseteq HandlerPcs /\ {"KEPT", "APPLIED"} \subseteq Outcomes
  BY DEF HandlerPcs, Outcomes
<1>2. CASE FirstCheckpoint(k) \/ CallModel(k) \/ VerifyAnswer(k) \/ FinishJob(k)
  <2>1. \/ Then(k, "find") \/ Then(k, "verify") \/ Then(k, "apply") \/ Returns(k, "KEPT") \/ Throws(k)
        \/ jobs' = [jobs EXCEPT ![k] = Ended(jobs[k], "FAILED")]
        \/ jobs' = [jobs EXCEPT ![k] = Ended(jobs[k], "SUCCEEDED")]
    BY <1>2 DEF FirstCheckpoint, CallModel, VerifyAnswer, FinishJob
  <2>2. jobs' \in [Jobs -> Job]
    BY <1>0, <1>1, <2>1, HandlerTypes
  <2>3. UNCHANGED <<sessions, archived, replies, workers, lock, applied, faults>>
    BY <1>2 DEF FirstCheckpoint, CallModel, VerifyAnswer, FinishJob
  <2> QED BY <1>0, <2>2, <2>3 DEF TypeOK
<1>3. CASE FindEligible(k)
  <2>1. PICK known : known = Whole({n \in Stored(jobs[k].session) : n <= jobs[k].reply})
    OBVIOUS
  <2>2. known \in SUBSET Replies
    BY <2>1 DEF Whole, Stored
  <2>3. [jobs[k] EXCEPT !.pc = "collect", !.known = known] \in Job
    BY <1>0, <2>2, JobStepTypes
  <2>4. jobs' = [jobs EXCEPT ![k].pc = "collect", ![k].known = known] \/ Returns(k, "KEPT")
    BY <1>3, <2>1 DEF FindEligible
  <2>5. jobs' \in [Jobs -> Job]
    <3>1. CASE jobs' = [jobs EXCEPT ![k].pc = "collect", ![k].known = known]
      BY <1>0, <2>3, <3>1
    <3>2. CASE Returns(k, "KEPT")
      BY <1>0, <1>1, <3>2, HandlerTypes
    <3> QED BY <2>4, <3>1, <3>2
  <2> QED BY <1>0, <1>3, <2>5 DEF FindEligible, TypeOK
<1>4. CASE CollectPage(k)
  <2>1. PICK page, pairs : /\ page = Page(k)
                           /\ pairs = Newest(jobs[k].pairs \cup Whole(page), MaxExchanges)
    OBVIOUS
  <2>2. page \in SUBSET Replies /\ pairs \in SUBSET Replies
    BY <1>0, <2>1 DEF Page, Newest, Stored, Whole, Job
  <2>3. PICK low : low = Min(page)
    OBVIOUS
  <2>4. \/ Returns(k, "KEPT")
        \/ jobs' = [jobs EXCEPT ![k].pc = "complete", ![k].pairs = pairs]
        \/ /\ ~(Cardinality(page) < PageSize)
           /\ jobs' = [jobs EXCEPT ![k].before = low, ![k].pairs = pairs]
    BY <1>4, <2>1, <2>3 DEF CollectPage
  <2>5. ~(Cardinality(page) < PageSize) => low \in 0..(MaxReplies + 1)
    <3> SUFFICES ASSUME ~(Cardinality(page) < PageSize) PROVE low \in 0..(MaxReplies + 1)
      OBVIOUS
    <3>1. PageSize \in Nat \ {0} /\ MaxReplies \in Nat
      BY TitleBounds
    <3>2. page # {} /\ page \in SUBSET Nat
      BY <2>2, <3>1, FS_EmptySet DEF Replies
    <3>3. low \in Replies
      BY <2>2, <2>3, <3>2, MinIsSmallest
    <3> QED BY <3>1, <3>3 DEF Replies
  <2>6. jobs' \in [Jobs -> Job]
    <3>1. CASE Returns(k, "KEPT")
      BY <1>0, <1>1, <3>1, HandlerTypes
    <3>2. CASE jobs' = [jobs EXCEPT ![k].pc = "complete", ![k].pairs = pairs]
      <4>1. [jobs[k] EXCEPT !.pc = "complete", !.pairs = pairs] \in Job
        BY <1>0, <2>2, JobStepTypes
      <4> QED BY <1>0, <3>2, <4>1
    <3>3. CASE /\ ~(Cardinality(page) < PageSize)
               /\ jobs' = [jobs EXCEPT ![k].before = low, ![k].pairs = pairs]
      <4>1. [jobs[k] EXCEPT !.before = low, !.pairs = pairs] \in Job
        BY <1>0, <2>2, <2>5, <3>3, JobStepTypes
      <4> QED BY <1>0, <3>3, <4>1
    <3> QED BY <2>4, <3>1, <3>2, <3>3
  <2> QED BY <1>0, <1>4, <2>6 DEF CollectPage, TypeOK
<1>5. CASE ApplyTitle(k)
  <2>1. PICK s : s = jobs[k].session
    OBVIOUS
  <2>2. s \in Sessions
    BY <1>5, <2>1 DEF ApplyTitle, TitlesInv, JobInv
  <2>3. \/ UNCHANGED <<sessions, applied>> /\ Returns(k, "KEPT")
        \/ /\ sessions' = [sessions EXCEPT ![s].source = "GENERATED"]
           /\ applied' = [applied EXCEPT ![s] = k] /\ Returns(k, "APPLIED")
    BY <1>5, <2>1 DEF ApplyTitle
  <2>4. jobs' \in [Jobs -> Job]
    BY <1>0, <1>1, <2>3, HandlerTypes
  <2>5. sessions' \in [Sessions -> SessionRow]
    BY <1>0, <2>3 DEF TypeOK, SessionRow
  <2>6. applied' \in [Sessions -> Jobs \cup {0}]
    BY <1>0, <2>3 DEF TypeOK
  <2> QED BY <1>0, <1>5, <2>4, <2>5, <2>6 DEF ApplyTitle, TypeOK
<1> QED BY <1>2, <1>3, <1>4, <1>5 DEF JobStep

-----------------------------------------------------------------------------
(* The invariant.                                                          *)

LEMMA TitlesInit == Init => TitlesInv
<1> SUFFICES ASSUME Init PROVE TitlesInv
  OBVIOUS
<1> USE DEF Init
<1>1. TypeOK
  <2>1. sessions \in [Sessions -> SessionRow]
    BY DEF SessionRow
  <2>2. replies \in [Replies -> Reply]
    BY DEF Reply
  <2>3. workers \in [Workers -> Worker]
    BY DEF Worker, TickPcs, IdleWorker
  <2>4. jobs \in [Jobs -> Job]
    BY JobRowTypes
  <2>5. faults \in 0..MaxFaults
    BY TitleBounds
  <2> QED BY <2>1, <2>2, <2>3, <2>4, <2>5 DEF TypeOK
<1>2. \A w \in Workers : WorkerInv(w)
  BY DEF WorkerInv, IdleWorker, Holding
<1>3. \A s \in Sessions : LockInv(s) /\ SessionInv(s) /\ TitleInv(s) /\ ClaimInv(s)
  BY DEF LockInv, SessionInv, TitleInv, ClaimInv, Sessions
<1>4. \A k \in Jobs : JobInv(k)
  BY DEF JobInv, NoJob
<1>5. JobsInv
  BY DEF JobsInv, NoJob, ActiveStatus
<1> QED BY <1>1, <1>2, <1>3, <1>4, <1>5 DEF TitlesInv

LEMMA TitlesNext == TitlesInv /\ [Next]_vars => TitlesInv'
<1> SUFFICES ASSUME TitlesInv, [Next]_vars PROVE TitlesInv'
  OBVIOUS
<1>1. ASSUME NEW s \in Sessions, CreateSession(s) \/ RenameSession(s) \/ DeleteSession(s) \/ InsertReply(s)
      PROVE  TitlesInv'
  <2>1. TypeOK'
    BY <1>1, SessionTypes DEF TitlesInv
  <2> QED BY <1>1, <2>1, UserStepKeeps, InsertReplyKeeps
<1>2. CASE ArchiveWorkspace
  <2>1. TypeOK'
    BY <1>2, FaultTypes DEF ArchiveWorkspace, TitlesInv, TypeOK
  <2> QED BY <1>2, <2>1, ArchiveWorkspaceKeeps
<1>3. ASSUME NEW m \in Replies, CommitReply(m) \/ RollBackReply(m) PROVE TitlesInv'
  <2>1. TypeOK'
    BY <1>3, ReplyTypes DEF TitlesInv
  <2> QED BY <1>3, <2>1, CommitReplyKeeps, RollBackReplyKeeps
<1>4. ASSUME NEW w \in Workers, Tick(w) \/ TickStep(w) \/ EnqueueFails(w) PROVE TitlesInv'
  <2>1. TypeOK'
    BY <1>4, TickTypes
  <2> QED BY <1>4, <2>1, TickKeeps, TryLockKeeps, ReadClaimKeeps, WriteClaimKeeps, EnqueueKeeps,
             UnlockKeeps DEF TickStep
<1>5. ASSUME NEW w \in Workers, StopWorker(w) \/ CloseQueue(w) \/ Crash(w) \/ StartWorker(w)
      PROVE  TitlesInv'
  <2>1. TypeOK'
    BY <1>5, ProcessTypes DEF TitlesInv
  <2> QED BY <1>5, <2>1, StopWorkerKeeps, CloseQueueKeeps, CrashKeeps, StartWorkerKeeps
<1>6. ASSUME NEW k \in Jobs, CancelJob(k) \/ AbortRun(k) \/ \E w \in Workers : StartJob(w, k)
      PROVE  TitlesInv'
  <2>1. TypeOK'
    BY <1>6, JobTypes
  <2> QED BY <1>6, <2>1, CancelJobKeeps, AbortRunKeeps, StartJobKeeps
<1>7. ASSUME NEW k \in Jobs, JobStep(k) PROVE TitlesInv'
  <2>1. TypeOK'
    BY <1>7, RunTypes
  <2> QED BY <1>7, <2>1, FirstCheckpointKeeps, FindEligibleKeeps, CollectPageKeeps, CallModelKeeps,
             VerifyAnswerKeeps, ApplyTitleKeeps, FinishJobKeeps DEF JobStep
<1>8. CASE UNCHANGED vars
  BY <1>8 DEF vars, TitlesInv, TypeOK, WorkerInv, LockInv, SessionInv, TitleInv, ClaimInv, JobInv,
              CollectInv, ReadInv, JobsInv, Stored, Live, WholeReply
<1> QED BY <1>1, <1>2, <1>3, <1>4, <1>5, <1>6, <1>7, <1>8 DEF Next

\* In every reachable state the parts of the invariant hold together: whoever holds a lock has its
\* session for itself, the claimed reply is newer than all that were tried, and the marks, titles
\* and transcripts are those of the replies that are stored.
THEOREM TitlesInvariant == Spec => []TitlesInv
BY TitlesInit, TitlesNext, PTL DEF Spec

\* Every variable keeps its type, for any number of sessions, replies, jobs and workers.
THEOREM TitlesTypeCorrect == Spec => []TypeOK
<1>1. TitlesInv => TypeOK
  BY DEF TitlesInv
<1> QED BY <1>1, TitlesInvariant, PTL

-----------------------------------------------------------------------------
(* What follows from it.                                                   *)

LEMMA OneActiveJobHolds == TitlesInv => OneActiveJob
<1> SUFFICES ASSUME TitlesInv, NEW s \in Sessions PROVE Cardinality(ActiveJobs(s)) <= 1
  BY DEF OneActiveJob
<1>1. \A k, l \in ActiveJobs(s) : k = l
  BY DEF TitlesInv, JobsInv, ActiveJobs, ActiveStatus
<1>2. CASE ActiveJobs(s) = {}
  BY <1>2, FS_EmptySet
<1>3. CASE ActiveJobs(s) # {}
  <2>1. PICK k \in ActiveJobs(s) : TRUE
    BY <1>3
  <2>2. ActiveJobs(s) = {k}
    BY <1>1, <2>1
  <2>3. Cardinality({k}) = 1
    BY FS_Singleton
  <2> QED BY <2>2, <2>3
<1> QED BY <1>2, <1>3

LEMMA NewestIsMarked == TitlesInv => EligibleIsNewest
<1> SUFFICES ASSUME TitlesInv, NEW s \in Sessions, sessions[s].source = "PLACEHOLDER"
             PROVE  sessions[s].eligible =
                      IF Whole(Stored(s)) = {} THEN 0 ELSE Max(Whole(Stored(s)))
  BY DEF EligibleIsNewest
<1>1. PICK e, W : e = sessions[s].eligible /\ W = Whole(Stored(s))
  OBVIOUS
<1>2. \A m : m \in W <=> WholeReply(m, s)
  BY <1>1 DEF Whole, Stored, WholeReply, Live
<1>3. SessionInv(s) /\ e \in Replies \cup {0}
  BY <1>1 DEF TitlesInv, TypeOK, SessionRow
<1>4. \A m \in W : m \in Replies /\ m \in Nat /\ m # 0 /\ m <= e
  BY <1>1, <1>2, <1>3 DEF SessionInv, WholeReply, Replies
<1>5. e # 0 => e \in W
  BY <1>1, <1>2, <1>3 DEF SessionInv
<1>6. CASE W = {}
  BY <1>1, <1>5, <1>6
<1>7. CASE W # {}
  <2>1. e \in W
    <3>1. PICK m \in W : TRUE
      BY <1>7
    <3>2. e # 0
      BY <1>4, <3>1
    <3> QED BY <1>5, <3>2
  <2>2. W \in SUBSET Nat /\ \A m \in W : m <= e
    BY <1>4
  <2>3. Max(W) = e
    BY <2>1, <2>2, MaxIsLargest
  <2> QED BY <1>1, <1>7, <2>3
<1> QED BY <1>6, <1>7

LEMMA AppliedHolds == TitlesInv => AppliedIsTrue
<1> SUFFICES ASSUME TitlesInv, NEW k \in Jobs
             PROVE  jobs[k].outcome = "APPLIED" <=>
                      jobs[k].session # 0 /\ applied[jobs[k].session] = k
  BY DEF AppliedIsTrue
<1>1. PICK job : job = jobs[k]
  OBVIOUS
<1>2. JobInv(k) /\ job \in Job /\ k # 0
  BY <1>1 DEF TitlesInv, TypeOK, Jobs
<1>3. ASSUME job.outcome = "APPLIED" PROVE job.session # 0 /\ applied[job.session] = k
  BY <1>1, <1>2, <1>3 DEF JobInv, Sessions
<1>4. ASSUME job.session # 0, applied[job.session] = k PROVE job.outcome = "APPLIED"
  <2>1. job.session \in Sessions
    BY <1>2, <1>4 DEF Job
  <2>2. TitleInv(job.session)
    BY <2>1 DEF TitlesInv
  <2> QED BY <1>1, <1>2, <1>4, <2>2 DEF TitleInv
<1> QED BY <1>1, <1>3, <1>4

\* A session has one active title job at most, no reply of it is tried twice, and a claim without
\* a job is the trace of a fault: claimLatest under its advisory lock, with any number of workers
\* ticking, crashing and being stopped.
THEOREM TriesAreAlwaysSingle == Spec => []TriesAreSingle
<1>1. TitlesInv => ReplyTriedOnce
  BY DEF TitlesInv, JobsInv, ReplyTriedOnce
<1>2. TitlesInv => ClaimHasJob
  BY DEF TitlesInv, ClaimInv, ClaimHasJob
<1>3. TitlesInv => TriesAreSingle
  BY <1>1, <1>2, OneActiveJobHolds DEF TriesAreSingle
<1> QED BY <1>3, TitlesInvariant, PTL

\* The mark of a placeholder is its newest whole reply in whichever order replies commit, a run
\* reads the newest exchanges whatever the page size, and APPLIED is said of the job whose title
\* the session got.
THEOREM TitlesAreAlwaysOfTheSession == Spec => []TitlesAreOfTheSession
<1>1. TitlesInv => ReadsNewest
  BY DEF TitlesInv, JobInv, ReadInv, ReadsNewest
<1>2. TitlesInv => TitlesAreOfTheSession
  BY <1>1, NewestIsMarked, AppliedHolds DEF TitlesAreOfTheSession
<1> QED BY <1>2, TitlesInvariant, PTL

-----------------------------------------------------------------------------
(* Titles are owned as session-title-schema.md says.                       *)

Owners == [s \in Sessions |-> sessions[s].source]

\* A source that is written is one step of the ownership.
LEMMA SourceIsOwner ==
  ASSUME TypeOK, NEW s \in Sessions, NEW from, NEW to, sessions[s].source \in from,
         sessions' = [sessions EXCEPT ![s].source = to]
  PROVE  Ownership!Become(s, from, to)
<1>1. /\ sessions'[s].source = to
      /\ \A t \in Sessions : t # s => sessions'[t].source = sessions[t].source
  BY SourceWritten
<1>2. Owners[s] = sessions[s].source /\ Owners' = [Owners EXCEPT ![s] = to]
  BY <1>1 DEF Owners
<1> QED BY <1>2 DEF Ownership!Become, Owners

\* Every step is a step of the ownership or leaves it alone.
LEMMA OwnershipStep == TitlesInv /\ [Next]_vars => [Ownership!Next]_Owners
<1> SUFFICES ASSUME TitlesInv, [Next]_vars PROVE [Ownership!Next]_Owners
  OBVIOUS
<1>0. TypeOK
  BY DEF TitlesInv
<1>1. ASSUME \A s \in Sessions : sessions'[s].source = sessions[s].source PROVE UNCHANGED Owners
  BY <1>1 DEF Owners
<1>2. ASSUME NEW s \in Sessions, CreateSession(s) \/ RenameSession(s) \/ DeleteSession(s)
      PROVE  Ownership!Next
  <2>1. CASE CreateSession(s)
    <3>1. PICK source \in {"PLACEHOLDER", "USER"} : sessions' = [sessions EXCEPT ![s].source = source]
      BY <2>1 DEF CreateSession
    <3>2. PICK from : from = {"absent"}
      OBVIOUS
    <3>3. sessions[s].source \in from
      BY <2>1, <3>2 DEF CreateSession
    <3>4. Ownership!Become(s, from, source)
      BY <1>0, <3>1, <3>3, SourceIsOwner
    <3> QED BY <3>1, <3>2, <3>4 DEF Ownership!Next
  <2>2. ASSUME RenameSession(s) \/ DeleteSession(s) PROVE sessions[s].source \in Ownership!Live
    <3>1. sessions[s].source \in {"absent", "PLACEHOLDER", "GENERATED", "USER", "deleted"}
      BY <1>0 DEF TypeOK, SessionRow
    <3> QED BY <2>2, <3>1 DEF RenameSession, DeleteSession, Live, Ownership!Live
  <2>3. CASE RenameSession(s)
    <3>1. Ownership!Become(s, Ownership!Live, "USER")
      BY <1>0, <2>2, <2>3, SourceIsOwner DEF RenameSession
    <3> QED BY <3>1 DEF Ownership!Next
  <2>4. CASE DeleteSession(s)
    <3>1. Ownership!Become(s, Ownership!Live, "deleted")
      BY <1>0, <2>2, <2>4, SourceIsOwner DEF DeleteSession
    <3> QED BY <3>1 DEF Ownership!Next
  <2> QED BY <1>2, <2>1, <2>3, <2>4
<1>3. ASSUME NEW m \in Replies, CommitReply(m) PROVE UNCHANGED Owners
  <2>1. PICK s : s = replies[m].session
    OBVIOUS
  <2>2. sessions' = sessions \/ sessions' = [sessions EXCEPT ![s] = MarkEligible(sessions[s], m)]
    BY <1>3, <2>1 DEF CommitReply
  <2>3. s \in Sessions => MarkEligible(sessions[s], m).source = sessions[s].source
    BY <1>0 DEF TypeOK, SessionRow, MarkEligible
  <2>4. sessions \in [Sessions -> SessionRow]
    BY <1>0 DEF TypeOK
  <2> QED BY <1>1, <2>2, <2>3, <2>4
<1>4. ASSUME NEW w \in Workers, WriteClaim(w) PROVE UNCHANGED Owners
  <2>1. PICK s, m : sessions' = sessions \/ sessions' = [sessions EXCEPT ![s].attempted = m]
    BY <1>4 DEF WriteClaim
  <2>2. s \in Sessions => [sessions[s] EXCEPT !.attempted = m].source = sessions[s].source
    BY <1>0 DEF TypeOK, SessionRow
  <2>3. sessions \in [Sessions -> SessionRow]
    BY <1>0 DEF TypeOK
  <2> QED BY <1>1, <2>1, <2>2, <2>3
<1>5. ASSUME NEW k \in Jobs, ApplyTitle(k) PROVE Ownership!Next \/ UNCHANGED Owners
  <2>1. PICK s : s = jobs[k].session
    OBVIOUS
  <2>2. s \in Sessions
    BY <1>5, <2>1 DEF ApplyTitle, TitlesInv, JobInv
  <2>3. CASE TakesTitle(s)
    <3>1. PICK from : from = {"PLACEHOLDER"}
      OBVIOUS
    <3>2. sessions[s].source \in from /\ sessions' = [sessions EXCEPT ![s].source = "GENERATED"]
      BY <1>5, <2>1, <2>3, <3>1 DEF ApplyTitle, TakesTitle
    <3>3. Ownership!Become(s, from, "GENERATED")
      BY <1>0, <2>2, <3>2, SourceIsOwner
    <3> QED BY <2>2, <3>1, <3>3 DEF Ownership!Next
  <2>4. CASE ~TakesTitle(s)
    BY <1>1, <1>5, <2>1, <2>4 DEF ApplyTitle
  <2> QED BY <2>3, <2>4
<1>6. CASE UNCHANGED sessions
  BY <1>1, <1>6
<1>7. \/ UNCHANGED sessions
      \/ \E s \in Sessions : CreateSession(s) \/ RenameSession(s) \/ DeleteSession(s)
      \/ \E m \in Replies : CommitReply(m)
      \/ \E w \in Workers : WriteClaim(w)
      \/ \E k \in Jobs : ApplyTitle(k)
  BY DEF Next, vars, InsertReply, ArchiveWorkspace, RollBackReply, Tick, TickStep, TryLock, ReadClaim,
         EnqueueTitle, EnqueueFails, Unlock, StopWorker, CloseQueue, Crash, StartWorker, CancelJob,
         AbortRun, JobStep, StartJob, FirstCheckpoint, FindEligible, CollectPage, CallModel,
         VerifyAnswer, FinishJob
<1> QED BY <1>2, <1>3, <1>4, <1>5, <1>6, <1>7

\* Every behaviour of the sessions is one of TitleOwnership: a title is generated once, only in place
\* of an untouched placeholder, and never in place of a user's.
THEOREM OwnershipIsKept == Spec => KeepsOwnership
<1>1. Init => Ownership!Init
  BY DEF Init, Ownership!Init
<1>2. TitlesInv /\ [Next]_vars => [Ownership!Next]_Owners
  BY OwnershipStep
<1> QED BY <1>1, <1>2, TitlesInvariant, PTL DEF Spec, KeepsOwnership, Ownership!Spec, Owners

-----------------------------------------------------------------------------
(* Both parts of the sessions.                                             *)

\* The rows of sessions, replies, jobs and locks, of users, workspaces and requests keep
\* their types side by side.
THEOREM SessionTypesCorrect == SessionParts => []TypesOK
BY TitlesTypeCorrect, AccessTypeCorrect, PTL DEF SessionParts, TypesOK
=============================================================================
