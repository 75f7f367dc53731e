---------------------------- MODULE ProcessProofs ----------------------------
(***************************************************************************)
(* Proofs about the two programs, for any number of workers, connections,  *)
(* starts and faults: what a start or a tick may rely on while signals     *)
(* come at any time, what a clean exit leaves behind, and that the workers *)
(* of one database keep one sampling job under way.                        *)
(***************************************************************************)
EXTENDS Processes, FiniteSetTheorems, TLAPS

-----------------------------------------------------------------------------
(* The fields of a process after each helper of the composition.           *)

LEMMA BeginDisposeFields ==
  ASSUME NEW p \in Proc, NEW q, q = BeginDispose(p)
  PROVE  /\ q \in Proc
         /\ q.closing = p.held /\ q.held = {} /\ q.open = p.open \ (p.held \cap {"titles"})
         /\ q.disp = "titles" /\ q.broken = FALSE
         /\ q.main = p.main /\ q.shut = p.shut /\ q.stop = p.stop
         /\ q.shutdownError = p.shutdownError /\ q.title = p.title /\ q.health = p.health
         /\ q.row = p.row /\ q.run = p.run /\ q.code = p.code /\ q.past = p.past
<1> PICK o : o = p.open \ (p.held \cap {"titles"})
  OBVIOUS
<1>1. q = [p EXCEPT !.closing = p.held, !.held = {}, !.open = o, !.disp = "titles", !.broken = FALSE]
  BY DEF BeginDispose
<1>2. o \in SUBSET Resources /\ p.held \in SUBSET Resources
  BY DEF Proc
<1>3. q \in Proc
  BY ZenonT(60), <1>1, <1>2 DEF Proc
<1> QED BY <1>1, <1>2, <1>3 DEF Proc

LEMMA CallStopFields ==
  ASSUME NEW p \in Proc, NEW q, q = CallStop(p)
  PROVE  /\ q \in Proc /\ q.stop = IF p.stop = "no" THEN "wait" ELSE p.stop
         /\ q.main = p.main /\ q.past = p.past /\ q.disp = p.disp /\ q.closing = p.closing
         /\ q.shut = p.shut /\ q.held = p.held /\ q.open = p.open /\ q.broken = p.broken
         /\ q.shutdownError = p.shutdownError /\ q.title = p.title /\ q.code = p.code
         /\ q.health = p.health /\ q.row = p.row /\ q.run = p.run
<1>1. CASE p.stop = "no"
  <2>1. q = [p EXCEPT !.stop = "wait"]
    BY <1>1 DEF CallStop
  <2>2. q \in Proc
    BY <2>1 DEF Proc
  <2> QED BY <1>1, <2>1, <2>2 DEF Proc
<1>2. CASE p.stop # "no"
  BY <1>2 DEF CallStop
<1> QED BY <1>1, <1>2

StopCalled(p, q) ==
  /\ q.stop = (IF p.stop = "no" THEN "wait" ELSE p.stop)
  /\ q.main = p.main /\ q.past = p.past /\ q.disp = p.disp /\ q.closing = p.closing
  /\ q.shut = p.shut /\ q.held = p.held /\ q.open = p.open /\ q.broken = p.broken
  /\ q.shutdownError = p.shutdownError /\ q.title = p.title /\ q.code = p.code
  /\ q.health = p.health /\ q.row = p.row /\ q.run = p.run

LEMMA CallStopIs ==
  ASSUME NEW p \in Proc
  PROVE  CallStop(p) \in Proc /\ StopCalled(p, CallStop(p))
<1> PICK q : q = CallStop(p)
  OBVIOUS
<1>1. q \in Proc /\ StopCalled(p, q)
  BY CallStopFields DEF StopCalled
<1> QED BY <1>1

LEMMA StopEndsFields ==
  ASSUME NEW d \in Proc, NEW e \in BOOLEAN, NEW c, c = [d EXCEPT !.stop = "no", !.shutdownError = e]
  PROVE  c \in Proc
BY DEF Proc

LEMMA GoesOnFields ==
  ASSUME NEW c \in Proc, NEW s \in {"no", "stop", "disconnect"},
         NEW m \in {"off", "connect", "undo", "up", "failing", "bye", "gone"} \cup Starting
  PROVE  [c EXCEPT !.shut = s, !.main = m] \in Proc
BY DEF Proc

LEMMA EndStopFields ==
  ASSUME NEW d \in Proc, NEW e \in BOOLEAN, NEW s \in {"no", "stop", "disconnect"},
         NEW m \in {"off", "connect", "undo", "up", "failing", "bye", "gone"} \cup Starting
  PROVE  [d EXCEPT !.stop = "no", !.shutdownError = e, !.shut = s, !.main = m] \in Proc
<1> PICK c : c = [d EXCEPT !.stop = "no", !.shutdownError = e]
  OBVIOUS
<1>1. c \in Proc
  BY StopEndsFields
<1>2. [c EXCEPT !.shut = s, !.main = m] \in Proc
  BY <1>1, GoesOnFields
<1> QED BY <1>2

LEMMA FailingFields ==
  ASSUME NEW d \in Proc, NEW h \in SUBSET {"early", "undone"},
         NEW f, f = [d EXCEPT !.main = "failing", !.past = h]
  PROVE  f \in Proc
BY DEF Proc

-----------------------------------------------------------------------------
(* The invariant of one process, whatever the others do.                   *)

\* A disposal is under way exactly when a failed start or a stop has begun one; a stop
\* does not begin one while the start goes on; a disposal has taken over every field.
DisposalInv(p) ==
  /\ p.disp # "no" <=> p.main = "undo" \/ p.stop = "dispose"
  /\ p.main \in Starting \cup {"undo"} => p.stop # "dispose"
  /\ p.main \in {"off", "gone"} => p.stop = "no" /\ p.shut = "no"
  /\ p.disp # "no" => p.held = {}
  /\ p.disp = "no" => p.closing = {}

\* What is held is open, and the start holds what it has opened so far.
HoldsInv(p) ==
  /\ p.held \subseteq p.open
  /\ p.main = "client" => "pool" \in p.held
  /\ p.main \in {"boot", "consume", "sweep"} => {"pool", "queue"} \subseteq p.held
  /\ "titles" \in p.held => "queue" \in p.held

\* A title tick is under way only while its scheduler is held or its stop awaits it, and
\* until then the queue is open.
TitlesInv(p) ==
  /\ p.main # "gone" /\ "titles" \in p.open => "titles" \in p.held
  /\ p.title # "idle" => \/ "titles" \in p.held
                         \/ p.disp = "titles" /\ "titles" \in p.closing
  /\ p.disp = "titles" /\ "titles" \in p.closing => "queue" \in p.open

\* What a disposal still has to close at each of its steps.
ToClose(p) ==
  CASE p.disp = "titles" -> p.closing \ {"titles"}
    [] p.disp = "queue"  -> p.closing \cap {"queue", "pool"}
    [] p.disp = "pool"   -> p.closing \cap {"pool"}
    [] OTHER             -> p.held

\* Nothing is open that is neither held nor being closed, unless a close has failed, and
\* then the shutdown will know.
NoLeak(p) ==
  /\ ~p.broken \/ p.disp = "no" => p.open \subseteq ToClose(p)
  /\ p.disp # "no" /\ p.broken /\ p.main # "undo" => p.shut = "stop"

LeakInv(p) ==
  /\ p.main = "gone" => (p.code = "clean" /\ p.past = {} => p.open = {})
  /\ p.past = {} /\ p.main # "gone" =>
       /\ p.shut # "disconnect" => NoLeak(p)
       /\ p.shut = "disconnect" =>
            /\ p.main \in {"up", "bye"} /\ p.stop = "no" /\ p.held = {}
            /\ ~p.shutdownError => p.open = {}
       /\ p.main = "connect" => p.shut = "no"
       /\ p.shut = "no" /\ p.main \notin {"failing"} => p.stop = "no"
       /\ p.main \in {"failing", "bye"} =>
            /\ p.held = {} /\ p.closing = {}
            /\ p.shut # "disconnect" => p.open = {} /\ (p.disp # "no" => ~p.broken)

ProcInv(p) == DisposalInv(p) /\ HoldsInv(p) /\ TitlesInv(p) /\ LeakInv(p)

-----------------------------------------------------------------------------
(* What each move of a process does to its invariant.                      *)

\* Fields the invariant of a process does not look at.
SameOutline(p, q) ==
  /\ q.main = p.main /\ q.shut = p.shut /\ q.stop = p.stop /\ q.disp = p.disp
  /\ q.held = p.held /\ q.open = p.open /\ q.closing = p.closing /\ q.broken = p.broken
  /\ q.shutdownError = p.shutdownError /\ q.code = p.code /\ q.past = p.past

LEMMA TickKeeps ==
  ASSUME NEW p \in Proc, NEW q \in Proc, ProcInv(p), SameOutline(p, q),
         q.title = "idle" \/ q.title = p.title \/ ("titles" \in p.open /\ p.main # "gone")
  PROVE  ProcInv(q)
<1> USE DEF SameOutline
<1>1. DisposalInv(q) /\ HoldsInv(q)
  BY DEF ProcInv, DisposalInv, HoldsInv
<1>2. TitlesInv(q)
  BY DEF ProcInv, TitlesInv
<1>3. LeakInv(q)
  BY DEF ProcInv, LeakInv, NoLeak, ToClose
<1> QED BY <1>1, <1>2, <1>3 DEF ProcInv

\* A title tick that goes on.
LEMMA BusyTickKeeps ==
  ASSUME NEW p \in Proc, NEW q \in Proc, ProcInv(p), SameOutline(p, q), p.title # "idle"
  PROVE  ProcInv(q)
<1> USE DEF SameOutline
<1>1. DisposalInv(q) /\ HoldsInv(q)
  BY DEF ProcInv, DisposalInv, HoldsInv
<1>2. TitlesInv(q)
  BY DEF ProcInv, TitlesInv
<1>3. LeakInv(q)
  BY DEF ProcInv, LeakInv, NoLeak, ToClose
<1> QED BY <1>1, <1>2, <1>3 DEF ProcInv

\* A process that is started.
LEMMA BootKeeps ==
  ASSUME NEW q, q = [Off EXCEPT !.main = "connect"]
  PROVE  q \in Proc /\ ProcInv(q)
<1>1. q \in Proc
  BY DEF Off, Proc
<1>2. ProcInv(q)
  BY DEF Off, ProcInv, DisposalInv, HoldsInv, TitlesInv, LeakInv, NoLeak, ToClose, Starting
<1> QED BY <1>1, <1>2

\* A process that has not been started.
LEMMA OffKeeps == Off \in Proc /\ ProcInv(Off)
<1>1. Off \in Proc
  BY DEF Off, Proc
<1>2. ProcInv(Off)
  BY DEF Off, ProcInv, DisposalInv, HoldsInv, TitlesInv, LeakInv, NoLeak, ToClose, Starting
<1> QED BY <1>1, <1>2

\* A stop that takes over the fields.
LEMMA StopGoesOnKeeps ==
  ASSUME NEW p \in Proc, ProcInv(p), p.stop = "wait", p.main \notin Starting \cup {"undo"},
         p.main # "gone", NEW q, q = [BeginDispose(p) EXCEPT !.stop = "dispose"]
  PROVE  q \in Proc /\ ProcInv(q) /\ q.health = p.health
<1> PICK b : b = BeginDispose(p)
  OBVIOUS
<1>1. /\ b \in Proc
      /\ b.closing = p.held /\ b.held = {} /\ b.open = p.open \ (p.held \cap {"titles"})
      /\ b.disp = "titles" /\ b.broken = FALSE
      /\ b.main = p.main /\ b.shut = p.shut /\ b.stop = p.stop
      /\ b.shutdownError = p.shutdownError /\ b.title = p.title /\ b.health = p.health
      /\ b.row = p.row /\ b.run = p.run /\ b.code = p.code /\ b.past = p.past
  BY BeginDisposeFields
<1>2. q = [b EXCEPT !.stop = "dispose"]
  OBVIOUS
<1>3. q \in Proc /\ q.stop = "dispose"
  BY <1>1, <1>2 DEF Proc
<1>4. /\ q.closing = p.held /\ q.held = {} /\ q.open = p.open \ (p.held \cap {"titles"})
      /\ q.disp = "titles" /\ q.broken = FALSE /\ q.main = p.main /\ q.shut = p.shut
      /\ q.shutdownError = p.shutdownError /\ q.title = p.title /\ q.code = p.code /\ q.past = p.past
      /\ q.health = p.health
  BY <1>1, <1>2 DEF Proc
<1>5. p.disp = "no" /\ p.closing = {}
  BY DEF ProcInv, DisposalInv
<1>6. DisposalInv(q) /\ HoldsInv(q)
  BY <1>3, <1>4 DEF ProcInv, DisposalInv, HoldsInv, Starting
<1>7. TitlesInv(q)
  BY <1>3, <1>4, <1>5 DEF ProcInv, TitlesInv, HoldsInv
<1>8. LeakInv(q)
  <2>1. ASSUME p.past = {}
        PROVE  /\ p.shut # "disconnect" /\ p.main # "connect" /\ NoLeak(p)
               /\ p.shut = "no" => p.main = "failing"
    BY <1>4, <2>1 DEF ProcInv, LeakInv
  <2>2. ASSUME p.past = {} PROVE p.open \subseteq p.held
    BY <1>5, <2>1, <2>2 DEF NoLeak, ToClose
  <2>3. ASSUME p.past = {} PROVE NoLeak(q)
    <3>1. ToClose(q) = q.closing \ {"titles"}
      BY <1>4 DEF ToClose
    <3> QED BY <1>4, <2>2, <2>3, <3>1 DEF NoLeak
  <2>4. ASSUME p.past = {}, p.main \in {"failing", "bye"} PROVE p.held = {} /\ p.open = {}
    BY <2>1, <2>4 DEF ProcInv, LeakInv
  <2> QED BY <1>3, <1>4, <2>1, <2>3, <2>4 DEF LeakInv
<1> QED BY <1>3, <1>4, <1>6, <1>7, <1>8 DEF ProcInv

\* A start that fails.
LEMMA StartFailsKeeps ==
  ASSUME NEW p \in Proc, ProcInv(p), p.main \in Starting,
         NEW q, q = [BeginDispose(p) EXCEPT !.main = "undo"]
  PROVE  q \in Proc /\ ProcInv(q) /\ q.health = p.health
<1> PICK b : b = BeginDispose(p)
  OBVIOUS
<1>1. /\ b \in Proc
      /\ b.closing = p.held /\ b.held = {} /\ b.open = p.open \ (p.held \cap {"titles"})
      /\ b.disp = "titles" /\ b.broken = FALSE
      /\ b.main = p.main /\ b.shut = p.shut /\ b.stop = p.stop
      /\ b.shutdownError = p.shutdownError /\ b.title = p.title /\ b.health = p.health
      /\ b.row = p.row /\ b.run = p.run /\ b.code = p.code /\ b.past = p.past
  BY BeginDisposeFields
<1>2. q = [b EXCEPT !.main = "undo"]
  OBVIOUS
<1>3. q \in Proc /\ q.main = "undo"
  BY <1>1, <1>2 DEF Proc
<1>4. /\ q.closing = p.held /\ q.held = {} /\ q.open = p.open \ (p.held \cap {"titles"})
      /\ q.disp = "titles" /\ q.broken = FALSE /\ q.shut = p.shut /\ q.stop = p.stop
      /\ q.shutdownError = p.shutdownError /\ q.title = p.title /\ q.code = p.code /\ q.past = p.past
      /\ q.health = p.health
  BY <1>1, <1>2 DEF Proc
<1>5. p.disp = "no" /\ p.closing = {} /\ p.stop # "dispose"
  BY DEF ProcInv, DisposalInv, Starting
<1>6. DisposalInv(q) /\ HoldsInv(q)
  BY <1>3, <1>4, <1>5 DEF ProcInv, DisposalInv, HoldsInv, Starting
<1>7. TitlesInv(q)
  BY <1>3, <1>4, <1>5 DEF ProcInv, TitlesInv, HoldsInv, Starting
<1>8. LeakInv(q)
  BY <1>3, <1>4, <1>5 DEF ProcInv, LeakInv, NoLeak, ToClose, TitlesInv, Starting
<1> QED BY <1>3, <1>4, <1>6, <1>7, <1>8 DEF ProcInv

\* The title scheduler has been stopped.
LEMMA TitlesStoppedKeeps ==
  ASSUME NEW p \in Proc, ProcInv(p), p.disp = "titles",
         "titles" \in p.closing => p.title = "idle",
         NEW q, q = [p EXCEPT !.disp = "queue", !.open = p.open \ (p.closing \cap {"health"})]
  PROVE  q \in Proc /\ ProcInv(q) /\ q.health = p.health
<1>1. q \in Proc
  BY DEF Proc
<1>2. /\ q.disp = "queue" /\ q.open = p.open \ (p.closing \cap {"health"})
      /\ q.main = p.main /\ q.shut = p.shut /\ q.stop = p.stop /\ q.held = p.held
      /\ q.closing = p.closing /\ q.broken = p.broken /\ q.shutdownError = p.shutdownError
      /\ q.title = p.title /\ q.code = p.code /\ q.past = p.past
      /\ q.health = p.health
  BY DEF Proc
<1>3. p.held = {}
  BY DEF ProcInv, DisposalInv
<1>4. DisposalInv(q) /\ HoldsInv(q)
  BY <1>2, <1>3 DEF ProcInv, DisposalInv, HoldsInv, Starting
<1>5. TitlesInv(q)
  BY <1>2, <1>3 DEF ProcInv, TitlesInv
<1>6. LeakInv(q)
  <2>1. p.closing \subseteq Resources
    BY DEF Proc
  <2>2. NoLeak(p) => NoLeak(q)
    BY <1>2, <2>1 DEF NoLeak, ToClose, Resources
  <2> QED BY <1>2, <2>2 DEF ProcInv, LeakInv
<1> QED BY <1>1, <1>2, <1>4, <1>5, <1>6 DEF ProcInv

\* The queue has been stopped, or could not be.
LEMMA QueueStoppedKeeps ==
  ASSUME NEW p \in Proc, ProcInv(p), p.disp = "queue",
         NEW q, \/ q = [p EXCEPT !.disp = "pool", !.open = p.open \ (p.closing \cap {"queue"})]
                \/ "queue" \in p.closing /\ q = [p EXCEPT !.disp = "pool", !.broken = TRUE]
  PROVE  q \in Proc /\ ProcInv(q) /\ q.health = p.health
<1>0. p.held = {} /\ p.main # "gone"
  BY DEF ProcInv, DisposalInv
<1>1. CASE q = [p EXCEPT !.disp = "pool", !.open = p.open \ (p.closing \cap {"queue"})]
  <2>1. q \in Proc
    BY <1>1 DEF Proc
  <2>2. /\ q.disp = "pool" /\ q.open = p.open \ (p.closing \cap {"queue"})
        /\ q.main = p.main /\ q.shut = p.shut /\ q.stop = p.stop /\ q.held = p.held
        /\ q.closing = p.closing /\ q.broken = p.broken /\ q.shutdownError = p.shutdownError
        /\ q.title = p.title /\ q.code = p.code /\ q.past = p.past
      /\ q.health = p.health
    BY <1>1 DEF Proc
  <2>4. DisposalInv(q) /\ HoldsInv(q)
    BY <2>2, <1>0 DEF ProcInv, DisposalInv, HoldsInv, Starting
  <2>5. TitlesInv(q)
    BY <2>2, <1>0 DEF ProcInv, TitlesInv
  <2>6. NoLeak(p) => NoLeak(q)
    BY <2>2 DEF NoLeak, ToClose
  <2>7. LeakInv(q)
    BY <2>2, <2>6 DEF ProcInv, LeakInv
  <2> QED BY <2>1, <2>2, <2>4, <2>5, <2>7 DEF ProcInv
<1>2. CASE "queue" \in p.closing /\ q = [p EXCEPT !.disp = "pool", !.broken = TRUE]
  <2>1. q \in Proc
    BY <1>2 DEF Proc
  <2>2. /\ q.disp = "pool" /\ q.open = p.open /\ q.broken = TRUE
        /\ q.main = p.main /\ q.shut = p.shut /\ q.stop = p.stop /\ q.held = p.held
        /\ q.closing = p.closing /\ q.shutdownError = p.shutdownError
        /\ q.title = p.title /\ q.code = p.code /\ q.past = p.past
      /\ q.health = p.health
    BY <1>2 DEF Proc
  <2>4. DisposalInv(q) /\ HoldsInv(q)
    BY <2>2, <1>0 DEF ProcInv, DisposalInv, HoldsInv, Starting
  <2>5. TitlesInv(q)
    BY <2>2, <1>0 DEF ProcInv, TitlesInv
  <2>6. LeakInv(q)
    <3>1. ASSUME p.past = {}
          PROVE  p.main \notin {"failing", "bye"} /\ (p.main # "undo" => p.shut = "stop")
      <4>1. p.main \notin {"failing", "bye"}
        BY <1>0, <1>2, <3>1 DEF ProcInv, LeakInv
      <4>2. p.main # "undo" => p.stop = "dispose"
        BY DEF ProcInv, DisposalInv
      <4>3. p.main # "undo" => p.shut # "no" /\ p.shut # "disconnect"
        BY <1>0, <3>1, <4>1, <4>2 DEF ProcInv, LeakInv
      <4>4. p.shut \in {"no", "stop", "disconnect"}
        BY DEF Proc
      <4> QED BY <4>1, <4>3, <4>4
    <3>2. p.past = {} => NoLeak(q)
      BY <2>2, <3>1 DEF NoLeak
    <3> QED BY <1>0, <2>2, <3>1, <3>2 DEF ProcInv, LeakInv
  <2> QED BY <2>1, <2>2, <2>4, <2>5, <2>6 DEF ProcInv
<1> QED BY <1>1, <1>2

\* The end of a disposal that belongs to a stop: everybody who awaits it goes on.
LEMMA EndStopKeeps ==
  ASSUME NEW p \in Proc, ProcInv(p), p.disp = "pool", p.main # "undo",
         p.past = {} /\ ~p.broken => p.open = {},
         NEW q, q = EndDispose(p)
  PROVE  q \in Proc /\ ProcInv(q) /\ q.health = p.health
<1> PICK e : e = (p.shutdownError \/ (p.shut = "stop" /\ p.broken))
  OBVIOUS
<1> PICK s : s = IF p.shut = "stop" THEN "disconnect" ELSE p.shut
  OBVIOUS
<1> PICK m : m = IF p.main = "failing" THEN "bye" ELSE p.main
  OBVIOUS
<1>0. /\ p.shut \in {"no", "stop", "disconnect"} /\ p.shutdownError \in BOOLEAN /\ p.broken \in BOOLEAN
      /\ e \in BOOLEAN
  BY DEF Proc
<1> PICK d : d = [p EXCEPT !.disp = "no", !.closing = {}]
  OBVIOUS
<1>1. d \in Proc
  BY DEF Proc
<1>2. /\ d.disp = "no" /\ d.closing = {} /\ d.main = p.main /\ d.shut = p.shut /\ d.stop = p.stop
      /\ d.held = p.held /\ d.open = p.open /\ d.broken = p.broken
      /\ d.shutdownError = p.shutdownError /\ d.title = p.title /\ d.code = p.code /\ d.past = p.past
      /\ d.health = p.health
  BY DEF Proc
<1>3. q = EndStop(d)
  BY DEF EndDispose
<1>4. q = [d EXCEPT !.stop = "no", !.shutdownError = e, !.shut = s, !.main = m]
  BY <1>1, <1>2, <1>3 DEF EndStop, Proc
<1>5. q \in Proc
  <2>1. s \in {"no", "stop", "disconnect"}
    BY <1>0
  <2>2. m \in {"off", "connect", "undo", "up", "failing", "bye", "gone"} \cup Starting
    BY DEF Proc
  <2>3. e \in BOOLEAN
    BY <1>0
  <2>4. [d EXCEPT !.stop = "no", !.shutdownError = e, !.shut = s, !.main = m] \in Proc
    BY ZenonT(60), <1>1, <2>1, <2>2, <2>3, EndStopFields
  <2> QED BY <1>4, <2>4
<1>6. /\ q.stop = "no" /\ q.shutdownError = e /\ q.shut = s /\ q.main = m
      /\ q.disp = "no" /\ q.closing = {} /\ q.held = p.held /\ q.open = p.open
      /\ q.broken = p.broken /\ q.title = p.title /\ q.code = p.code /\ q.past = p.past
      /\ q.health = p.health
  BY <1>1, <1>2, <1>4 DEF Proc
<1>7. /\ p.held = {} /\ p.stop = "dispose"
      /\ p.main \notin {"off", "gone", "undo", "client", "boot", "consume", "sweep"}
  BY DEF ProcInv, DisposalInv, Starting
<1>8. p.main \in {"connect", "up", "failing", "bye"}
  BY <1>7 DEF Proc, Starting
<1>9. DisposalInv(q) /\ HoldsInv(q)
  BY <1>6, <1>7, <1>8 DEF DisposalInv, HoldsInv, Starting
<1>10. TitlesInv(q)
  BY <1>6, <1>7, <1>8 DEF ProcInv, TitlesInv
<1>11. LeakInv(q)
  <2>1. ASSUME p.past = {}
        PROVE  /\ p.shut # "disconnect" /\ p.main # "connect"
               /\ p.shut = "no" => p.main = "failing"
               /\ p.broken => p.shut = "stop"
               /\ p.main \in {"failing", "bye"} => ~p.broken
    BY <1>7, <1>8, <2>1 DEF ProcInv, LeakInv, NoLeak
  <2>2. ASSUME p.past = {}, p.shut = "stop"
        PROVE  q.main \in {"up", "bye"} /\ q.shut = "disconnect" /\ (~q.shutdownError => q.open = {})
    BY <1>0, <1>6, <1>8, <2>1, <2>2
  <2>3. ASSUME p.past = {}, p.shut = "no"
        PROVE  q.main = "bye" /\ q.shut = "no" /\ q.open = {}
    BY <1>0, <1>6, <1>8, <2>1, <2>3
  <2>4. q.open = {} => NoLeak(q)
    BY <1>6 DEF NoLeak
  <2> QED BY <1>0, <1>6, <1>7, <2>1, <2>2, <2>3, <2>4 DEF LeakInv
<1> QED BY <1>5, <1>6, <1>9, <1>10, <1>11 DEF ProcInv

\* The end of the disposal of a failed start, whose failure is swallowed.
LEMMA EndUndoKeeps ==
  ASSUME NEW p \in Proc, ProcInv(p), p.disp = "pool", p.main = "undo",
         p.past = {} /\ ~p.broken => p.open = {},
         NEW q, q = EndDispose(p)
  PROVE  q \in Proc /\ ProcInv(q) /\ q.health = p.health
<1> PICK h : h = p.past \cup (IF p.broken THEN {"undone"} ELSE {})
  OBVIOUS
<1>0. h \in SUBSET {"early", "undone"} /\ (h = {} => p.past = {} /\ ~p.broken)
  BY DEF Proc
<1> PICK d : d = [p EXCEPT !.disp = "no", !.closing = {}]
  OBVIOUS
<1>1. d \in Proc
  BY DEF Proc
<1>2. /\ d.disp = "no" /\ d.closing = {} /\ d.main = p.main /\ d.shut = p.shut /\ d.stop = p.stop
      /\ d.held = p.held /\ d.open = p.open /\ d.broken = p.broken
      /\ d.shutdownError = p.shutdownError /\ d.title = p.title /\ d.code = p.code /\ d.past = p.past
      /\ d.health = p.health
  BY DEF Proc
<1> PICK f : f = [d EXCEPT !.main = "failing", !.past = h]
  OBVIOUS
<1>3. f \in Proc
  BY <1>0, <1>1, FailingFields
<1>4. /\ f.main = "failing" /\ f.past = h /\ f.disp = "no" /\ f.closing = {} /\ f.shut = p.shut
      /\ f.stop = p.stop /\ f.held = p.held /\ f.open = p.open /\ f.broken = p.broken
      /\ f.shutdownError = p.shutdownError /\ f.title = p.title /\ f.code = p.code
      /\ f.health = p.health
  BY <1>1, <1>2 DEF Proc
<1>5. q = CallStop(f)
  <2>1. f = [[p EXCEPT !.disp = "no", !.closing = {}] EXCEPT
               !.main = "failing", !.past = @ \cup IF p.broken THEN {"undone"} ELSE {}]
    BY <1>1, <1>2 DEF Proc
  <2> QED BY <2>1, Zenon DEF EndDispose
<1>6. q \in Proc /\ StopCalled(f, q)
  BY <1>3, <1>5, CallStopIs
<1>7. q \in Proc /\ q.stop = IF p.stop = "no" THEN "wait" ELSE p.stop
  BY <1>4, <1>6 DEF StopCalled
<1>8. /\ q.main = "failing" /\ q.past = h /\ q.disp = "no" /\ q.closing = {} /\ q.shut = p.shut
      /\ q.held = p.held /\ q.open = p.open /\ q.broken = p.broken
      /\ q.shutdownError = p.shutdownError /\ q.title = p.title /\ q.code = p.code
      /\ q.health = p.health
  BY <1>4, <1>6 DEF StopCalled
<1>9. p.held = {} /\ p.stop # "dispose"
  BY DEF ProcInv, DisposalInv
<1>10. DisposalInv(q) /\ HoldsInv(q)
  BY <1>7, <1>8, <1>9 DEF DisposalInv, HoldsInv, Starting
<1>11. TitlesInv(q)
  BY <1>7, <1>8, <1>9 DEF ProcInv, TitlesInv
<1>12. LeakInv(q)
  <2>1. p.past = {} => p.shut # "disconnect"
    BY DEF ProcInv, LeakInv
  <2>2. h = {} => q.open = {}
    BY <1>0, <1>8
  <2>3. q.open = {} => NoLeak(q)
    BY <1>8 DEF NoLeak
  <2> QED BY <1>0, <1>8, <1>9, <2>1, <2>2, <2>3 DEF LeakInv
<1> QED BY <1>7, <1>8, <1>10, <1>11, <1>12 DEF ProcInv

\* The pool has been closed, destroyed, or neither.
LEMMA PoolClosedKeeps ==
  ASSUME NEW p \in Proc, ProcInv(p), p.disp = "pool", NEW q, NEW o,
         o \in {p.open \ (p.closing \cap {"pool"}), p.open},
         \/ o = p.open \ (p.closing \cap {"pool"}) /\ q = EndDispose([p EXCEPT !.open = o])
         \/ "pool" \in p.closing /\ q = EndDispose([p EXCEPT !.open = o, !.broken = TRUE])
  PROVE  q \in Proc /\ ProcInv(q) /\ q.health = p.health
<1> PICK b \in BOOLEAN : \/ b = p.broken /\ o = p.open \ (p.closing \cap {"pool"})
                            /\ q = EndDispose([p EXCEPT !.open = o])
                         \/ b = TRUE /\ "pool" \in p.closing
                            /\ q = EndDispose([p EXCEPT !.open = o, !.broken = TRUE])
  BY DEF Proc
<1> PICK c : c = [p EXCEPT !.open = o, !.broken = b]
  OBVIOUS
<1>0. p.held = {} /\ p.main \notin {"off", "gone"} /\ o \in SUBSET Resources /\ p.open \in SUBSET Resources
  BY DEF ProcInv, DisposalInv, Proc
<1>1. c \in Proc
  BY <1>0 DEF Proc
<1>2. /\ c.open = o /\ c.broken = b /\ c.disp = "pool"
      /\ c.main = p.main /\ c.shut = p.shut /\ c.stop = p.stop /\ c.held = p.held
      /\ c.closing = p.closing /\ c.shutdownError = p.shutdownError
      /\ c.title = p.title /\ c.code = p.code /\ c.past = p.past
      /\ c.health = p.health
  BY <1>0 DEF Proc
<1>3. q = EndDispose(c)
  <2>1. b = p.broken => [p EXCEPT !.open = o] = c
    BY DEF Proc
  <2> QED BY <2>1
<1>4. DisposalInv(c) /\ HoldsInv(c) /\ TitlesInv(c)
  BY <1>0, <1>2 DEF ProcInv, DisposalInv, HoldsInv, TitlesInv, Starting
<1>5. ASSUME p.past = {}, ~b PROVE o = {}
  <2>1. p.shut # "disconnect"
    BY <1>0, <1>5 DEF ProcInv, LeakInv, DisposalInv
  <2>2. NoLeak(p) /\ ~p.broken /\ o = p.open \ (p.closing \cap {"pool"})
    BY <1>0, <1>5, <2>1 DEF ProcInv, LeakInv
  <2>3. p.open \subseteq p.closing \cap {"pool"}
    BY <2>2 DEF NoLeak, ToClose
  <2> QED BY <2>2, <2>3
<1>6. LeakInv(c)
  <2>1. ASSUME p.past = {}, b, ~p.broken
        PROVE  p.main \notin {"failing", "bye"} /\ (p.main # "undo" => p.shut = "stop")
    <3>1. p.main \notin {"failing", "bye"}
      BY <1>0, <2>1 DEF ProcInv, LeakInv
    <3>2. p.main # "undo" => p.stop = "dispose"
      BY DEF ProcInv, DisposalInv
    <3>3. p.main # "undo" => p.shut # "no" /\ p.shut # "disconnect"
      BY <1>0, <2>1, <3>1, <3>2 DEF ProcInv, LeakInv
    <3>4. p.shut \in {"no", "stop", "disconnect"}
      BY DEF Proc
    <3> QED BY <3>1, <3>3, <3>4
  <2>2. ASSUME p.past = {}, p.shut # "disconnect" PROVE NoLeak(c)
    <3>1. NoLeak(p)
      BY <1>0, <2>2 DEF ProcInv, LeakInv
    <3> QED BY <1>2, <1>5, <2>1, <2>2, <3>1 DEF NoLeak
  <2>3. ASSUME p.past = {} PROVE p.shut # "disconnect"
    BY <1>0, <2>3 DEF ProcInv, LeakInv, DisposalInv
  <2>4. ASSUME p.past = {}, p.main \in {"failing", "bye"} PROVE o = {} /\ ~b
    <3>1. ~p.broken /\ p.closing = {}
      BY <1>0, <2>3, <2>4 DEF ProcInv, LeakInv
    <3> QED BY <1>5, <2>1, <2>4, <3>1
  <2> QED BY <1>0, <1>2, <2>2, <2>3, <2>4 DEF ProcInv, LeakInv
<1> QED BY <1>1, <1>2, <1>3, <1>4, <1>5, <1>6, EndStopKeeps, EndUndoKeeps DEF ProcInv

\* What a step of the start opens is held from then on.
Opened(p, q, r) ==
  /\ q.held = p.held \cup r /\ q.open = p.open \cup r
  /\ q.main = p.main /\ q.shut = p.shut /\ q.stop = p.stop /\ q.disp = p.disp
  /\ q.closing = p.closing /\ q.broken = p.broken /\ q.shutdownError = p.shutdownError
  /\ q.title = p.title /\ q.health = p.health /\ q.row = p.row /\ q.run = p.run
  /\ q.code = p.code /\ q.past = p.past

LEMMA OpenFields ==
  ASSUME NEW p \in Proc, NEW r \in SUBSET Resources
  PROVE  Open(p, r) \in Proc /\ Opened(p, Open(p, r), r)
<1> PICK h : h = p.held \cup r
  OBVIOUS
<1> PICK o : o = p.open \cup r
  OBVIOUS
<1> PICK q : q = [p EXCEPT !.held = h, !.open = o]
  OBVIOUS
<1>1. Open(p, r) = q
  BY DEF Open
<1>2. h \in SUBSET Resources /\ o \in SUBSET Resources
  BY DEF Proc
<1>3. q \in Proc
  BY <1>2 DEF Proc
<1>4. Opened(p, q, r)
  BY <1>2, <1>3 DEF Opened, Proc
<1> QED BY <1>1, <1>3, <1>4

\* A step of the start that succeeds, with what it opens.
StartMoves(p, q, r) ==
  /\ q.held = p.held \cup r /\ q.open = p.open \cup r
  /\ \/ p.main = "connect" /\ p.stop = "no" /\ q.main = "client" /\ r = {"pool"}
     \/ p.main = "client" /\ q.main = "boot" /\ r = {"queue"}
     \/ p.main = "boot" /\ q.main = "consume" /\ r = {}
     \/ p.main = "consume" /\ q.main = "sweep" /\ r = {"health"}
     \/ p.main = "sweep" /\ q.main = "up" /\ r = {"titles"}
  /\ q.shut = p.shut /\ q.stop = p.stop /\ q.disp = p.disp /\ q.closing = p.closing
  /\ q.broken = p.broken /\ q.shutdownError = p.shutdownError /\ q.code = p.code /\ q.past = p.past
  /\ q.title = p.title \/ r = {"titles"}

LEMMA StartKeeps ==
  ASSUME NEW p \in Proc, NEW q \in Proc, NEW r, ProcInv(p), StartMoves(p, q, r)
  PROVE  ProcInv(q)
<1> USE DEF StartMoves
<1>1. p.disp = "no" /\ p.closing = {} /\ p.stop # "dispose" /\ p.main \notin {"undo", "gone", "off"}
  BY DEF ProcInv, DisposalInv, Starting
<1>2. DisposalInv(q)
  BY <1>1 DEF ProcInv, DisposalInv, Starting
<1>3. HoldsInv(q)
  BY DEF ProcInv, HoldsInv
<1>4. TitlesInv(q)
  BY <1>1 DEF ProcInv, TitlesInv
<1>5. LeakInv(q)
  <2>1. NoLeak(p) => NoLeak(q)
    <3>1. ToClose(p) = p.held /\ ToClose(q) = q.held
      BY <1>1 DEF ToClose
    <3> QED BY <1>1, <3>1 DEF NoLeak
  <2>2. p.main \notin {"up", "bye", "failing"} /\ q.main \notin {"gone", "connect", "failing", "bye"}
    OBVIOUS
  <2>3. ASSUME p.past = {}
        PROVE  p.shut # "disconnect" /\ NoLeak(p) /\ (p.shut = "no" => p.stop = "no")
    BY <1>1, <2>2, <2>3 DEF ProcInv, LeakInv
  <2> QED BY <2>1, <2>2, <2>3 DEF LeakInv
<1> QED BY <1>2, <1>3, <1>4, <1>5 DEF ProcInv

\* Another place in the start, or another state of a scheduler's tick.
Entered(p, c, m) ==
  /\ c.main = m /\ c.held = p.held /\ c.open = p.open
  /\ c.shut = p.shut /\ c.stop = p.stop /\ c.disp = p.disp
  /\ c.closing = p.closing /\ c.broken = p.broken /\ c.shutdownError = p.shutdownError
  /\ c.row = p.row /\ c.run = p.run /\ c.code = p.code /\ c.past = p.past

LEMMA MainFields ==
  ASSUME NEW p \in Proc, NEW m \in Starting \cup {"up"}, NEW c, c = [p EXCEPT !.main = m]
  PROVE  c \in Proc /\ Entered(p, c, m) /\ c.title = p.title /\ c.health = p.health
BY DEF Proc, Entered

\* Neither the job it has created nor the one that runs here changes.
SameRows(p, c) == c.row = p.row /\ c.run = p.run

LEMMA HealthFields ==
  ASSUME NEW p \in Proc, NEW h \in {"idle", "owner", "look", "create", "send"}
  PROVE  LET c == [p EXCEPT !.health = h]
         IN c \in Proc /\ c.health = h /\ SameOutline(p, c) /\ c.title = p.title /\ SameRows(p, c)
<1> PICK c : c = [p EXCEPT !.health = h]
  OBVIOUS
<1> QED BY DEF Proc, SameOutline, SameRows

LEMMA TitleFields ==
  ASSUME NEW p \in Proc, NEW t \in {"idle", "scan", "send"}
  PROVE  LET c == [p EXCEPT !.title = t]
         IN c \in Proc /\ c.title = t /\ SameOutline(p, c) /\ c.health = p.health /\ SameRows(p, c)
<1> PICK c : c = [p EXCEPT !.title = t]
  OBVIOUS
<1> QED BY DEF Proc, SameOutline, SameRows

LEMMA RunFields ==
  ASSUME NEW p \in Proc, NEW j \in Rows \cup {None}, NEW c, c = [p EXCEPT !.run = j]
  PROVE  /\ c \in Proc /\ c.run = j /\ SameOutline(p, c)
         /\ c.title = p.title /\ c.health = p.health /\ c.row = p.row
BY DEF Proc, SameOutline

LEMMA RowFields ==
  ASSUME NEW p \in Proc, NEW j \in Rows \cup {None}
  PROVE  LET c == [p EXCEPT !.row = j]
         IN c \in Proc /\ SameOutline(p, c) /\ c.title = p.title /\ c.health = p.health
<1> PICK c : c = [p EXCEPT !.row = j]
  OBVIOUS
<1> QED BY DEF Proc, SameOutline

\* The five steps of the start.
LEMMA ConnectedKeeps ==
  ASSUME NEW p \in Proc, ProcInv(p), p.main = "connect", p.stop = "no"
  PROVE  LET q == Open([p EXCEPT !.main = "client"], {"pool"})
         IN q \in Proc /\ ProcInv(q) /\ q.health = p.health /\ q.row = p.row /\ q.run = p.run
<1> PICK c : c = [p EXCEPT !.main = "client"]
  OBVIOUS
<1> PICK q : q = Open(c, {"pool"})
  OBVIOUS
<1>1. c \in Proc /\ Entered(p, c, "client") /\ c.title = p.title /\ c.health = p.health
  BY MainFields DEF Starting
<1>2. q \in Proc /\ Opened(c, q, {"pool"})
  BY <1>1, OpenFields DEF Resources
<1>3. StartMoves(p, q, {"pool"})
  BY <1>1, <1>2 DEF StartMoves, Entered, Opened
<1>4. ProcInv(q)
  BY <1>2, <1>3, StartKeeps
<1> QED BY <1>1, <1>2, <1>4 DEF Entered, Opened

LEMMA ClientCreatedKeeps ==
  ASSUME NEW p \in Proc, ProcInv(p), p.main = "client"
  PROVE  LET q == Open([p EXCEPT !.main = "boot"], {"queue"})
         IN q \in Proc /\ ProcInv(q) /\ q.health = p.health /\ q.row = p.row /\ q.run = p.run
<1> PICK c : c = [p EXCEPT !.main = "boot"]
  OBVIOUS
<1> PICK q : q = Open(c, {"queue"})
  OBVIOUS
<1>1. c \in Proc /\ Entered(p, c, "boot") /\ c.title = p.title /\ c.health = p.health
  BY MainFields DEF Starting
<1>2. q \in Proc /\ Opened(c, q, {"queue"})
  BY <1>1, OpenFields DEF Resources
<1>3. StartMoves(p, q, {"queue"})
  BY <1>1, <1>2 DEF StartMoves, Entered, Opened
<1>4. ProcInv(q)
  BY <1>2, <1>3, StartKeeps
<1> QED BY <1>1, <1>2, <1>4 DEF Entered, Opened

LEMMA BossStartedKeeps ==
  ASSUME NEW p \in Proc, ProcInv(p), p.main = "boot"
  PROVE  LET q == [p EXCEPT !.main = "consume"]
         IN q \in Proc /\ ProcInv(q) /\ q.health = p.health /\ q.row = p.row /\ q.run = p.run
<1> PICK q : q = [p EXCEPT !.main = "consume"]
  OBVIOUS
<1>1. q \in Proc /\ Entered(p, q, "consume") /\ q.title = p.title /\ q.health = p.health
  BY MainFields DEF Starting
<1>2. StartMoves(p, q, {})
  BY <1>1 DEF StartMoves, Entered
<1>3. ProcInv(q)
  BY <1>1, <1>2, StartKeeps
<1> QED BY <1>1, <1>3 DEF Entered

LEMMA SweepFields ==
  ASSUME NEW p \in Proc
  PROVE  LET c == [p EXCEPT !.main = "sweep", !.health = "owner"]
         IN c \in Proc /\ Entered(p, c, "sweep") /\ c.title = p.title /\ c.health = "owner"
<1> PICK b : b = [p EXCEPT !.main = "sweep"]
  OBVIOUS
<1>1. b \in Proc /\ Entered(p, b, "sweep") /\ b.title = p.title
  BY MainFields DEF Starting
<1> PICK c : c = [b EXCEPT !.health = "owner"]
  OBVIOUS
<1>2. c \in Proc /\ c.health = "owner" /\ SameOutline(b, c) /\ c.title = b.title /\ SameRows(b, c)
  BY <1>1, HealthFields
<1>3. Entered(p, c, "sweep") /\ c.title = p.title
  BY <1>1, <1>2 DEF Entered, SameOutline, SameRows
<1> QED BY <1>2, <1>3

LEMMA UpFields ==
  ASSUME NEW p \in Proc
  PROVE  LET c == [p EXCEPT !.main = "up", !.title = "scan"]
         IN c \in Proc /\ Entered(p, c, "up") /\ c.title = "scan" /\ c.health = p.health
<1> PICK b : b = [p EXCEPT !.main = "up"]
  OBVIOUS
<1>1. b \in Proc /\ Entered(p, b, "up") /\ b.health = p.health
  BY MainFields
<1> PICK c : c = [b EXCEPT !.title = "scan"]
  OBVIOUS
<1>2. c \in Proc /\ c.title = "scan" /\ SameOutline(b, c) /\ c.health = b.health /\ SameRows(b, c)
  BY <1>1, TitleFields
<1>3. Entered(p, c, "up") /\ c.health = p.health
  BY <1>1, <1>2 DEF Entered, SameOutline, SameRows
<1> QED BY <1>2, <1>3

LEMMA ConsumingKeeps ==
  ASSUME NEW p \in Proc, ProcInv(p), p.main = "consume"
  PROVE  LET q == Open([p EXCEPT !.main = "sweep", !.health = "owner"], {"health"})
         IN q \in Proc /\ ProcInv(q) /\ q.health = "owner" /\ q.row = p.row /\ q.run = p.run
<1> PICK c : c = [p EXCEPT !.main = "sweep", !.health = "owner"]
  OBVIOUS
<1> PICK q : q = Open(c, {"health"})
  OBVIOUS
<1>1. c \in Proc /\ Entered(p, c, "sweep") /\ c.title = p.title /\ c.health = "owner"
  BY SweepFields
<1>2. q \in Proc /\ Opened(c, q, {"health"})
  BY <1>1, OpenFields DEF Resources
<1>3. StartMoves(p, q, {"health"})
  BY <1>1, <1>2 DEF StartMoves, Entered, Opened
<1>4. ProcInv(q)
  BY <1>2, <1>3, StartKeeps
<1> QED BY <1>1, <1>2, <1>4 DEF Entered, Opened

LEMMA SweptKeeps ==
  ASSUME NEW p \in Proc, ProcInv(p), p.main = "sweep"
  PROVE  LET q == Open([p EXCEPT !.main = "up", !.title = "scan"], {"titles"})
         IN q \in Proc /\ ProcInv(q) /\ q.health = p.health /\ q.row = p.row /\ q.run = p.run
<1> PICK c : c = [p EXCEPT !.main = "up", !.title = "scan"]
  OBVIOUS
<1> PICK q : q = Open(c, {"titles"})
  OBVIOUS
<1>1. c \in Proc /\ Entered(p, c, "up") /\ c.title = "scan" /\ c.health = p.health
  BY UpFields
<1>2. q \in Proc /\ Opened(c, q, {"titles"})
  BY <1>1, OpenFields DEF Resources
<1>3. StartMoves(p, q, {"titles"})
  BY <1>1, <1>2 DEF StartMoves, Entered, Opened
<1>4. ProcInv(q)
  BY <1>2, <1>3, StartKeeps
<1> QED BY <1>1, <1>2, <1>4 DEF Entered, Opened

\* A signal, at any time: the stop begins, and what a start before the database is
\* connected opens behind it is remembered.
SignalMoves(p, q) ==
  /\ q.shut = "stop" /\ q.stop = (IF p.stop = "no" THEN "wait" ELSE p.stop)
  /\ p.main = "connect" => q.past # {}
  /\ p.past # {} => q.past # {}
  /\ q.main = p.main /\ q.disp = p.disp /\ q.closing = p.closing
  /\ q.held = p.held /\ q.open = p.open /\ q.broken = p.broken
  /\ q.title = p.title /\ q.code = p.code

LEMMA SignalInv ==
  ASSUME NEW p \in Proc, NEW q \in Proc, ProcInv(p), SignalMoves(p, q),
         p.main \notin {"off", "gone"}, p.shut = "no"
  PROVE  ProcInv(q)
<1> USE DEF SignalMoves
<1>1. DisposalInv(q) /\ HoldsInv(q)
  BY DEF ProcInv, DisposalInv, HoldsInv
<1>2. TitlesInv(q)
  BY DEF ProcInv, TitlesInv
<1>3. LeakInv(q)
  <2>1. NoLeak(p) => NoLeak(q)
    BY DEF NoLeak, ToClose
  <2> QED BY <2>1 DEF ProcInv, LeakInv
<1> QED BY <1>1, <1>2, <1>3 DEF ProcInv

Signalled(p, c, h) ==
  /\ c.shut = "stop" /\ c.past = h
  /\ c.main = p.main /\ c.stop = p.stop /\ c.disp = p.disp /\ c.closing = p.closing
  /\ c.held = p.held /\ c.open = p.open /\ c.broken = p.broken /\ c.title = p.title
  /\ c.code = p.code /\ c.health = p.health /\ c.row = p.row /\ c.run = p.run

LEMMA SignalFields ==
  ASSUME NEW p \in Proc, NEW h \in SUBSET {"early", "undone"}
  PROVE  LET c == [p EXCEPT !.shut = "stop", !.past = h] IN c \in Proc /\ Signalled(p, c, h)
<1> PICK c : c = [p EXCEPT !.shut = "stop", !.past = h]
  OBVIOUS
<1> QED BY DEF Proc, Signalled

LEMMA SignalEarly ==
  ASSUME NEW p \in Proc, NEW x
  PROVE  [p EXCEPT !.shut = "stop", !.past = @ \cup x] = [p EXCEPT !.shut = "stop", !.past = p.past \cup x]
BY DEF Proc

LEMMA SignalKeeps ==
  ASSUME NEW p \in Proc, ProcInv(p), p.main \notin {"off", "gone"}, p.shut = "no"
  PROVE  LET q == CallStop([p EXCEPT !.shut = "stop",
                              !.past = @ \cup IF p.main = "connect" THEN {"early"} ELSE {}])
         IN q \in Proc /\ ProcInv(q) /\ q.health = p.health /\ q.row = p.row /\ q.run = p.run
<1> PICK h : h = p.past \cup (IF p.main = "connect" THEN {"early"} ELSE {})
  OBVIOUS
<1>0. /\ h \in SUBSET {"early", "undone"} /\ (p.main = "connect" => h # {}) /\ (p.past # {} => h # {})
  BY DEF Proc
<1> PICK c : c = [p EXCEPT !.shut = "stop", !.past = h]
  OBVIOUS
<1>1. c \in Proc /\ Signalled(p, c, h)
  BY <1>0, SignalFields
<1> PICK q : q = CallStop(c)
  OBVIOUS
<1>2. q \in Proc /\ StopCalled(c, q)
  BY <1>1, CallStopIs
<1>3. SignalMoves(p, q)
  BY <1>0, <1>1, <1>2 DEF SignalMoves, StopCalled, Signalled
<1>4. ProcInv(q)
  BY <1>2, <1>3, SignalInv
<1>5. q.health = p.health /\ q.row = p.row /\ q.run = p.run
  BY <1>1, <1>2 DEF StopCalled, Signalled
<1>6. c = [p EXCEPT !.shut = "stop", !.past = @ \cup IF p.main = "connect" THEN {"early"} ELSE {}]
  BY SignalEarly
<1> QED BY <1>2, <1>4, <1>5, <1>6, Zenon

\* The end of a process, whatever ended it.
Stopped(p, c) ==
  /\ c.main = "gone" /\ c.shut = "no" /\ c.stop = "no" /\ c.disp = "no"
  /\ c.open = p.open /\ c.past = p.past

LEMMA StoppedFields ==
  ASSUME NEW p \in Proc
  PROVE  LET c == [p EXCEPT !.main = "gone", !.shut = "no", !.stop = "no", !.disp = "no"]
         IN c \in Proc /\ Stopped(p, c)
<1> PICK c : c = [p EXCEPT !.main = "gone", !.shut = "no", !.stop = "no", !.disp = "no"]
  OBVIOUS
<1> QED BY ZenonT(60) DEF Proc, Stopped

Cleared(p, c) ==
  /\ c.main = p.main /\ c.shut = p.shut /\ c.stop = p.stop /\ c.disp = p.disp
  /\ c.held = {} /\ c.closing = {} /\ c.open = p.open /\ c.past = p.past

LEMMA ClearedFields ==
  ASSUME NEW p \in Proc
  PROVE  LET c == [p EXCEPT !.held = {}, !.closing = {}, !.broken = FALSE, !.shutdownError = FALSE]
         IN c \in Proc /\ Cleared(p, c)
<1> PICK c : c = [p EXCEPT !.held = {}, !.closing = {}, !.broken = FALSE, !.shutdownError = FALSE]
  OBVIOUS
<1> QED BY DEF Proc, Cleared

Idled(p, c, how) ==
  /\ c.main = p.main /\ c.shut = p.shut /\ c.stop = p.stop /\ c.disp = p.disp
  /\ c.held = p.held /\ c.closing = p.closing /\ c.open = p.open /\ c.past = p.past
  /\ c.title = "idle" /\ c.health = "idle" /\ c.code = how

LEMMA NoRowFields ==
  ASSUME NEW p \in Proc
  PROVE  LET b == [p EXCEPT !.title = "idle", !.health = "idle", !.row = None]
         IN b \in Proc /\ Idled(p, b, p.code)
<1> PICK b : b = [p EXCEPT !.title = "idle", !.health = "idle", !.row = None]
  OBVIOUS
<1> QED BY ZenonT(60) DEF Proc, Idled

LEMMA NoRunFields ==
  ASSUME NEW p \in Proc, p.title = "idle", p.health = "idle", NEW how \in {"clean", "failed", "killed"}
  PROVE  LET c == [p EXCEPT !.run = None, !.code = how] IN c \in Proc /\ Idled(p, c, how)
<1> PICK c : c = [p EXCEPT !.run = None, !.code = how]
  OBVIOUS
<1> QED BY ZenonT(60) DEF Proc, Idled

LEMMA IdledFields ==
  ASSUME NEW p \in Proc, NEW how \in {"clean", "failed", "killed"}
  PROVE  LET c == [p EXCEPT !.title = "idle", !.health = "idle", !.row = None, !.run = None, !.code = how]
         IN c \in Proc /\ Idled(p, c, how)
<1> PICK b : b = [p EXCEPT !.title = "idle", !.health = "idle", !.row = None]
  OBVIOUS
<1>1. b \in Proc /\ Idled(p, b, p.code)
  BY NoRowFields
<1> PICK c : c = [b EXCEPT !.run = None, !.code = how]
  OBVIOUS
<1>2. b.title = "idle" /\ b.health = "idle"
  BY <1>1 DEF Idled
<1>3. c \in Proc /\ Idled(b, c, how)
  BY <1>1, <1>2, NoRunFields
<1> QED BY <1>1, <1>3 DEF Idled

Ended(p, q, how) ==
  /\ q.main = "gone" /\ q.shut = "no" /\ q.stop = "no" /\ q.disp = "no"
  /\ q.held = {} /\ q.closing = {} /\ q.title = "idle" /\ q.health = "idle"
  /\ q.code = how /\ q.open = p.open /\ q.past = p.past

LEMMA GoneFields ==
  ASSUME NEW p \in Proc, NEW how \in {"clean", "failed", "killed"}
  PROVE  LET q == [p EXCEPT !.main = "gone", !.shut = "no", !.stop = "no", !.disp = "no",
                     !.held = {}, !.closing = {}, !.broken = FALSE, !.shutdownError = FALSE,
                     !.title = "idle", !.health = "idle", !.row = None, !.run = None, !.code = how]
         IN q \in Proc /\ Ended(p, q, how)
<1> PICK c : c = [p EXCEPT !.main = "gone", !.shut = "no", !.stop = "no", !.disp = "no"]
  OBVIOUS
<1> PICK d : d = [c EXCEPT !.held = {}, !.closing = {}, !.broken = FALSE, !.shutdownError = FALSE]
  OBVIOUS
<1> PICK q : q = [d EXCEPT !.title = "idle", !.health = "idle", !.row = None, !.run = None, !.code = how]
  OBVIOUS
<1>1. c \in Proc /\ Stopped(p, c)
  BY StoppedFields
<1>2. d \in Proc /\ Cleared(c, d)
  BY <1>1, ClearedFields
<1>3. q \in Proc /\ Idled(d, q, how)
  BY <1>2, IdledFields
<1>4. Ended(p, q, how)
  BY <1>1, <1>2, <1>3 DEF Stopped, Cleared, Idled, Ended
<1> QED BY <1>3, <1>4

LEMMA GoneKeeps ==
  ASSUME NEW p \in Proc, NEW q \in Proc, NEW how, ProcInv(p), Ended(p, q, how),
         how = "clean" => p.shut = "disconnect" /\ ~p.shutdownError
  PROVE  ProcInv(q)
<1>1. DisposalInv(q) /\ HoldsInv(q) /\ TitlesInv(q)
  BY DEF Ended, DisposalInv, HoldsInv, TitlesInv, Starting
<1>2. LeakInv(q)
  <2>1. ASSUME how = "clean", p.past = {} PROVE p.open = {}
    <3>1. p.main # "gone"
      BY <2>1 DEF ProcInv, DisposalInv
    <3> QED BY <2>1, <3>1 DEF ProcInv, LeakInv
  <2> QED BY <2>1 DEF Ended, LeakInv
<1> QED BY <1>1, <1>2 DEF ProcInv

-----------------------------------------------------------------------------
(* All workers: types, and the invariant of each process.                  *)

WorkersInv == TypeOK /\ \A w \in Workers : ProcInv(proc[w])

\* At most one worker looks for a sampling job and creates one, the one with the lock;
\* until it has done so, none is active.
Sampling == {"look", "create", "send"}
SampleInv ==
  ~expired =>
    /\ \A w \in Workers : proc[w].health \in Sampling => lock = w
    /\ \A i, j \in Active : i = j
    /\ (\E w \in Workers : proc[w].health = "create") => Active = {}

\* A step of worker w after which its process is as the invariant says, and nobody but
\* the worker itself has got nearer to a new sampling job.
Calm(w) ==
  \E q \in Proc : /\ ProcInv(q) /\ q.health \in {proc[w].health, "idle", "owner"}
                  /\ proc' = [proc EXCEPT ![w] = q]

LEMMA StopGoesOnCalm ==
  ASSUME WorkersInv, NEW w \in Workers, StopGoesOn(w)
  PROVE  Calm(w)
<1> PICK p : p = proc[w]
  OBVIOUS
<1>1. p \in Proc /\ ProcInv(p) /\ p.stop = "wait" /\ p.main \notin Starting \cup {"undo"}
  BY DEF WorkersInv, TypeOK, StopGoesOn
<1>2. p.main # "gone"
  BY <1>1 DEF ProcInv, DisposalInv
<1> PICK q : q = [BeginDispose(p) EXCEPT !.stop = "dispose"]
  OBVIOUS
<1>3. q \in Proc /\ ProcInv(q) /\ q.health = p.health
  BY <1>1, <1>2, StopGoesOnKeeps
<1>4. proc' = [proc EXCEPT ![w] = q]
  BY DEF StopGoesOn, Becomes
<1> QED BY <1>3, <1>4 DEF Calm

LEMMA TitlesStoppedCalm ==
  ASSUME WorkersInv, NEW w \in Workers, TitlesStopped(w)
  PROVE  Calm(w)
<1> PICK p : p = proc[w]
  OBVIOUS
<1>1. p \in Proc /\ ProcInv(p) /\ p.disp = "titles" /\ ("titles" \in p.closing => p.title = "idle")
  BY DEF WorkersInv, TypeOK, TitlesStopped
<1> PICK q : q = [p EXCEPT !.disp = "queue", !.open = p.open \ (p.closing \cap {"health"})]
  OBVIOUS
<1>3. q \in Proc /\ ProcInv(q) /\ q.health = p.health
  BY <1>1, TitlesStoppedKeeps
<1>4. proc' = [proc EXCEPT ![w] = q]
  <2>1. q = [p EXCEPT !.disp = "queue", !.open = @ \ (p.closing \cap {"health"})]
    BY <1>1 DEF Proc
  <2> QED BY <2>1 DEF TitlesStopped, Becomes
<1> QED BY <1>3, <1>4 DEF Calm

LEMMA QueueStoppedCalm ==
  ASSUME WorkersInv, NEW w \in Workers, QueueStopped(w)
  PROVE  Calm(w)
<1> PICK p : p = proc[w]
  OBVIOUS
<1>1. p \in Proc /\ ProcInv(p) /\ p.disp = "queue"
  BY DEF WorkersInv, TypeOK, QueueStopped
<1>2. CASE proc' = [proc EXCEPT ![w] = [p EXCEPT !.disp = "pool", !.open = @ \ (p.closing \cap {"queue"})]]
  <2> PICK q : q = [p EXCEPT !.disp = "pool", !.open = p.open \ (p.closing \cap {"queue"})]
    OBVIOUS
  <2>1. q \in Proc /\ ProcInv(q) /\ q.health = p.health
    BY <1>1, QueueStoppedKeeps
  <2>2. q = [p EXCEPT !.disp = "pool", !.open = @ \ (p.closing \cap {"queue"})]
    BY <1>1 DEF Proc
  <2> QED BY <1>2, <2>1, <2>2 DEF Calm
<1>3. CASE /\ "queue" \in p.closing
           /\ proc' = [proc EXCEPT ![w] = [p EXCEPT !.disp = "pool", !.broken = TRUE]]
  <2> PICK q : q = [p EXCEPT !.disp = "pool", !.broken = TRUE]
    OBVIOUS
  <2>1. q \in Proc /\ ProcInv(q) /\ q.health = p.health
    BY <1>1, <1>3, QueueStoppedKeeps
  <2> QED BY <1>3, <2>1 DEF Calm
<1> QED BY <1>2, <1>3 DEF QueueStopped, Becomes

LEMMA PoolClosedCalm ==
  ASSUME WorkersInv, NEW w \in Workers, PoolClosed(w)
  PROVE  Calm(w)
<1> PICK p : p = proc[w]
  OBVIOUS
<1> PICK r : r = p.open \ (p.closing \cap {"pool"})
  OBVIOUS
<1>1. p \in Proc /\ ProcInv(p) /\ p.disp = "pool"
  BY DEF WorkersInv, TypeOK, PoolClosed
<1>2. PICK o \in {r, p.open} :
        \/ o = r /\ Becomes(w, EndDispose([p EXCEPT !.open = o]))
        \/ "pool" \in p.closing /\ Becomes(w, EndDispose([p EXCEPT !.open = o, !.broken = TRUE]))
  BY DEF PoolClosed
<1>3. PICK q :
        /\ \/ o = r /\ q = EndDispose([p EXCEPT !.open = o])
           \/ "pool" \in p.closing /\ q = EndDispose([p EXCEPT !.open = o, !.broken = TRUE])
        /\ proc' = [proc EXCEPT ![w] = q]
  BY <1>2 DEF Becomes
<1>4. q \in Proc /\ ProcInv(q) /\ q.health = p.health
  BY <1>1, <1>2, <1>3, PoolClosedKeeps
<1> QED BY <1>3, <1>4 DEF Calm

LEMMA ConnectedCalm ==
  ASSUME WorkersInv, NEW w \in Workers, Connected(w)
  PROVE  Calm(w)
<1> PICK p : p = proc[w]
  OBVIOUS
<1>1. p \in Proc /\ ProcInv(p) /\ p.main = "connect" /\ p.stop = "no"
  BY DEF WorkersInv, TypeOK, Connected
<1> PICK q : q = Open([p EXCEPT !.main = "client"], {"pool"})
  OBVIOUS
<1>2. q \in Proc /\ ProcInv(q) /\ q.health \in {p.health, "owner"}
  BY <1>1, ConnectedKeeps
<1>3. proc' = [proc EXCEPT ![w] = q]
  BY DEF Connected, Becomes
<1> QED BY <1>2, <1>3 DEF Calm

LEMMA ClientCreatedCalm ==
  ASSUME WorkersInv, NEW w \in Workers, ClientCreated(w)
  PROVE  Calm(w)
<1> PICK p : p = proc[w]
  OBVIOUS
<1>1. p \in Proc /\ ProcInv(p) /\ p.main = "client"
  BY DEF WorkersInv, TypeOK, ClientCreated
<1> PICK q : q = Open([p EXCEPT !.main = "boot"], {"queue"})
  OBVIOUS
<1>2. q \in Proc /\ ProcInv(q) /\ q.health \in {p.health, "owner"}
  BY <1>1, ClientCreatedKeeps
<1>3. proc' = [proc EXCEPT ![w] = q]
  BY DEF ClientCreated, Becomes
<1> QED BY <1>2, <1>3 DEF Calm

LEMMA BossStartedCalm ==
  ASSUME WorkersInv, NEW w \in Workers, BossStarted(w)
  PROVE  Calm(w)
<1> PICK p : p = proc[w]
  OBVIOUS
<1>1. p \in Proc /\ ProcInv(p) /\ p.main = "boot"
  BY DEF WorkersInv, TypeOK, BossStarted
<1> PICK q : q = [p EXCEPT !.main = "consume"]
  OBVIOUS
<1>2. q \in Proc /\ ProcInv(q) /\ q.health \in {p.health, "owner"}
  BY <1>1, BossStartedKeeps
<1>3. proc' = [proc EXCEPT ![w] = q]
  BY DEF BossStarted, Becomes
<1> QED BY <1>2, <1>3 DEF Calm

LEMMA ConsumingCalm ==
  ASSUME WorkersInv, NEW w \in Workers, Consuming(w)
  PROVE  Calm(w)
<1> PICK p : p = proc[w]
  OBVIOUS
<1>1. p \in Proc /\ ProcInv(p) /\ p.main = "consume"
  BY DEF WorkersInv, TypeOK, Consuming
<1> PICK q : q = Open([p EXCEPT !.main = "sweep", !.health = "owner"], {"health"})
  OBVIOUS
<1>2. q \in Proc /\ ProcInv(q) /\ q.health \in {p.health, "owner"}
  BY <1>1, ConsumingKeeps
<1>3. proc' = [proc EXCEPT ![w] = q]
  BY DEF Consuming, Becomes
<1> QED BY <1>2, <1>3 DEF Calm

LEMMA SweptCalm ==
  ASSUME WorkersInv, NEW w \in Workers, Swept(w)
  PROVE  Calm(w)
<1> PICK p : p = proc[w]
  OBVIOUS
<1>1. p \in Proc /\ ProcInv(p) /\ p.main = "sweep"
  BY DEF WorkersInv, TypeOK, Swept
<1> PICK q : q = Open([p EXCEPT !.main = "up", !.title = "scan"], {"titles"})
  OBVIOUS
<1>2. q \in Proc /\ ProcInv(q) /\ q.health \in {p.health, "owner"}
  BY <1>1, SweptKeeps
<1>3. proc' = [proc EXCEPT ![w] = q]
  BY DEF Swept, Becomes
<1> QED BY <1>2, <1>3 DEF Calm

LEMMA StartFailsCalm ==
  ASSUME WorkersInv, NEW w \in Workers, StartFails(w)
  PROVE  Calm(w)
<1> PICK p : p = proc[w]
  OBVIOUS
<1>1. p \in Proc /\ ProcInv(p) /\ p.main \in Starting
  BY DEF WorkersInv, TypeOK, StartFails
<1> PICK q : q = [BeginDispose(p) EXCEPT !.main = "undo"]
  OBVIOUS
<1>2. q \in Proc /\ ProcInv(q) /\ q.health \in {p.health, "owner"}
  BY <1>1, StartFailsKeeps
<1>3. proc' = [proc EXCEPT ![w] = q]
  BY DEF StartFails, Becomes
<1> QED BY <1>2, <1>3 DEF Calm

LEMMA SignalCalm ==
  ASSUME WorkersInv, NEW w \in Workers, Signal(w)
  PROVE  Calm(w)
<1> PICK p : p = proc[w]
  OBVIOUS
<1>1. p \in Proc /\ ProcInv(p) /\ p.main \notin {"off", "gone"} /\ p.shut = "no"
  BY DEF WorkersInv, TypeOK, Signal, Alive
<1> PICK q : q = CallStop([p EXCEPT !.shut = "stop",
                              !.past = @ \cup IF p.main = "connect" THEN {"early"} ELSE {}])
  OBVIOUS
<1>2. q \in Proc /\ ProcInv(q) /\ q.health \in {p.health, "owner"}
  BY <1>1, SignalKeeps
<1>3. proc' = [proc EXCEPT ![w] = q]
  BY DEF Signal, Becomes
<1> QED BY <1>2, <1>3 DEF Calm


LEMMA BootCalm ==
  ASSUME WorkersInv, NEW w \in Workers, Boot(w)
  PROVE  Calm(w)
<1> PICK q : q = [Off EXCEPT !.main = "connect"]
  OBVIOUS
<1>1. q \in Proc /\ ProcInv(q)
  BY BootKeeps
<1>2. q.health = "idle"
  BY DEF Off
<1> QED BY <1>1, <1>2 DEF Calm, Boot

LEMMA GoneCalm ==
  ASSUME WorkersInv, NEW w \in Workers, NEW how \in {"clean", "failed", "killed"}, Gone(w, how),
         how = "clean" => proc[w].shut = "disconnect" /\ ~proc[w].shutdownError
  PROVE  Calm(w)
<1> PICK p : p = proc[w]
  OBVIOUS
<1> PICK q : q = [p EXCEPT !.main = "gone", !.shut = "no", !.stop = "no", !.disp = "no",
                     !.held = {}, !.closing = {}, !.broken = FALSE, !.shutdownError = FALSE,
                     !.title = "idle", !.health = "idle", !.row = None, !.run = None, !.code = how]
  OBVIOUS
<1>1. p \in Proc /\ ProcInv(p)
  BY DEF WorkersInv, TypeOK
<1>2. q \in Proc /\ Ended(p, q, how)
  BY <1>1, GoneFields
<1>3. ProcInv(q)
  BY <1>1, <1>2, GoneKeeps
<1>4. q.health = "idle"
  BY <1>2 DEF Ended
<1>5. proc' = [proc EXCEPT ![w] = q]
  BY DEF Gone, Becomes
<1> QED BY <1>2, <1>3, <1>4, <1>5 DEF Calm

LEMMA ExitsCalm ==
  ASSUME WorkersInv, NEW w \in Workers, ShutdownExits(w) \/ FailedStartExits(w) \/ Killed(w)
  PROVE  Calm(w)
<1>1. PICK how \in {"clean", "failed", "killed"} :
        Gone(w, how) /\ (how = "clean" => proc[w].shut = "disconnect" /\ ~proc[w].shutdownError)
  BY Zenon DEF ShutdownExits, FailedStartExits, Killed
<1> QED BY <1>1, GoneCalm

LEMMA TitleStep ==
  ASSUME NEW p \in Proc, ProcInv(p), NEW t \in {"idle", "scan", "send"},
         t = "idle" \/ p.title # "idle" \/ ("titles" \in p.open /\ p.main # "gone")
  PROVE  LET q == [p EXCEPT !.title = t] IN q \in Proc /\ ProcInv(q) /\ q.health = p.health
<1> PICK q : q = [p EXCEPT !.title = t]
  OBVIOUS
<1>1. q \in Proc /\ q.title = t /\ SameOutline(p, q) /\ q.health = p.health
  BY TitleFields
<1>2. ProcInv(q)
  BY <1>1, TickKeeps, BusyTickKeeps
<1> QED BY <1>1, <1>2

LEMMA TitleTickCalm ==
  ASSUME WorkersInv, NEW w \in Workers, TitleTick(w)
  PROVE  Calm(w)
<1>1. proc[w] \in Proc /\ ProcInv(proc[w]) /\ proc[w].main # "gone"
  BY DEF WorkersInv, TypeOK, TitleTick, Alive
<1>2. PICK t \in {"idle", "scan", "send"} :
        /\ proc' = [proc EXCEPT ![w] = [proc[w] EXCEPT !.title = t]]
        /\ t = "idle" \/ proc[w].title # "idle" \/ "titles" \in proc[w].open
  BY DEF TitleTick, Becomes
<1> PICK q : q = [proc[w] EXCEPT !.title = t]
  OBVIOUS
<1>3. q \in Proc /\ ProcInv(q) /\ q.health = proc[w].health
  BY <1>1, <1>2, TitleStep
<1> QED BY <1>2, <1>3 DEF Calm

\* What a step of the health scheduler or of a run does to its process.
LEMMA HealthStep ==
  ASSUME NEW p \in Proc, ProcInv(p), NEW h \in {"idle", "owner", "look", "create", "send"}
  PROVE  LET q == [p EXCEPT !.health = h] IN q \in Proc /\ ProcInv(q) /\ q.health = h
<1> PICK q : q = [p EXCEPT !.health = h]
  OBVIOUS
<1>1. q \in Proc /\ q.health = h /\ SameOutline(p, q) /\ q.title = p.title
  BY HealthFields
<1>2. ProcInv(q)
  BY <1>1, TickKeeps
<1> QED BY <1>1, <1>2

LEMMA RowStep ==
  ASSUME NEW p \in Proc, ProcInv(p), NEW h \in {"idle", "owner", "look", "create", "send"},
         NEW j \in Rows \cup {None}
  PROVE  LET q == [p EXCEPT !.health = h, !.row = j] IN q \in Proc /\ ProcInv(q) /\ q.health = h
<1> PICK b : b = [p EXCEPT !.health = h]
  OBVIOUS
<1>1. b \in Proc /\ ProcInv(b) /\ b.health = h
  BY HealthStep
<1> PICK q : q = [b EXCEPT !.row = j]
  OBVIOUS
<1>2. q \in Proc /\ SameOutline(b, q) /\ q.title = b.title /\ q.health = b.health
  BY <1>1, RowFields
<1>3. ProcInv(q)
  BY <1>1, <1>2, TickKeeps
<1> QED BY <1>1, <1>2, <1>3

LEMMA RunStep ==
  ASSUME NEW p \in Proc, ProcInv(p), NEW j \in Rows \cup {None}
  PROVE  LET q == [p EXCEPT !.run = j] IN q \in Proc /\ ProcInv(q) /\ q.health = p.health
<1> PICK q : q = [p EXCEPT !.run = j]
  OBVIOUS
<1>1. q \in Proc /\ q.health = p.health /\ SameOutline(p, q) /\ q.title = p.title
  BY RunFields
<1>2. ProcInv(q)
  BY <1>1, TickKeeps
<1> QED BY <1>1, <1>2

LEMMA HealthTickCalm ==
  ASSUME WorkersInv, NEW w \in Workers, HealthTick(w)
  PROVE  Calm(w)
<1>1. proc[w] \in Proc /\ ProcInv(proc[w])
  BY DEF WorkersInv, TypeOK
<1> PICK q : q = [proc[w] EXCEPT !.health = "owner"]
  OBVIOUS
<1>2. q \in Proc /\ ProcInv(q) /\ q.health = "owner"
  BY <1>1, HealthStep
<1>3. proc' = [proc EXCEPT ![w] = q]
  BY DEF HealthTick, Tick, Becomes
<1> QED BY <1>2, <1>3 DEF Calm

LEMMA SendSampleCalm ==
  ASSUME WorkersInv, NEW w \in Workers, SendSample(w)
  PROVE  Calm(w)
<1>1. proc[w] \in Proc /\ ProcInv(proc[w])
  BY DEF WorkersInv, TypeOK
<1> PICK q : q = [proc[w] EXCEPT !.health = "idle", !.row = None]
  OBVIOUS
<1>2. q \in Proc /\ ProcInv(q) /\ q.health = "idle"
  BY <1>1, RowStep
<1>3. proc' = [proc EXCEPT ![w] = q]
  BY DEF SendSample, Becomes
<1> QED BY <1>2, <1>3 DEF Calm

LEMMA RunSampleCalm ==
  ASSUME WorkersInv, NEW w \in Workers, RunSample(w)
  PROVE  Calm(w)
<1>1. proc[w] \in Proc /\ ProcInv(proc[w])
  BY DEF WorkersInv, TypeOK
<1>2. PICK j \in Rows : proc' = [proc EXCEPT ![w] = [proc[w] EXCEPT !.run = j]]
  BY DEF RunSample, Becomes
<1> PICK q : q = [proc[w] EXCEPT !.run = j]
  OBVIOUS
<1>3. q \in Proc /\ ProcInv(q) /\ q.health = proc[w].health
  BY <1>1, RunStep
<1> QED BY <1>2, <1>3 DEF Calm

LEMMA RunEndsCalm ==
  ASSUME WorkersInv, NEW w \in Workers, RunEnds(w)
  PROVE  Calm(w)
<1>1. proc[w] \in Proc /\ ProcInv(proc[w])
  BY DEF WorkersInv, TypeOK
<1> PICK q : q = [proc[w] EXCEPT !.run = None]
  OBVIOUS
<1>2. q \in Proc /\ ProcInv(q) /\ q.health = proc[w].health
  BY <1>1, RunStep
<1>3. proc' = [proc EXCEPT ![w] = q]
  BY DEF RunEnds, Becomes
<1> QED BY <1>2, <1>3 DEF Calm

\* The other variables keep their types.
RestTypes ==
  /\ job \in [Rows -> {"none", "unsent", "queued", "running", "cancelling"}]
  /\ lock \in Workers \cup {None} /\ expired \in BOOLEAN
  /\ starts \in 0..MaxStarts /\ faults \in 0..MaxFaults

LEMMA CountTypes ==
  ASSUME TypeOK, Smooth \/ Fault
  PROVE  faults' \in 0..MaxFaults
BY WorkerCounts DEF TypeOK, Smooth, Fault

LEMMA NoJobsTypes ==
  ASSUME TypeOK, NoJobs, starts' = starts \/ (starts < MaxStarts /\ starts' = starts + 1),
         Smooth \/ Fault
  PROVE  RestTypes'
<1>1. faults' \in 0..MaxFaults
  BY CountTypes
<1>2. starts' \in 0..MaxStarts
  BY WorkerCounts DEF TypeOK
<1> QED BY <1>1, <1>2 DEF TypeOK, NoJobs, RestTypes

LEMMA StartsTypes ==
  ASSUME TypeOK, NEW w \in Workers,
         \/ Boot(w) \/ Connected(w) \/ ClientCreated(w) \/ BossStarted(w) \/ Consuming(w) \/ StartFails(w)
         \/ StopGoesOn(w) \/ TitlesStopped(w) \/ QueueStopped(w) \/ PoolClosed(w) \/ Signal(w)
         \/ TitleTick(w)
  PROVE  RestTypes'
<1>1. CASE Boot(w)
  BY <1>1, NoJobsTypes, Zenon DEF Boot, Becomes
<1>2. CASE Connected(w)
  BY <1>2, NoJobsTypes, Zenon DEF Connected, Becomes
<1>3. CASE ClientCreated(w)
  BY <1>3, NoJobsTypes, Zenon DEF ClientCreated, Becomes
<1>4. CASE BossStarted(w)
  BY <1>4, NoJobsTypes, Zenon DEF BossStarted, Becomes
<1>5. CASE Consuming(w)
  BY <1>5, NoJobsTypes, Zenon DEF Consuming, Becomes
<1>6. CASE StartFails(w)
  BY <1>6, NoJobsTypes, Zenon DEF StartFails, Becomes
<1>7. CASE StopGoesOn(w)
  BY <1>7, NoJobsTypes, Zenon DEF StopGoesOn, Becomes
<1>8. CASE TitlesStopped(w)
  BY <1>8, NoJobsTypes, Zenon DEF TitlesStopped, Becomes
<1>9. CASE QueueStopped(w)
  BY <1>9, NoJobsTypes, Zenon DEF QueueStopped, Becomes
<1>10. CASE PoolClosed(w)
  BY <1>10, NoJobsTypes, Zenon DEF PoolClosed, Becomes
<1>11. CASE Signal(w)
  BY <1>11, NoJobsTypes, Zenon DEF Signal, Becomes
<1>12. CASE TitleTick(w)
  BY <1>12, NoJobsTypes, Zenon DEF TitleTick, Becomes
<1> QED BY <1>1, <1>2, <1>3, <1>4, <1>5, <1>6, <1>7, <1>8, <1>9, <1>10, <1>11, <1>12

LEMMA GoneTypes ==
  ASSUME TypeOK, NEW w \in Workers, ShutdownExits(w) \/ FailedStartExits(w) \/ Killed(w)
  PROVE  RestTypes'
<1>1. (Smooth \/ Fault) /\ \E how : Gone(w, how)
  BY DEF ShutdownExits, FailedStartExits, Killed
<1>2. faults' \in 0..MaxFaults
  BY <1>1, CountTypes
<1>3. starts' = starts /\ job' = job /\ expired' = expired /\ lock' \in {lock, None}
  BY <1>1 DEF Gone, Becomes
<1> QED BY <1>2, <1>3 DEF TypeOK, RestTypes

LEMMA SweptTypes ==
  ASSUME TypeOK, NEW w \in Workers, Swept(w)
  PROVE  RestTypes'
<1>1. faults' \in 0..MaxFaults
  BY CountTypes DEF Swept
<1>2. starts' = starts /\ lock' = lock /\ expired' = expired
  BY DEF Swept, Becomes
<1>3. job' \in [Rows -> {"none", "unsent", "queued", "running", "cancelling"}]
  BY DEF Swept, TypeOK
<1> QED BY <1>1, <1>2, <1>3 DEF TypeOK, RestTypes

LEMMA HealthTypes ==
  ASSUME TypeOK, NEW w \in Workers,
         HealthTick(w) \/ TakeLock(w) \/ LookForJob(w) \/ CreateSample(w) \/ SendSample(w)
  PROVE  RestTypes'
<1>1. CASE HealthTick(w)
  BY <1>1, NoJobsTypes, Zenon DEF HealthTick, Tick, Becomes
<1>2. CASE TakeLock(w)
  <2>1. faults' \in 0..MaxFaults
    BY <1>2, CountTypes DEF TakeLock
  <2> QED BY <1>2, <2>1 DEF TakeLock, Tick, Becomes, TypeOK, RestTypes
<1>3. CASE LookForJob(w)
  <2>1. faults' \in 0..MaxFaults
    BY <1>3, CountTypes DEF LookForJob
  <2> QED BY <1>3, <2>1 DEF LookForJob, Tick, Becomes, Release, TypeOK, RestTypes
<1>4. CASE CreateSample(w)
  <2>1. faults' \in 0..MaxFaults
    BY <1>4, CountTypes DEF CreateSample
  <2> QED BY <1>4, <2>1 DEF CreateSample, Tick, Becomes, Release, FreeRows, TypeOK, RestTypes
<1>5. CASE SendSample(w)
  <2>1. faults' \in 0..MaxFaults
    BY <1>5, CountTypes DEF SendSample
  <2> QED BY <1>5, <2>1 DEF SendSample, Becomes, Release, TypeOK, RestTypes
<1> QED BY <1>1, <1>2, <1>3, <1>4, <1>5

LEMMA RunTypes ==
  ASSUME TypeOK, NEW w \in Workers, RunSample(w) \/ RunEnds(w)
  PROVE  RestTypes'
<1>1. faults' \in 0..MaxFaults
  BY CountTypes DEF RunSample, RunEnds
<1> QED BY <1>1 DEF RunSample, RunEnds, Becomes, TypeOK, RestTypes

LEMMA OutsideTypes ==
  ASSUME TypeOK, LockExpires \/ CancelSample
  PROVE  RestTypes'
<1>1. faults' \in 0..MaxFaults
  BY CountTypes DEF LockExpires, CancelSample
<1> QED BY <1>1 DEF LockExpires, CancelSample, Active, TypeOK, RestTypes

\* The steps of the health scheduler that take the lock and create the job.
LEMMA SamplingSteps ==
  ASSUME WorkersInv, NEW w \in Workers, TakeLock(w) \/ LookForJob(w) \/ CreateSample(w)
  PROVE  \E q \in Proc : ProcInv(q) /\ proc' = [proc EXCEPT ![w] = q]
<1>1. proc[w] \in Proc /\ ProcInv(proc[w])
  BY DEF WorkersInv, TypeOK
<1>2. ASSUME NEW h \in {"idle", "look", "create"}, Tick(w, h)
      PROVE  \E q \in Proc : ProcInv(q) /\ proc' = [proc EXCEPT ![w] = q]
  <2> PICK q : q = [proc[w] EXCEPT !.health = h]
    OBVIOUS
  <2>1. q \in Proc /\ ProcInv(q)
    BY <1>1, HealthStep
  <2> QED BY <1>2, <2>1 DEF Tick, Becomes
<1>3. ASSUME NEW j \in Rows, Becomes(w, [proc[w] EXCEPT !.health = "send", !.row = j])
      PROVE  \E q \in Proc : ProcInv(q) /\ proc' = [proc EXCEPT ![w] = q]
  <2> PICK q : q = [proc[w] EXCEPT !.health = "send", !.row = j]
    OBVIOUS
  <2>1. q \in Proc /\ ProcInv(q)
    BY <1>1, RowStep
  <2> QED BY <1>3, <2>1 DEF Becomes
<1>4. CASE TakeLock(w)
  BY <1>2, <1>4 DEF TakeLock
<1>5. CASE LookForJob(w)
  <2>1. Tick(w, "create") \/ Tick(w, "idle")
    BY <1>5 DEF LookForJob
  <2> QED BY <1>2, <2>1
<1>6. CASE CreateSample(w)
  <2>1. Tick(w, "idle") \/ \E j \in Rows : Becomes(w, [proc[w] EXCEPT !.health = "send", !.row = j])
    BY <1>6 DEF CreateSample, FreeRows
  <2> QED BY <1>2, <1>3, <2>1
<1> QED BY <1>4, <1>5, <1>6

\* A step of one worker, by its kind.
LEMMA CalmSteps ==
  ASSUME WorkersInv, NEW w \in Workers,
         \/ Boot(w) \/ Start(w) \/ StartFails(w) \/ Dispose(w) \/ Exit(w)
         \/ Signal(w) \/ Killed(w) \/ TitleTick(w) \/ HealthTick(w) \/ SendSample(w) \/ Runs(w)
  PROVE  Calm(w) /\ RestTypes'
<1>0. TypeOK
  BY DEF WorkersInv
<1>1. CASE Boot(w)
  BY <1>0, <1>1, BootCalm, StartsTypes
<1>2. CASE Start(w)
  BY <1>0, <1>2, ConnectedCalm, ClientCreatedCalm, BossStartedCalm, ConsumingCalm, SweptCalm,
     StartsTypes, SweptTypes DEF Start
<1>3. CASE StartFails(w)
  BY <1>0, <1>3, StartFailsCalm, StartsTypes
<1>4. CASE Dispose(w)
  BY <1>0, <1>4, StopGoesOnCalm, TitlesStoppedCalm, QueueStoppedCalm, PoolClosedCalm, StartsTypes DEF Dispose
<1>5. CASE Exit(w) \/ Killed(w)
  BY <1>0, <1>5, ExitsCalm, GoneTypes DEF Exit
<1>6. CASE Signal(w)
  BY <1>0, <1>6, SignalCalm, StartsTypes
<1>7. CASE TitleTick(w)
  BY <1>0, <1>7, TitleTickCalm, StartsTypes
<1>8. CASE HealthTick(w) \/ SendSample(w)
  BY <1>0, <1>8, HealthTickCalm, SendSampleCalm, HealthTypes
<1>9. CASE Runs(w)
  BY <1>0, <1>9, RunSampleCalm, RunEndsCalm, RunTypes DEF Runs
<1> QED BY <1>1, <1>2, <1>3, <1>4, <1>5, <1>6, <1>7, <1>8, <1>9

\* One process has moved, and the others have not.
LEMMA WorkersMove ==
  ASSUME WorkersInv, RestTypes', NEW w \in Workers, NEW q \in Proc, ProcInv(q),
         proc' = [proc EXCEPT ![w] = q]
  PROVE  WorkersInv'
<1>1. proc \in [Workers -> Proc] /\ \A v \in Workers : ProcInv(proc[v])
  BY DEF WorkersInv, TypeOK
<1>2. proc' \in [Workers -> Proc]
  BY <1>1
<1>3. ASSUME NEW v \in Workers PROVE ProcInv(proc'[v])
  <2>1. proc'[v] = IF v = w THEN q ELSE proc[v]
    BY <1>1
  <2> QED BY <1>1, <2>1
<1>4. (\A v \in Workers : ProcInv(proc[v]))'
  BY <1>3
<1> QED BY <1>2, <1>4 DEF WorkersInv, TypeOK, RestTypes

LEMMA WorkersNext == WorkersInv /\ [Next]_vars => WorkersInv'
<1> SUFFICES ASSUME WorkersInv, [Next]_vars PROVE WorkersInv'
  OBVIOUS
<1>0. TypeOK
  BY DEF WorkersInv
<1>1. ASSUME NEW w \in Workers,
             \/ Boot(w) \/ Start(w) \/ StartFails(w) \/ Dispose(w) \/ Exit(w)
             \/ Signal(w) \/ Killed(w) \/ TitleTick(w) \/ Health(w) \/ Runs(w)
      PROVE  WorkersInv'
  <2>1. RestTypes'
    BY <1>0, <1>1, CalmSteps, HealthTypes DEF Health
  <2>2. \E q \in Proc : ProcInv(q) /\ proc' = [proc EXCEPT ![w] = q]
    BY <1>1, CalmSteps, SamplingSteps DEF Health, Calm
  <2> QED BY <2>1, <2>2, WorkersMove
<1>2. CASE LockExpires \/ CancelSample
  <2>1. RestTypes'
    BY <1>0, <1>2, OutsideTypes
  <2>2. proc' = proc
    BY <1>2 DEF LockExpires, CancelSample
  <2> QED BY <2>1, <2>2 DEF WorkersInv, TypeOK, RestTypes
<1>3. CASE UNCHANGED vars
  BY <1>3 DEF vars, WorkersInv, TypeOK
<1> QED BY <1>1, <1>2, <1>3 DEF Next

LEMMA WorkersInit == Init => WorkersInv
<1> SUFFICES ASSUME Init PROVE WorkersInv
  OBVIOUS
<1>1. \A w \in Workers : proc[w] = Off
  BY DEF Init
<1>2. TypeOK
  <2>1. proc \in [Workers -> Proc]
    BY OffKeeps DEF Init
  <2>2. starts \in 0..MaxStarts /\ faults \in 0..MaxFaults
    BY WorkerCounts DEF Init
  <2>3. job \in [Rows -> {"none", "unsent", "queued", "running", "cancelling"}]
    BY DEF Init
  <2> QED BY <2>1, <2>2, <2>3 DEF Init, TypeOK
<1> QED BY <1>1, <1>2, OffKeeps DEF WorkersInv

-----------------------------------------------------------------------------
(* One sampling job, however many workers.                                 *)

\* A step of worker w that activates no job and starts no sampling; if it gives the lock
\* back it is not sampling any more.
QuietStep(w) ==
  /\ \A v \in Workers : proc'[v].health \in Sampling => proc'[v].health = proc[v].health
  /\ lock' = lock \/ (proc'[w].health \notin Sampling /\ lock' = IF lock = w THEN None ELSE lock)
  /\ \A j \in Rows : job'[j] # "none" => job[j] # "none"
  /\ expired' = expired

LEMMA QuietKeeps ==
  ASSUME SampleInv, NEW w \in Workers, QuietStep(w)
  PROVE  SampleInv'
<1> SUFFICES ASSUME ~expired'
             PROVE  /\ \A v \in Workers : proc'[v].health \in Sampling => lock' = v
                    /\ \A i, j \in Active' : i = j
                    /\ (\E v \in Workers : proc'[v].health = "create") => Active' = {}
  BY DEF SampleInv, Sampling
<1>1. ~expired
  BY DEF QuietStep
<1>2. Active' \subseteq Active
  BY DEF QuietStep, Active
<1>3. ASSUME NEW v \in Workers, proc'[v].health \in Sampling PROVE lock' = v
  <2>1. proc[v].health \in Sampling
    BY <1>3 DEF QuietStep
  <2>2. lock = v
    BY <1>1, <2>1 DEF SampleInv
  <2> QED BY <1>3, <2>2 DEF QuietStep
<1>4. \A i, j \in Active' : i = j
  BY <1>1, <1>2 DEF SampleInv
<1>5. ASSUME NEW v \in Workers, proc'[v].health = "create" PROVE Active' = {}
  <2>1. proc[v].health = "create"
    BY <1>5 DEF QuietStep, Sampling
  <2>2. Active = {}
    BY <1>1, <2>1 DEF SampleInv
  <2> QED BY <1>2, <2>2
<1> QED BY <1>3, <1>4, <1>5

\* A calm step starts no sampling.
LEMMA CalmHealth ==
  ASSUME WorkersInv, NEW w \in Workers, Calm(w)
  PROVE  \A v \in Workers : proc'[v].health \in Sampling => proc'[v].health = proc[v].health
<1>1. PICK q \in Proc : q.health \in {proc[w].health, "idle", "owner"} /\ proc' = [proc EXCEPT ![w] = q]
  BY DEF Calm
<1>2. \A v \in Workers : proc'[v] = IF v = w THEN q ELSE proc[v]
  BY <1>1 DEF WorkersInv, TypeOK
<1> QED BY <1>1, <1>2 DEF Sampling

\* Where the tick of a worker is after a step of it.
LEMMA TickHealth ==
  ASSUME WorkersInv, NEW w \in Workers, NEW h \in {"idle", "owner", "look", "create", "send"}, Tick(w, h)
  PROVE  proc'[w].health = h /\ \A v \in Workers : v # w => proc'[v] = proc[v]
<1> PICK q : q = [proc[w] EXCEPT !.health = h]
  OBVIOUS
<1>1. proc[w] \in Proc /\ ProcInv(proc[w]) /\ proc \in [Workers -> Proc]
  BY DEF WorkersInv, TypeOK
<1>2. q.health = h
  BY <1>1, HealthStep
<1>3. proc' = [proc EXCEPT ![w] = q]
  BY DEF Tick, Becomes
<1> QED BY <1>1, <1>2, <1>3

\* A worker that is gone does not sample.
LEMMA GoneHealth ==
  ASSUME WorkersInv, NEW w \in Workers, NEW how \in {"clean", "failed", "killed"}, Gone(w, how)
  PROVE  proc'[w].health = "idle"
<1> PICK p : p = proc[w]
  OBVIOUS
<1> PICK q : q = [p EXCEPT !.main = "gone", !.shut = "no", !.stop = "no", !.disp = "no",
                     !.held = {}, !.closing = {}, !.broken = FALSE, !.shutdownError = FALSE,
                     !.title = "idle", !.health = "idle", !.row = None, !.run = None, !.code = how]
  OBVIOUS
<1>1. p \in Proc /\ proc \in [Workers -> Proc]
  BY DEF WorkersInv, TypeOK
<1>2. Ended(p, q, how)
  BY <1>1, GoneFields
<1>3. proc' = [proc EXCEPT ![w] = q]
  BY DEF Gone, Becomes
<1> QED BY <1>1, <1>2, <1>3 DEF Ended

LEMMA ExitsQuiet ==
  ASSUME WorkersInv, NEW w \in Workers, ShutdownExits(w) \/ FailedStartExits(w) \/ Killed(w)
  PROVE  QuietStep(w)
<1>1. PICK how \in {"clean", "failed", "killed"} : Gone(w, how)
  BY Zenon DEF ShutdownExits, FailedStartExits, Killed
<1>2. proc'[w].health = "idle"
  BY <1>1, GoneHealth
<1>3. Calm(w)
  BY ExitsCalm
<1>4. lock' = (IF lock = w THEN None ELSE lock) /\ job' = job /\ expired' = expired
  BY <1>1 DEF Gone
<1> QED BY <1>2, <1>3, <1>4, CalmHealth DEF QuietStep, Sampling

LEMMA SendSampleQuiet ==
  ASSUME WorkersInv, NEW w \in Workers, SendSample(w)
  PROVE  QuietStep(w)
<1> PICK q : q = [proc[w] EXCEPT !.health = "idle", !.row = None]
  OBVIOUS
<1>1. proc[w] \in Proc /\ ProcInv(proc[w]) /\ proc \in [Workers -> Proc]
  BY DEF WorkersInv, TypeOK
<1>2. q.health = "idle"
  BY <1>1, RowStep
<1>3. proc'[w].health = "idle"
  BY <1>1, <1>2 DEF SendSample, Becomes
<1>4. Calm(w)
  BY SendSampleCalm
<1>5. lock' = (IF lock = w THEN None ELSE lock) /\ expired' = expired
  BY DEF SendSample, Release
<1>6. \A j \in Rows : job'[j] # "none" => job[j] # "none"
  <2>1. PICK s : job' = [job EXCEPT ![proc[w].row] = IF @ \in {"unsent", "queued"} THEN s ELSE @]
    BY DEF SendSample
  <2> QED BY <2>1 DEF WorkersInv, TypeOK
<1> QED BY <1>3, <1>4, <1>5, <1>6, CalmHealth DEF QuietStep, Sampling

\* The other calm steps leave the lock alone.
LEMMA CalmQuiet ==
  ASSUME WorkersInv, NEW w \in Workers, Calm(w), UNCHANGED <<lock, expired>>,
         \A j \in Rows : job'[j] # "none" => job[j] # "none"
  PROVE  QuietStep(w)
BY CalmHealth DEF QuietStep

LEMMA UntouchedJobs ==
  ASSUME NEW w \in Workers,
         \/ Boot(w) \/ Connected(w) \/ ClientCreated(w) \/ BossStarted(w) \/ Consuming(w) \/ StartFails(w)
         \/ StopGoesOn(w) \/ TitlesStopped(w) \/ QueueStopped(w) \/ PoolClosed(w) \/ Signal(w)
         \/ TitleTick(w) \/ HealthTick(w)
  PROVE  UNCHANGED <<job, lock, expired>>
<1>1. NoJobs
  BY Zenon DEF Boot, Connected, ClientCreated, BossStarted, Consuming, StartFails, StopGoesOn,
     TitlesStopped, QueueStopped, PoolClosed, Signal, TitleTick, HealthTick
<1> QED BY <1>1 DEF NoJobs

LEMMA ChangedJobs ==
  ASSUME WorkersInv, NEW w \in Workers, Swept(w) \/ RunSample(w) \/ RunEnds(w)
  PROVE  UNCHANGED <<lock, expired>> /\ \A j \in Rows : job'[j] # "none" => job[j] # "none"
<1>1. CASE Swept(w)
  BY <1>1 DEF Swept
<1>2. CASE RunSample(w)
  BY <1>2 DEF RunSample, WorkersInv, TypeOK
<1>3. CASE RunEnds(w)
  BY <1>3 DEF RunEnds, WorkersInv, TypeOK
<1> QED BY <1>1, <1>2, <1>3

\* The three steps that lead to a new sampling job.
LEMMA TakeLockKeeps ==
  ASSUME WorkersInv, SampleInv, NEW w \in Workers, TakeLock(w)
  PROVE  SampleInv'
<1>1. job' = job /\ expired' = expired
  BY DEF TakeLock
<1>2. CASE lock = None /\ lock' = w /\ Tick(w, "look")
  <2>1. proc'[w].health = "look" /\ \A v \in Workers : v # w => proc'[v] = proc[v]
    BY <1>2, TickHealth
  <2>2. ASSUME ~expired PROVE \A v \in Workers : proc[v].health \notin Sampling
    BY <1>2, <2>2, WorkerCounts DEF SampleInv
  <2>3. Active' = Active
    BY <1>1 DEF Active
  <2> QED BY <1>1, <1>2, <2>1, <2>2, <2>3 DEF SampleInv, Sampling
<1>3. CASE lock' = lock /\ Tick(w, "idle")
  <2>1. proc'[w].health = "idle" /\ \A v \in Workers : v # w => proc'[v] = proc[v]
    BY <1>3, TickHealth
  <2>2. QuietStep(w)
    BY <1>1, <1>3, <2>1 DEF QuietStep, Sampling
  <2> QED BY <2>2, QuietKeeps
<1> QED BY <1>2, <1>3 DEF TakeLock

LEMMA LookForJobKeeps ==
  ASSUME WorkersInv, SampleInv, NEW w \in Workers, LookForJob(w)
  PROVE  SampleInv'
<1>1. job' = job /\ expired' = expired
  BY DEF LookForJob
<1>2. CASE lock = w /\ Active = {} /\ lock' = lock /\ Tick(w, "create")
  <2>1. proc'[w].health = "create" /\ \A v \in Workers : v # w => proc'[v] = proc[v]
    BY <1>2, TickHealth
  <2>2. Active' = {}
    BY <1>1, <1>2 DEF Active
  <2> QED BY <1>1, <1>2, <2>1, <2>2 DEF SampleInv, Sampling
<1>3. CASE Release(w) /\ Tick(w, "idle")
  <2>1. proc'[w].health = "idle" /\ \A v \in Workers : v # w => proc'[v] = proc[v]
    BY <1>3, TickHealth
  <2>2. QuietStep(w)
    BY <1>1, <1>3, <2>1 DEF QuietStep, Sampling, Release
  <2> QED BY <2>2, QuietKeeps
<1> QED BY <1>2, <1>3 DEF LookForJob

LEMMA CreateSampleKeeps ==
  ASSUME WorkersInv, SampleInv, NEW w \in Workers, CreateSample(w)
  PROVE  SampleInv'
<1>1. expired' = expired /\ proc[w].health = "create"
  BY DEF CreateSample
<1>2. ASSUME NEW j \in Rows, job' = [job EXCEPT ![j] = "unsent"], lock' = lock,
             Becomes(w, [proc[w] EXCEPT !.health = "send", !.row = j])
      PROVE  SampleInv'
  <2> PICK q : q = [proc[w] EXCEPT !.health = "send", !.row = j]
    OBVIOUS
  <2>1. proc[w] \in Proc /\ ProcInv(proc[w]) /\ proc \in [Workers -> Proc]
    BY DEF WorkersInv, TypeOK
  <2>2. q.health = "send"
    BY <2>1, RowStep
  <2>3. proc'[w].health = "send" /\ \A v \in Workers : v # w => proc'[v] = proc[v]
    BY <1>2, <2>1, <2>2 DEF Becomes
  <2>4. ASSUME ~expired PROVE lock = w /\ Active = {}
    BY <1>1, <2>4 DEF SampleInv, Sampling
  <2>5. ASSUME ~expired PROVE Active' \subseteq {j}
    BY <1>2, <2>4, <2>5 DEF Active, WorkersInv, TypeOK
  <2>6. ASSUME ~expired, NEW v \in Workers, proc'[v].health \in Sampling PROVE v = w
    BY <2>3, <2>4, <2>6 DEF SampleInv
  <2>7. ASSUME ~expired, NEW v \in Workers PROVE proc'[v].health # "create"
    BY <2>3, <2>6, <2>7 DEF Sampling
  <2> QED BY <1>1, <1>2, <2>4, <2>5, <2>6, <2>7 DEF SampleInv, Sampling
<1>3. CASE job' = job /\ Release(w) /\ Tick(w, "idle")
  <2>1. proc'[w].health = "idle" /\ \A v \in Workers : v # w => proc'[v] = proc[v]
    BY <1>3, TickHealth
  <2>2. QuietStep(w)
    BY <1>1, <1>3, <2>1 DEF QuietStep, Sampling, Release
  <2> QED BY <2>2, QuietKeeps
<1> QED BY <1>2, <1>3 DEF CreateSample, FreeRows

LEMMA SampleNext == WorkersInv /\ SampleInv /\ [Next]_vars => SampleInv'
<1> SUFFICES ASSUME WorkersInv, SampleInv, [Next]_vars PROVE SampleInv'
  OBVIOUS
<1>1. ASSUME NEW w \in Workers,
             \/ Boot(w) \/ Start(w) \/ StartFails(w) \/ Dispose(w)
             \/ Signal(w) \/ TitleTick(w) \/ HealthTick(w) \/ Runs(w)
      PROVE  SampleInv'
  <2>1. Calm(w)
    BY <1>1, CalmSteps
  <2>2. UNCHANGED <<lock, expired>> /\ \A j \in Rows : job'[j] # "none" => job[j] # "none"
    BY <1>1, UntouchedJobs, ChangedJobs DEF Start, Dispose, Runs
  <2>3. QuietStep(w)
    BY <2>1, <2>2, CalmQuiet
  <2> QED BY <2>3, QuietKeeps
<1>2. ASSUME NEW w \in Workers, Exit(w) \/ Killed(w) \/ SendSample(w)
      PROVE  SampleInv'
  BY <1>2, ExitsQuiet, SendSampleQuiet, QuietKeeps DEF Exit
<1>3. ASSUME NEW w \in Workers, TakeLock(w) \/ LookForJob(w) \/ CreateSample(w)
      PROVE  SampleInv'
  BY <1>3, TakeLockKeeps, LookForJobKeeps, CreateSampleKeeps
<1>4. CASE LockExpires
  BY <1>4 DEF LockExpires, SampleInv
<1>5. CASE CancelSample
  <2>1. UNCHANGED <<proc, lock, expired>> /\ \A j \in Rows : job'[j] # "none" => job[j] # "none"
    BY <1>5 DEF CancelSample, Active, WorkersInv, TypeOK
  <2>2. Active' \subseteq Active
    BY <2>1 DEF Active
  <2> QED BY <2>1, <2>2 DEF SampleInv
<1>6. CASE UNCHANGED vars
  BY <1>6 DEF vars, SampleInv, Active
<1> QED BY <1>1, <1>2, <1>3, <1>4, <1>5, <1>6 DEF Next, Health

LEMMA SampleInit == Init => SampleInv
<1> SUFFICES ASSUME Init PROVE SampleInv
  OBVIOUS
<1>1. \A w \in Workers : proc[w].health = "idle"
  BY DEF Init, Off
<1>2. Active = {}
  BY DEF Init, Active
<1> QED BY <1>1, <1>2 DEF SampleInv, Sampling

-----------------------------------------------------------------------------
(* What the worker promises.                                               *)

\* The inductive invariant of the worker program (composition/worker.ts) holds: the types,
\* the invariant of each process and the bound on sampling jobs.
THEOREM WorkersInvariant == Spec => [](WorkersInv /\ SampleInv)
<1>1. Init => WorkersInv /\ SampleInv
  BY WorkersInit, SampleInit
<1>2. (WorkersInv /\ SampleInv) /\ [Next]_vars => (WorkersInv /\ SampleInv)'
  BY WorkersNext, SampleNext
<1> QED BY <1>1, <1>2, PTL DEF Spec

\* Every variable of the worker program keeps its type.
THEOREM WorkersTypeCorrect == Spec => []TypeOK
<1>1. WorkersInv /\ SampleInv => TypeOK
  BY DEF WorkersInv
<1> QED BY <1>1, WorkersInvariant, PTL

\* A start that goes on has the pool and the queue it has opened, although a signal may
\* have called stop() meanwhile (composition/worker.ts).
THEOREM StartAlwaysKeepsItsQueue == Spec => []StartKeepsItsQueue
<1>1. WorkersInv /\ SampleInv => StartKeepsItsQueue
  BY DEF WorkersInv, ProcInv, HoldsInv, StartKeepsItsQueue
<1> QED BY <1>1, WorkersInvariant, PTL

\* A title tick that has claimed a reply finds the queue open: stop() waits for the tick
\* before it closes the queue.
THEOREM TitleTickAlwaysHasQueue == Spec => []TitleTickHasQueue
<1>1. ASSUME NEW p, ProcInv(p), p.title = "send" PROVE "queue" \in p.open
  BY <1>1 DEF ProcInv, HoldsInv, TitlesInv
<1>2. WorkersInv /\ SampleInv => TitleTickHasQueue
  BY <1>1 DEF WorkersInv, TitleTickHasQueue
<1> QED BY <1>2, WorkersInvariant, PTL

\* A worker that exits with 0 has left nothing open, in whatever order its start, its
\* stop and their failures came, but for the two cases CleanExit names.
THEOREM ExitIsAlwaysClean == Spec => []CleanExit
<1>1. WorkersInv /\ SampleInv => CleanExit
  BY DEF WorkersInv, ProcInv, LeakInv, CleanExit
<1> QED BY <1>1, WorkersInvariant, PTL

\* However many workers tick, one sampling job is under way, unless a transaction that
\* held the advisory lock has timed out (providerHealthSamplingJob.ts).
THEOREM OneSampleIsActive == Spec => []OneActiveSample
<1>1. ASSUME \A i, j \in Active : i = j PROVE Cardinality(Active) <= 1
  <2>1. CASE Active = {}
    BY <2>1, FS_EmptySet
  <2>2. ASSUME NEW i \in Active PROVE Cardinality(Active) <= 1
    <3>1. Active = {i}
      BY <1>1, <2>2
    <3>2. Cardinality({i}) = 1
      BY FS_Singleton
    <3> QED BY <3>1, <3>2
  <2> QED BY <2>1, <2>2
<1>2. WorkersInv /\ SampleInv => OneActiveSample
  BY <1>1 DEF SampleInv, OneActiveSample
<1> QED BY <1>2, WorkersInvariant, PTL

-----------------------------------------------------------------------------
(* The API program.                                                        *)

\* How far the shutdown of the API has come decides what it still has: the queue's
\* transport as long as the server may have connections, none of it afterwards.
ShutdownInv ==
  /\ api.main \in {"up", "gone"} \/ (Drained /\ api.server = "no")
  /\ api.main \in {"off", "connect", "create", "failing"} => ~api.boss
  /\ api.main \notin {"up", "gone"} => ~api.transport
  /\ api.server # "closing" => api.drain = "no" /\ ~api.again
  /\ api.main = "up" =>
       /\ api.server \in {"open", "closing"} /\ (api.server = "closing" => api.drain # "no")
       /\ api.drain \in {"no", "close"} => api.transport
       /\ api.drain \in {"stop", "disconnect"} => Drained /\ ~api.boss
       /\ api.drain = "disconnect" => ~api.client
  /\ api.code # "none" => api.main = "gone"
  /\ api.code = "clean" => ~api.client /\ ~api.boss /\ Drained

ApiInv == ApiTypeOK /\ ShutdownInv

LEMMA ApiInitial ==
  ASSUME ApiInit
  PROVE  ApiInv
<1>1. ApiTypeOK
  BY ApiFaultCount DEF ApiInit, ApiOff, ApiTypeOK, Api
<1>2. ShutdownInv
  BY DEF ApiInit, ApiOff, ShutdownInv, Drained
<1> QED BY <1>1, <1>2 DEF ApiInv

\* The types of the three variables, one by one.
LEMMA ApiFaultTypes ==
  ASSUME ApiTypeOK, apiFaults' = apiFaults \/ ApiFault
  PROVE  apiFaults' \in 0..MaxApiFaults
BY ApiFaultCount DEF ApiTypeOK, ApiFault

\* The end of the program.
LEMMA ApiExitsKeeps ==
  ASSUME ApiInv, NEW how \in {"clean", "failed", "killed"}, ApiExits(api, how),
         apiFaults' = apiFaults \/ ApiFault,
         how = "clean" => api.main = "up" /\ api.drain = "disconnect"
  PROVE  ApiInv'
<1> PICK a : a = api
  OBVIOUS
<1> PICK b : b = [a EXCEPT !.main = "gone", !.code = how]
  OBVIOUS
<1>1. a \in Api
  BY DEF ApiInv, ApiTypeOK
<1>2. /\ b \in Api /\ b.main = "gone" /\ b.code = how /\ b.server = a.server /\ b.drain = a.drain
      /\ b.again = a.again /\ b.client = a.client /\ b.boss = a.boss
  BY ZenonT(60), <1>1 DEF Api
<1>3. api' = b /\ conn' = [c \in Clients |-> "none"]
  BY DEF ApiExits, ApiGone
<1>4. ApiTypeOK'
  BY <1>2, <1>3, ApiFaultTypes DEF ApiInv, ApiTypeOK
<1>5. Drained'
  BY <1>3 DEF Drained
<1>6. ShutdownInv'
  BY <1>2, <1>3, <1>5 DEF ApiInv, ShutdownInv
<1> QED BY <1>4, <1>6 DEF ApiInv

\* The steps of the start.
LEMMA ApiBootKeeps ==
  ASSUME ApiInv, ApiBoot
  PROVE  ApiInv'
<1> PICK a : a = api
  OBVIOUS
<1> PICK b : b = [a EXCEPT !.main = "connect"]
  OBVIOUS
<1>1. a \in Api
  BY DEF ApiInv, ApiTypeOK
<1>2. /\ b \in Api /\ b.main = "connect" /\ b.code = a.code /\ b.server = a.server /\ b.drain = a.drain
      /\ b.again = a.again /\ b.client = a.client /\ b.boss = a.boss /\ b.transport = a.transport
  BY <1>1 DEF Api
<1>3. api' = b /\ conn' = conn /\ apiFaults' = apiFaults /\ a.main = "off"
  BY DEF ApiBoot, ApiBecomes
<1>4. ApiTypeOK'
  BY <1>2, <1>3 DEF ApiInv, ApiTypeOK
<1>5. ShutdownInv'
  BY <1>2, <1>3 DEF ApiInv, ShutdownInv, Drained
<1> QED BY <1>4, <1>5 DEF ApiInv

LEMMA ApiConnectedKeeps ==
  ASSUME ApiInv, ApiConnected
  PROVE  ApiInv'
<1>1. CASE ApiBecomes([api EXCEPT !.main = "create"])
  <2> PICK a : a = api
    OBVIOUS
  <2> PICK b : b = [a EXCEPT !.main = "create"]
    OBVIOUS
  <2>1. a \in Api
    BY DEF ApiInv, ApiTypeOK
  <2>2. /\ b \in Api
        /\ b.main = "create" /\ b.server = a.server /\ b.drain = a.drain /\ b.again = a.again /\ b.boss = a.boss
        /\ b.transport = a.transport /\ b.client = a.client /\ b.code = a.code
    BY <2>1 DEF Api
  <2>3. api' = b /\ conn' = conn /\ apiFaults' = apiFaults /\ a.main = "connect"
    BY <1>1 DEF ApiConnected, ApiBecomes, ApiBreaks
  <2>4. ApiTypeOK'
    BY <2>2, <2>3, ApiFaultTypes DEF ApiInv, ApiTypeOK
  <2>5. ShutdownInv'
    BY <2>2, <2>3 DEF ApiInv, ShutdownInv, Drained
  <2> QED BY <2>4, <2>5 DEF ApiInv
<1>2. CASE ApiFault /\ ApiExits(api, "failed")
  BY <1>2, ApiExitsKeeps DEF ApiConnected
<1> QED BY <1>1, <1>2 DEF ApiConnected

LEMMA QueueClientCreatedKeeps ==
  ASSUME ApiInv, QueueClientCreated
  PROVE  ApiInv'
<1>1. CASE ApiBecomes([api EXCEPT !.main = "boot", !.boss = TRUE, !.client = TRUE])
  <2> PICK a : a = api
    OBVIOUS
  <2> PICK b : b = [a EXCEPT !.main = "boot", !.boss = TRUE, !.client = TRUE]
    OBVIOUS
  <2>1. a \in Api
    BY DEF ApiInv, ApiTypeOK
  <2>2. /\ b \in Api
        /\ b.main = "boot" /\ b.server = a.server /\ b.drain = a.drain /\ b.again = a.again /\ b.boss = TRUE
        /\ b.transport = a.transport /\ b.client = TRUE /\ b.code = a.code
    BY <2>1 DEF Api
  <2>3. api' = b /\ conn' = conn /\ apiFaults' = apiFaults /\ a.main = "create"
    BY <1>1 DEF QueueClientCreated, ApiBecomes, ApiBreaks
  <2>4. ApiTypeOK'
    BY <2>2, <2>3, ApiFaultTypes DEF ApiInv, ApiTypeOK
  <2>5. ShutdownInv'
    BY <2>2, <2>3 DEF ApiInv, ShutdownInv, Drained
  <2> QED BY <2>4, <2>5 DEF ApiInv
<1>2. CASE ApiBreaks([api EXCEPT !.main = "failing"])
  <2> PICK a : a = api
    OBVIOUS
  <2> PICK b : b = [a EXCEPT !.main = "failing"]
    OBVIOUS
  <2>1. a \in Api
    BY DEF ApiInv, ApiTypeOK
  <2>2. /\ b \in Api
        /\ b.main = "failing" /\ b.server = a.server /\ b.drain = a.drain /\ b.again = a.again /\ b.boss = a.boss
        /\ b.transport = a.transport /\ b.client = a.client /\ b.code = a.code
    BY <2>1 DEF Api
  <2>3. api' = b /\ conn' = conn /\ ApiFault /\ a.main = "create"
    BY <1>2 DEF QueueClientCreated, ApiBecomes, ApiBreaks
  <2>4. ApiTypeOK'
    BY <2>2, <2>3, ApiFaultTypes DEF ApiInv, ApiTypeOK
  <2>5. ShutdownInv'
    BY <2>2, <2>3 DEF ApiInv, ShutdownInv, Drained
  <2> QED BY <2>4, <2>5 DEF ApiInv
<1> QED BY <1>1, <1>2 DEF QueueClientCreated

\* The steps of the shutdown.
LEMMA ServerClosedKeeps ==
  ASSUME ApiInv, ServerClosed
  PROVE  ApiInv'
<1> PICK a : a = api
  OBVIOUS
<1> PICK b : b = [a EXCEPT !.drain = "stop", !.boss = FALSE, !.transport = FALSE]
  OBVIOUS
<1>1. a \in Api
  BY DEF ApiInv, ApiTypeOK
<1>2. /\ b \in Api
      /\ b.main = a.main /\ b.server = a.server /\ b.drain = "stop" /\ b.again = a.again /\ b.boss = FALSE
      /\ b.transport = FALSE /\ b.client = a.client /\ b.code = a.code
  BY <1>1 DEF Api
<1>3. api' = b /\ conn' = conn /\ apiFaults' = apiFaults /\ a.main = "up" /\ a.drain = "close" /\ Drained
  BY DEF ServerClosed, ApiBecomes, ApiBreaks
<1>4. ApiTypeOK'
  BY <1>2, <1>3, ApiFaultTypes DEF ApiInv, ApiTypeOK
<1>5. ShutdownInv'
  BY <1>2, <1>3 DEF ApiInv, ShutdownInv, Drained
<1> QED BY <1>4, <1>5 DEF ApiInv

LEMMA QueueClientStoppedKeeps ==
  ASSUME ApiInv, QueueClientStopped
  PROVE  ApiInv'
<1>1. CASE ApiBecomes([api EXCEPT !.drain = "disconnect", !.client = FALSE])
  <2> PICK a : a = api
    OBVIOUS
  <2> PICK b : b = [a EXCEPT !.drain = "disconnect", !.client = FALSE]
    OBVIOUS
  <2>1. a \in Api
    BY DEF ApiInv, ApiTypeOK
  <2>2. /\ b \in Api
        /\ b.main = a.main /\ b.server = a.server /\ b.drain = "disconnect" /\ b.again = a.again /\ b.boss = a.boss
        /\ b.transport = a.transport /\ b.client = FALSE /\ b.code = a.code
    BY <2>1 DEF Api
  <2>3. api' = b /\ conn' = conn /\ apiFaults' = apiFaults /\ a.main = "up" /\ a.drain = "stop"
    BY <1>1 DEF QueueClientStopped, ApiBecomes, ApiBreaks
  <2>4. ApiTypeOK'
    BY <2>2, <2>3, ApiFaultTypes DEF ApiInv, ApiTypeOK
  <2>5. ShutdownInv'
    BY <2>2, <2>3 DEF ApiInv, ShutdownInv, Drained
  <2> QED BY <2>4, <2>5 DEF ApiInv
<1>2. CASE ApiFault /\ ApiExits(api, "failed")
  BY <1>2, ApiExitsKeeps DEF QueueClientStopped
<1> QED BY <1>1, <1>2 DEF QueueClientStopped

\* A client that does not start is disposed of, or not.
ClientFailed(a, b) ==
  /\ b.main = "failing" /\ b.server = a.server /\ b.drain = a.drain /\ b.again = a.again
  /\ b.boss = FALSE /\ b.transport = a.transport /\ b.code = a.code

LEMMA FailedClientFields ==
  ASSUME NEW a \in Api, NEW k \in BOOLEAN
  PROVE  LET b == [a EXCEPT !.main = "failing", !.boss = FALSE, !.client = k]
         IN b \in Api /\ ClientFailed(a, b)
<1> PICK b : b = [a EXCEPT !.main = "failing", !.boss = FALSE, !.client = k]
  OBVIOUS
<1> QED BY DEF Api, ClientFailed

LEMMA ClientFailsKeeps ==
  ASSUME ApiInv, NEW k \in BOOLEAN, api.main = "boot",
         ApiBreaks([api EXCEPT !.main = "failing", !.boss = FALSE, !.client = k])
  PROVE  ApiInv'
<1> PICK a : a = api
  OBVIOUS
<1> PICK b : b = [a EXCEPT !.main = "failing", !.boss = FALSE, !.client = k]
  OBVIOUS
<1>1. a \in Api
  BY DEF ApiInv, ApiTypeOK
<1>2. b \in Api /\ ClientFailed(a, b)
  BY <1>1, FailedClientFields
<1>3. api' = b /\ conn' = conn /\ ApiFault /\ a.main = "boot"
  BY DEF ApiBreaks
<1>4. ApiTypeOK'
  BY <1>2, <1>3, ApiFaultTypes DEF ApiInv, ApiTypeOK
<1>5. ShutdownInv'
  BY <1>2, <1>3 DEF ApiInv, ShutdownInv, Drained, ClientFailed
<1> QED BY <1>4, <1>5 DEF ApiInv

LEMMA QueueClientStartedKeeps ==
  ASSUME ApiInv, QueueClientStarted
  PROVE  ApiInv'
<1>1. CASE ApiBecomes([api EXCEPT !.main = "up", !.transport = TRUE, !.server = "open"])
  <2> PICK a : a = api
    OBVIOUS
  <2> PICK b : b = [a EXCEPT !.main = "up", !.transport = TRUE, !.server = "open"]
    OBVIOUS
  <2>1. a \in Api
    BY DEF ApiInv, ApiTypeOK
  <2>2. /\ b \in Api
        /\ b.main = "up" /\ b.server = "open" /\ b.drain = a.drain /\ b.again = a.again /\ b.boss = a.boss
        /\ b.transport = TRUE /\ b.client = a.client /\ b.code = a.code
    BY <2>1 DEF Api
  <2>3. api' = b /\ conn' = conn /\ apiFaults' = apiFaults /\ a.main = "boot"
    BY <1>1 DEF QueueClientStarted, ApiBecomes
  <2>4. ApiTypeOK'
    BY <2>2, <2>3, ApiFaultTypes DEF ApiInv, ApiTypeOK
  <2>5. ShutdownInv'
    BY <2>2, <2>3 DEF ApiInv, ShutdownInv, Drained
  <2> QED BY <2>4, <2>5 DEF ApiInv
<1>2. ASSUME NEW closed \in BOOLEAN, ApiBreaks([api EXCEPT !.main = "failing", !.boss = FALSE, !.client = ~closed])
      PROVE  ApiInv'
  <2>1. (~closed) \in BOOLEAN /\ api.main = "boot"
    BY DEF QueueClientStarted
  <2>2. PICK k \in BOOLEAN : ApiBreaks([api EXCEPT !.main = "failing", !.boss = FALSE, !.client = k])
    BY <1>2, <2>1, Zenon
  <2> QED BY <2>1, <2>2, ClientFailsKeeps
<1> QED BY <1>1, <1>2 DEF QueueClientStarted

\* A signal: the first one that the server hears begins the shutdown.
LEMMA FirstSignalKeeps ==
  ASSUME ApiInv, api.main = "up", api.server = "open",
         ApiBecomes([api EXCEPT !.server = "closing", !.drain = "close"])
  PROVE  ApiInv'
<1> PICK a : a = api
  OBVIOUS
<1> PICK b : b = [a EXCEPT !.server = "closing", !.drain = "close"]
  OBVIOUS
<1>1. a \in Api
  BY DEF ApiInv, ApiTypeOK
<1>2. /\ b \in Api
      /\ b.main = a.main /\ b.server = "closing" /\ b.drain = "close" /\ b.again = a.again /\ b.boss = a.boss
      /\ b.transport = a.transport /\ b.client = a.client /\ b.code = a.code
  BY <1>1 DEF Api
<1>3. api' = b /\ conn' = conn /\ apiFaults' = apiFaults /\ a.main = "up" /\ a.server = "open"
  BY DEF ApiBecomes
<1>4. ApiTypeOK'
  BY <1>2, <1>3, ApiFaultTypes DEF ApiInv, ApiTypeOK
<1>5. ShutdownInv'
  BY <1>2, <1>3 DEF ApiInv, ShutdownInv, Drained
<1> QED BY <1>4, <1>5 DEF ApiInv

LEMMA FurtherSignalKeeps ==
  ASSUME ApiInv, api.main = "up", api.server = "closing", ApiBecomes([api EXCEPT !.again = TRUE])
  PROVE  ApiInv'
<1> PICK a : a = api
  OBVIOUS
<1> PICK b : b = [a EXCEPT !.again = TRUE]
  OBVIOUS
<1>1. a \in Api
  BY DEF ApiInv, ApiTypeOK
<1>2. /\ b \in Api
      /\ b.main = a.main /\ b.server = a.server /\ b.drain = a.drain /\ b.again = TRUE /\ b.boss = a.boss
      /\ b.transport = a.transport /\ b.client = a.client /\ b.code = a.code
  BY <1>1 DEF Api
<1>3. api' = b /\ conn' = conn /\ apiFaults' = apiFaults /\ a.main = "up" /\ a.server = "closing"
  BY DEF ApiBecomes
<1>4. ApiTypeOK'
  BY <1>2, <1>3, ApiFaultTypes DEF ApiInv, ApiTypeOK
<1>5. ShutdownInv'
  BY <1>2, <1>3 DEF ApiInv, ShutdownInv, Drained
<1> QED BY <1>4, <1>5 DEF ApiInv

\* Connections come while the server is open, and go.
LEMMA ConnectionsKeep ==
  ASSUME ApiInv, Connect \/ Answer \/ Leave
  PROVE  ApiInv'
<1>1. api' = api /\ apiFaults' = apiFaults
  BY DEF Connect, Answer, Leave
<1>2. conn' \in [Clients -> {"none", "request", "stream"}]
  BY DEF Connect, Answer, Leave, ApiInv, ApiTypeOK
<1>3. (api.main = "up" /\ api.server = "open") \/ (Drained => Drained')
  BY DEF Connect, Answer, Leave, Drained, ApiInv, ApiTypeOK
<1>4. ApiTypeOK'
  BY <1>1, <1>2 DEF ApiInv, ApiTypeOK
<1>5. ShutdownInv'
  BY <1>1, <1>3 DEF ApiInv, ShutdownInv
<1> QED BY <1>4, <1>5 DEF ApiInv

LEMMA ApiStepKeeps == ApiInv /\ [ApiNext]_apiVars => ApiInv'
<1> SUFFICES ASSUME ApiInv, [ApiNext]_apiVars PROVE ApiInv'
  OBVIOUS
<1>1. CASE ApiBoot
  BY <1>1, ApiBootKeeps
<1>2. CASE ApiStarts
  <2>1. CASE FailedApiExits
    BY <2>1, ApiExitsKeeps DEF FailedApiExits
  <2> QED BY <1>2, <2>1, ApiConnectedKeeps, QueueClientCreatedKeeps, QueueClientStartedKeeps DEF ApiStarts
<1>3. CASE Connect \/ Answer \/ Leave
  BY <1>3, ConnectionsKeep
<1>4. CASE ApiSignal
  <2>1. CASE ApiExits(api, "killed") /\ UNCHANGED apiFaults
    BY <2>1, ApiExitsKeeps
  <2> QED BY <1>4, <2>1, FirstSignalKeeps, FurtherSignalKeeps DEF ApiSignal
<1>5. CASE ApiStops
  <2>1. CASE ApiDisconnected
    <3>1. api.main = "up" /\ api.drain = "disconnect"
      BY <2>1 DEF ApiDisconnected
    <3>2. PICK how \in {"clean", "failed"} : ApiExits(api, how) /\ (apiFaults' = apiFaults \/ ApiFault)
      BY <2>1 DEF ApiDisconnected
    <3> QED BY <3>1, <3>2, ApiExitsKeeps
  <2>2. CASE SecondShutdownExits
    BY <2>2, ApiExitsKeeps DEF SecondShutdownExits
  <2> QED BY <1>5, <2>1, <2>2, ServerClosedKeeps, QueueClientStoppedKeeps DEF ApiStops
<1>6. CASE UNCHANGED apiVars
  BY <1>6 DEF apiVars, ApiInv, ApiTypeOK, ShutdownInv, Drained
<1> QED BY <1>1, <1>2, <1>3, <1>4, <1>5, <1>6 DEF ApiNext

\* The inductive invariant of the API program (server.ts) holds: its types, and what the
\* shutdown still has at each of its steps.
THEOREM ApiInvariant == ApiSpec => []ApiInv
BY ApiInitial, ApiStepKeeps, PTL DEF ApiSpec

\* Every variable of the API program keeps its type.
THEOREM ApiTypeCorrect == ApiSpec => []ApiTypeOK
<1>1. ApiInv => ApiTypeOK
  BY DEF ApiInv
<1> QED BY <1>1, ApiInvariant, PTL

\* An accepted request finds the queue's transport until it is answered, also while the
\* server shuts down, for any number of connections and signals.
THEOREM RequestsAlwaysHaveQueue == ApiSpec => []RequestsHaveQueue
<1>1. ApiInv => RequestsHaveQueue
  BY DEF ApiInv, ApiTypeOK, Api, ShutdownInv, RequestsHaveQueue
<1> QED BY <1>1, ApiInvariant, PTL

\* An API that exits with 0 has answered what it accepted and closed its queue client.
THEOREM ApiExitIsAlwaysClean == ApiSpec => []CleanApiExit
<1>1. ApiInv => CleanApiExit
  BY DEF ApiInv, ShutdownInv, CleanApiExit
<1> QED BY <1>1, ApiInvariant, PTL

\* Both programs together keep their types.
THEOREM ProgramsTypeCorrect == Programs => []TypesOK
<1>1. TypeOK /\ ApiTypeOK => TypesOK
  BY DEF TypesOK
<1> QED BY <1>1, WorkersTypeCorrect, ApiTypeCorrect, PTL DEF Programs

\* Nobody who was let in to use the queue finds it closed: a start of the worker that is
\* overtaken by a stop, a title tick, a request during the shutdown of the API.
THEOREM QueueIsAlwaysThere == Programs => []QueueIsThere
<1>1. StartKeepsItsQueue /\ TitleTickHasQueue /\ RequestsHaveQueue => QueueIsThere
  BY DEF QueueIsThere
<1> QED
  BY <1>1, StartAlwaysKeepsItsQueue, TitleTickAlwaysHasQueue, RequestsAlwaysHaveQueue, PTL DEF Programs

\* A process that exits with 0 has closed what it had opened, whatever signals and faults
\* came during its start or its shutdown.
THEOREM ExitsAreAlwaysClean == Programs => []ExitsAreClean
<1>1. CleanExit /\ CleanApiExit => ExitsAreClean
  BY DEF ExitsAreClean
<1> QED BY <1>1, ExitIsAlwaysClean, ApiExitIsAlwaysClean, PTL DEF Programs
=============================================================================
