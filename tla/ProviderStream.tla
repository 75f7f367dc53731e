--------------------------- MODULE ProviderStream ---------------------------
(***************************************************************************)
(* One streamed completion: runProviderStream of llm.operation.ts around   *)
(* the stream readers of the two adapters.  The upstream's body is a list  *)
(* of frames put on the wire as symbols: a frame is its kind and a second  *)
(* half "~", "r" and "n" are the line ends.  The network may hand the      *)
(* symbols over in any pieces.                                             *)
(***************************************************************************)
EXTENDS ProviderFailures, SequencesExt

CONSTANTS
  Bodies,    \* sequences of kinds an upstream may send
  Statuses   \* HTTP statuses, OK or not

VARIABLES
  upstream,  \* [type, status, kinds, crlf, tail, timed], fixed at the start
  wire,      \* symbols of the body not yet received
  stream     \* the generator, below

streamVars == <<upstream, wire, stream>>

OK == 200

\* text: content or reasoning; quiet: a chunk without either (role, usage); stop: its
\* finish_reason or done is set; comment: a comment frame, or a blank line of Ollama.
AllFrames == {"text", "quiet", "stop", "comment"}
ChunkKinds == {"text", "quiet", "stop"}
FrameKinds == {"text", "quiet", "stop", "bad", "comment", "DONE"}

\* "end": the chunk { done: true } an adapter makes of [DONE].
Chunks == {"text", "quiet", "stop", "end"}

-----------------------------------------------------------------------------
(* The wire.                                                               *)

LineEnd(up) == IF up.crlf THEN <<"r", "n">> ELSE <<"n">>
FrameEnd(up) == IF up.type = "openai" THEN LineEnd(up) \o LineEnd(up) ELSE LineEnd(up)

\* tail: the last frame may lack its end, or its second half too.
Frame(up, i) ==
  LET last == i = Len(up.kinds)
  IN <<up.kinds[i]>> \o (IF last /\ up.tail = "broken" THEN <<>> ELSE <<"~">>)
       \o (IF last /\ up.tail # "whole" THEN <<>> ELSE FrameEnd(up))

Wire(up) == FlattenSeq([i \in DOMAIN up.kinds |-> Frame(up, i)])

\* buffer.replace(/\r\n/g, '\n')
Normalise(text) ==
  FoldLeft(LAMBDA s, c : IF c = "n" /\ s # <<>> /\ Last(s) = "r" THEN Append(Front(s), c)
                         ELSE Append(s, c), <<>>, text)

BufferedPiece(type, buffer, piece) ==
  buffer \o (IF type = "openai" THEN Normalise(piece) ELSE piece)

Buffered(type, buffer, piece) ==
  IF type = "openai" THEN Normalise(buffer \o piece) ELSE buffer \o piece

Separator(type) == IF type = "openai" THEN <<"n", "n">> ELSE <<"n">>

\* Where the first separator of the buffer starts, 0 if there is none.
Cut(type, buffer) ==
  LET sep == Separator(type)
      at == {i \in 1..(Len(buffer) - Len(sep) + 1) : SubSeq(buffer, i, i + Len(sep) - 1) = sep}
  IN IF at = {} THEN 0 ELSE CHOOSE i \in at : \A k \in at : i <= k

\* A frame or line as parsed; half of one is not JSON.
Parsed(text) ==
  LET trimmed == SelectSeq(text, LAMBDA c : c \notin {"r", "n"})
  IN IF trimmed = <<>> THEN "comment"
     ELSE IF trimmed[1] = "comment" THEN "comment"
     ELSE IF Len(trimmed) = 2 /\ trimmed[2] = "~" /\ trimmed[1] \in FrameKinds THEN trimmed[1]
     ELSE "bad"

-----------------------------------------------------------------------------
(* pc: idle before the first next(); fetch and read while the generator    *)
(* runs; yielded while the consumer has a chunk, last if it is the final   *)
(* one; over.  fired: the deadline.  cause: what made it fail.             *)

NoFailure == [category |-> "none", eligible |-> FALSE, code |-> "none"]

Unused == [pc |-> "idle", buffer |-> <<>>, sawCompletion |-> FALSE, sawOutput |-> FALSE,
           fired |-> FALSE, out |-> <<>>, events |-> <<>>, failure |-> NoFailure, cause |-> "none"]

Causes == {"none", "status", "refused", "reset", "closed", "deadline", "body"}

StreamTypeOK ==
  /\ upstream.type \in ProviderTypes /\ upstream.status \in Statuses
  /\ wire \in Seq(FrameKinds \cup {"~", "r", "n"})
  /\ stream.pc \in {"idle", "fetch", "read", "yielded", "last", "over"}
  /\ stream.buffer \in Seq(FrameKinds \cup {"~", "r", "n"})
  /\ {stream.sawCompletion, stream.sawOutput, stream.fired} \subseteq BOOLEAN
  /\ stream.out \in Seq(Chunks) /\ stream.cause \in Causes

StreamInit ==
  /\ upstream \in
       {up \in [type : ProviderTypes, status : Statuses, kinds : Bodies, crlf : BOOLEAN,
                tail : {"whole", "unended", "broken"}, timed : BOOLEAN] :
          /\ up.type = "ollama" => \A i \in DOMAIN up.kinds : up.kinds[i] # "DONE"
          /\ up.kinds = <<>> => up.tail = "whole" /\ ~up.crlf
          /\ up.status # OK => up.kinds = <<>>}
  /\ wire = Wire(upstream)
  /\ stream = Unused

Close(s, event) == [s EXCEPT !.pc = "over", !.events = Append(@, event)]

\* The catch of runProviderStream: classified at the stage and by the signal of that moment.
Thrown(s, e, cause) ==
  LET f == Classify(upstream.type, "stream",
                    IF s.pc = "fetch" THEN "upstream_request" ELSE "stream_read", e,
                    IF s.fired THEN "deadline" ELSE "none")
  IN [Close(s, "error") EXCEPT
        !.cause = cause,
        !.failure = [category |-> f.category, eligible |-> FallbackEligible(f),
                     code |-> PublicCode(f.error)]]

YieldChunk(s, kind) ==
  [s EXCEPT !.pc = "yielded", !.out = Append(@, kind),
            !.sawCompletion = @ \/ kind = "stop", !.sawOutput = @ \/ kind = "text"]

\* What a frame does to the generator.
Handled(s, kind) ==
  IF kind \in ChunkKinds THEN YieldChunk(s, kind)
  ELSE IF kind = "DONE"
  THEN IF s.sawCompletion THEN Close(s, "success")
       ELSE [s EXCEPT !.pc = "last", !.out = Append(@, "end")]
  ELSE IF kind = "bad" /\ upstream.type = "openai"
  THEN Thrown(s, Own("streaming", "MALFORMED_STREAM_CHUNK"), "body")
  ELSE s

AtEndLenient(s) == Close(s, "success")

\* The end of the generator when the body has ended.
AtEnd(s) ==
  IF s.sawOutput /\ ~s.sawCompletion THEN Thrown(s, Own("streaming", "UPSTREAM_STREAM_ERROR"), "body")
  ELSE Close(s, "success")

Becomes(s) == stream' = s /\ UNCHANGED <<upstream, wire>>

-----------------------------------------------------------------------------
(* The consumer.                                                           *)

Start ==
  /\ stream.pc = "idle"
  /\ Becomes([stream EXCEPT !.pc = "fetch", !.events = <<"started">>])

Pull ==
  \/ stream.pc = "yielded" /\ Becomes([stream EXCEPT !.pc = "read"])
  \/ stream.pc = "last" /\ Becomes(Close(stream, "success"))

\* return(): the finally of runProviderStream.
LeaveStream ==
  \/ stream.pc = "idle" /\ Becomes([stream EXCEPT !.pc = "over"])
  \/ stream.pc \in {"yielded", "last"} /\ Becomes(Close(stream, "aborted"))

(* The upstream and the network.                                           *)

Respond ==
  /\ stream.pc = "fetch"
  /\ Becomes(IF upstream.status = OK THEN [stream EXCEPT !.pc = "read"]
             ELSE Thrown(stream, HttpError(upstream.type, "stream", upstream.status), "status"))

\* FetchError or TypeError, with or without a known network code.
Unreachable ==
  /\ stream.pc = "fetch"
  /\ \E system \in {"none", "ECONNREFUSED"} :
       Becomes(Thrown(stream, Error("FetchError", "other", "none", NoStatus, system), "refused"))

Reading == stream.pc = "read" /\ Cut(upstream.type, stream.buffer) = 0

ReceivePiece ==
  /\ Reading
  /\ \E n \in 1..Len(wire) :
       /\ stream' = [stream EXCEPT !.buffer = Buffered(upstream.type, @, SubSeq(wire, 1, n))]
       /\ wire' = SubSeq(wire, n + 1, Len(wire))
  /\ UNCHANGED upstream

\* A broken connection: ECONNRESET, or the premature close of node-fetch, an unlisted code.
Break ==
  /\ Reading
  /\ \/ Becomes(Thrown(stream, Error("other", "other", "none", NoStatus, "ECONNRESET"), "reset"))
     \/ Becomes(Thrown(stream, Plain("other"), "closed"))

\* AbortSignal.timeout of buildAbortSignal
Deadline ==
  /\ upstream.timed /\ ~stream.fired /\ stream.pc \notin {"idle", "over"}
  /\ Becomes([stream EXCEPT !.fired = TRUE])

(* The generator.                                                          *)

AbortedInFetch ==
  /\ stream.fired /\ stream.pc = "fetch"
  /\ Becomes(Thrown(stream, Error("other", "AbortError", "none", NoStatus, "none"), "deadline"))

Aborted ==
  /\ stream.fired /\ (stream.pc = "fetch" \/ Reading)
  /\ Becomes(Thrown(stream, Error("other", "AbortError", "none", NoStatus, "none"), "deadline"))

TakeFrame ==
  /\ stream.pc = "read"
  /\ LET i == Cut(upstream.type, stream.buffer)
         after == i + Len(Separator(upstream.type))
     IN /\ i # 0
        /\ Becomes(Handled([stream EXCEPT !.buffer = SubSeq(@, after, Len(@))],
                           Parsed(SubSeq(stream.buffer, 1, i - 1))))

\* The body has ended: what is left in the buffer, then the check for completion.
EndOfBody ==
  /\ Reading /\ wire = <<>>
  /\ Becomes(IF stream.buffer = <<>> THEN AtEnd(stream)
             ELSE Handled([stream EXCEPT !.buffer = <<>>], Parsed(stream.buffer)))

StreamNext ==
  \/ Start \/ Pull \/ LeaveStream
  \/ Respond \/ Unreachable \/ ReceivePiece \/ Break \/ Deadline
  \/ Aborted \/ TakeFrame \/ EndOfBody

\* The event loop and the timer run, and the consumer reads on or leaves; the upstream
\* may stall for ever.
StreamFairness ==
  /\ WF_streamVars(Aborted \/ TakeFrame)
  /\ WF_streamVars(Deadline)
  /\ WF_streamVars(Pull \/ (stream.pc # "idle" /\ LeaveStream))

StreamSpec == StreamInit /\ [][StreamNext]_streamVars /\ StreamFairness

-----------------------------------------------------------------------------
(* What a body says, read as a list of frames.                             *)

Sent(up) ==
  IF up.tail = "broken" /\ Last(up.kinds) # "comment"
  THEN Append(Front(up.kinds), "bad") ELSE up.kinds

FirstOf(kinds, S) == SelectInSeq(kinds, LAMBDA k : k \in S)

\* out: the chunks it promises; whole: whether it is a complete answer.
Promise(up) ==
  LET stops == IF up.type = "openai" THEN {"DONE", "bad"} ELSE {}
      at == FirstOf(Sent(up), stops)
      read == IF at = 0 THEN Sent(up) ELSE SubSeq(Sent(up), 1, at - 1)
      chunks == SelectSeq(read, LAMBDA k : k \in ChunkKinds)
      closed == at # 0 /\ Sent(up)[at] = "DONE"
      completed == FirstOf(chunks, {"stop"}) # 0
  IN [out |-> IF closed /\ ~completed THEN Append(chunks, "end") ELSE chunks,
      whole |-> \/ closed
                \/ at = 0 /\ (completed \/ FirstOf(chunks, {"text"}) = 0)]

Succeeded == stream.pc = "over" /\ stream.events = <<"started", "success">>

\* Whatever pieces the network makes of a body, the consumer gets its chunks in order, all
\* of them unless a fault or the consumer cuts the stream short, and success exactly for a
\* whole answer.
AnswerIsTheBody ==
  /\ IsPrefix(stream.out, Promise(upstream).out)
  /\ stream.cause = "body" => stream.out = Promise(upstream).out /\ ~Promise(upstream).whole
  /\ Succeeded => stream.out = Promise(upstream).out /\ Promise(upstream).whole

\* A stream that showed output and never a completion is not logged or taken as a success
\* (docs/provider-observability.md:40), with whatever the consumer saw of it.
CutAnswerIsNoSuccess ==
  Succeeded /\ FirstOf(stream.out, {"text"}) # 0 => FirstOf(stream.out, {"stop", "end"}) # 0

\* Another provider is tried for what that provider may do better: it could not be reached,
\* ran out of time, refused for load or had no such model. Never for an answer it gave,
\* whatever else had gone wrong by the time the error was classified.
StreamFallbackIsDeserved ==
  stream.cause # "none" =>
    CASE stream.cause \in {"refused", "deadline", "reset"} -> stream.failure.eligible
      [] stream.cause = "status" ->
           stream.failure.eligible = (upstream.status \in {404, 429} \cup 500..599)
      [] OTHER -> ~stream.failure.eligible

\* A stream with a timeout ends, though the upstream may fall silent at any symbol.
TimedStreamEnds == upstream.timed /\ stream.pc = "fetch" ~> stream.pc = "over"
=============================================================================
