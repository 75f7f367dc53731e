----------------------- MODULE ProviderRequestsProofs -----------------------
(***************************************************************************)
(* Theorems about what is asked of LLM providers: a reply of the chat, for *)
(* any number of providers and of statements of the database that fail; a  *)
(* streamed completion, for any body and status; and the calls with one    *)
(* answer, for any number of providers and any statuses.                   *)
(***************************************************************************)
EXTENDS ProviderRequests, SequenceTheorems, WellFoundedInduction, TLAPS

-----------------------------------------------------------------------------
(* The points of the generator and its local variables.                    *)

Pcs == Yields \cup {"prepare", "reading", "fallback", "recordFallback", "persistSuccess",
                    "recordSuccess", "promote", "persistFailure", "recordFailure", "finally",
                    "persistAbort", "recordAbort", "complete", "persistReply",
                    "recordReplyFailure", "replyFallback", "ended"}

\* The finally block.
Leaving == {"finally", "persistAbort", "recordAbort"}

\* The reply is complete: stored, and about to be announced or announced.
Announcing == {"recordSuccess", "promote", "yieldMessage", "yieldSwitched", "yieldDone"}

\* Only of generateAssistantResponse.
ReplyOnly == {"complete", "persistReply", "recordReplyFailure", "replyFallback"}

\* Before anything is stored.
Unstored == {"prepare", "yieldUser", "yieldDelta", "yieldRetrying", "reading", "fallback",
             "recordFallback", "persistSuccess", "complete", "persistReply", "replyFallback",
             "persistAbort"}

\* Before the provider of this attempt is asked, and before it is measured.
Unattempted == {"prepare", "yieldUser", "yieldRetrying", "complete"}
Asked == {"yieldDelta", "reading", "fallback", "recordFallback", "persistSuccess", "persistReply",
          "persistAbort", "recordSuccess", "persistFailure", "yieldPartial", "recordFailure",
          "recordReplyFailure", "recordAbort"}

\* The finally block will find that the stream was aborted.
WillAbort(g) == g.pc = "finally" /\ ~g.completed /\ ~g.failed

Empty(g) == g.text = "" /\ ~g.reasoning

\* The local variables: whose output is in the reply, and what the flags of the catch and
\* finally blocks say at each point.
LocalsInv(g) ==
  /\ g.sources \subseteq {g.attempt} /\ (g.sources = {} <=> Empty(g))
  /\ g.pc \in {"prepare", "yieldUser", "yieldRetrying", "fallback", "recordFallback", "complete",
               "replyFallback"} => Empty(g)
  /\ g.pc \in {"persistSuccess", "persistReply"} => ~Empty(g) /\ g.sawCompletion
  /\ g.pc = "recordReplyFailure" => g.exit \in {"retry", "error"} /\ (g.exit = "retry" => Empty(g))
  /\ g.pc \in Leaving => g.exit \in {"end", "error"}
  /\ g.pc \in Announcing /\ g.streaming => g.completed
  /\ g.completed => g.pc \in Announcing \cup {"finally", "ended"}
  /\ g.pc \in {"yieldPartial", "recordFailure"} => g.failed
  /\ g.failed => g.pc \in {"yieldPartial", "recordFailure", "finally", "ended"}
  /\ g.streaming => g.pc \notin ReplyOnly
  /\ ~g.streaming => g.pc \in ReplyOnly \cup {"prepare", "recordSuccess", "promote", "ended"}

-----------------------------------------------------------------------------
(* What each step does to the generator, field by field.                   *)

SameTry(g, h) == h.attempt = g.attempt /\ h.asked = g.asked
SameText(g, h) == h.text = g.text /\ h.reasoning = g.reasoning /\ h.sources = g.sources
SameFlags(g, h) == h.persisted = g.persisted /\ h.completed = g.completed /\ h.failed = g.failed
SameEnd(g, h) == h.finish = g.finish /\ h.sawCompletion = g.sawCompletion

\* The generator is another one that streams or does not, as before.
Moves(g, h, pc) == h \in Generator /\ h.streaming = g.streaming /\ h.pc = pc

\* It goes on, and nothing else.
GoesTo(g, h, pc) ==
  Moves(g, h, pc) /\ SameTry(g, h) /\ SameText(g, h) /\ SameFlags(g, h) /\ SameEnd(g, h) /\ h.exit = g.exit

\* It is left.
Leaves(g, h, exit) ==
  Moves(g, h, "finally") /\ SameTry(g, h) /\ SameText(g, h) /\ SameFlags(g, h) /\ SameEnd(g, h) /\ h.exit = exit

Exits == {"end", "error", "retry"}

\* The set of generators, with the points hidden behind a name.
LEMMA GeneratorRows ==
  Generator =
    [pc : Pcs, streaming : BOOLEAN, attempt : Attempts, last : Attempts \cup {0}, text : Texts,
     reasoning : BOOLEAN, finish : Finishes, sawCompletion : BOOLEAN, persisted : BOOLEAN,
     completed : BOOLEAN, failed : BOOLEAN, sources : SUBSET Attempts, asked : SUBSET Attempts,
     exit : Exits]
BY DEF Generator, Pcs, Exits

\* The records the actions make of a generator.
LEMMA GoneFields ==
  ASSUME NEW g \in Generator, NEW pc \in Pcs, NEW h, h = [g EXCEPT !.pc = pc]
  PROVE  GoesTo(g, h, pc)
BY GeneratorRows DEF GoesTo, Moves, SameTry, SameText, SameFlags, SameEnd

LEMMA FailedFields ==
  ASSUME NEW g \in Generator, NEW b \in BOOLEAN, NEW f, f = [g EXCEPT !.failed = TRUE, !.persisted = b]
  PROVE  /\ f \in Generator /\ f.streaming = g.streaming /\ SameTry(g, f) /\ SameText(g, f)
         /\ f.completed = g.completed /\ f.failed
<1>1. f \in Generator
  BY GeneratorRows
<1> QED BY <1>1, GeneratorRows DEF SameTry, SameText

LEMMA GotoMoves ==
  ASSUME gen \in Generator, NEW pc \in Pcs, Goto(pc)
  PROVE  GoesTo(gen, gen', pc)
<1> PICK h : h = gen'
  OBVIOUS
<1>1. h = [gen EXCEPT !.pc = pc]
  BY DEF Goto
<1>2. GoesTo(gen, h, pc)
  BY <1>1, GoneFields
<1> QED BY <1>2

LEMMA LeaveMoves ==
  ASSUME gen \in Generator, NEW exit \in {"end", "error"}, Leave(exit)
  PROVE  Leaves(gen, gen', exit)
<1> PICK h : h = gen'
  OBVIOUS
<1>1. h = [gen EXCEPT !.pc = "finally", !.exit = exit]
  BY DEF Leave
<1>2. h \in Generator
  BY <1>1, GeneratorRows DEF Pcs, Exits
<1>3. Leaves(gen, h, exit)
  BY <1>1, <1>2, GeneratorRows DEF Leaves, Moves, SameTry, SameText, SameFlags, SameEnd
<1> QED BY <1>3

\* A step of the loop.
LEMMA PrepareMoves ==
  ASSUME gen \in Generator, Prepare
  PROVE  \/ /\ \E pc \in {IF gen.streaming THEN "yieldUser" ELSE "complete"} : GoesTo(gen, gen', pc)
            /\ IF gen.streaming THEN Answer("user_message") ELSE UNCHANGED iterator
         \/ GoesTo(gen, gen', "ended") /\ Settle("error")
<1> PICK h : h = gen'
  OBVIOUS
<1>1. ASSUME NEW last \in Attempts,
             h = [gen EXCEPT !.last = last, !.pc = IF gen.streaming THEN "yieldUser" ELSE "complete"]
      PROVE  GoesTo(gen, h, IF gen.streaming THEN "yieldUser" ELSE "complete")
  <2>1. PICK pc \in {"yieldUser", "complete"} : pc = IF gen.streaming THEN "yieldUser" ELSE "complete"
    OBVIOUS
  <2>2. GoesTo(gen, h, pc)
    BY <1>1, <2>1 DEF Generator, Yields, GoesTo, Moves, SameTry, SameText, SameFlags, SameEnd
  <2> QED BY <2>1, <2>2
<1>2. End("error") => GoesTo(gen, gen', "ended") /\ Settle("error")
  BY GotoMoves DEF End, Pcs
<1> QED BY <1>1, <1>2 DEF Prepare

LEMMA ReadMoves ==
  ASSUME gen \in Generator, Read
  PROVE  /\ Moves(gen, gen', "reading") /\ SameText(gen, gen') /\ SameFlags(gen, gen')
         /\ gen'.attempt = gen.attempt /\ gen'.asked = gen.asked \cup {gen.attempt}
<1> PICK h : h = gen'
  OBVIOUS
<1>1. h = [gen EXCEPT !.pc = "reading", !.asked = gen.asked \cup {gen.attempt}]
  BY DEF Read
<1>2. gen.asked \cup {gen.attempt} \in SUBSET Attempts
  BY DEF Generator
<1>3. /\ Moves(gen, h, "reading") /\ SameText(gen, h) /\ SameFlags(gen, h)
      /\ h.attempt = gen.attempt /\ h.asked = gen.asked \cup {gen.attempt}
  <2>1. h \in Generator
    BY <1>1, <1>2, GeneratorRows DEF Pcs
  <2> QED BY <1>1, <2>1, GeneratorRows DEF Moves, SameText, SameFlags
<1> QED BY <1>3

\* Output makes the reply a text of this provider; without any nothing is said.
LEMMA ChunkMoves ==
  ASSUME gen \in Generator, Chunk
  PROVE  /\ SameTry(gen, gen') /\ SameFlags(gen, gen')
         /\ \/ /\ Moves(gen, gen', "reading") /\ SameText(gen, gen') /\ UNCHANGED iterator
            \/ /\ Moves(gen, gen', "yieldDelta") /\ ~Empty(gen') /\ Answer("delta")
               /\ gen'.sources = gen.sources \cup {gen.attempt}
<1> PICK h : h = gen'
  OBVIOUS
<1>1. PICK text \in Texts, reasoning \in BOOLEAN, finish \in Finishes, done \in BOOLEAN :
        LET output == text # "" \/ reasoning
        IN /\ gen' = [gen EXCEPT !.text = Longer(@, text),
                                 !.reasoning = @ \/ reasoning,
                                 !.finish = IF finish = "none" THEN @ ELSE finish,
                                 !.sawCompletion = @ \/ done,
                                 !.sources = IF output THEN @ \cup {gen.attempt} ELSE @,
                                 !.pc = IF output THEN "yieldDelta" ELSE @]
           /\ IF output THEN Answer("delta") ELSE UNCHANGED iterator
  BY Zenon DEF Chunk
<1>2. PICK t : t = Longer(gen.text, text)
  OBVIOUS
<1>3. t \in Texts /\ (text = "" => t = gen.text) /\ (text # "" => t # "")
  BY <1>2 DEF Longer, Texts, Generator
<1>4. gen.pc = "reading" /\ gen.sources \cup {gen.attempt} \in SUBSET Attempts
  BY DEF Chunk, Generator
<1>5. PICK f \in Finishes : f = IF finish = "none" THEN gen.finish ELSE finish
  BY DEF Generator
<1>6. PICK r \in BOOLEAN : r = (gen.reasoning \/ reasoning)
  BY DEF Generator
<1>7. PICK c \in BOOLEAN : c = (gen.sawCompletion \/ done)
  BY DEF Generator
<1>8. CASE text # "" \/ reasoning
  <2>1. h = [gen EXCEPT !.text = t, !.reasoning = r, !.finish = f, !.sawCompletion = c,
                        !.sources = gen.sources \cup {gen.attempt}, !.pc = "yieldDelta"]
    BY <1>1, <1>2, <1>5, <1>6, <1>7, <1>8
  <2>2. /\ Moves(gen, h, "yieldDelta") /\ h.text = t /\ h.reasoning = r
        /\ h.sources = gen.sources \cup {gen.attempt} /\ SameTry(gen, h) /\ SameFlags(gen, h)
    <3>1. "yieldDelta" \in Pcs
      BY DEF Pcs, Yields
    <3>2. h \in Generator
      BY <2>1, <1>3, <1>4, <3>1, GeneratorRows
    <3> QED BY <2>1, <3>2, GeneratorRows DEF Moves, SameTry, SameFlags
  <2>3. ~Empty(h) /\ Answer("delta")
    BY <1>1, <1>3, <1>6, <1>8, <2>2 DEF Empty
  <2> QED BY <2>2, <2>3
<1>9. CASE text = "" /\ ~reasoning
  <2>1. h = [gen EXCEPT !.text = t, !.reasoning = r, !.finish = f, !.sawCompletion = c,
                        !.sources = gen.sources, !.pc = "reading"]
    BY <1>1, <1>2, <1>4, <1>5, <1>6, <1>7, <1>9
  <2>2. t = gen.text /\ r = gen.reasoning
    BY <1>3, <1>6, <1>9 DEF Generator
  <2>3. /\ Moves(gen, h, "reading") /\ SameText(gen, h) /\ SameTry(gen, h) /\ SameFlags(gen, h)
    <3>1. "reading" \in Pcs
      BY DEF Pcs
    <3>2. h \in Generator
      BY <2>1, <1>3, <3>1, GeneratorRows
    <3> QED BY <2>1, <2>2, <3>2, GeneratorRows DEF Moves, SameTry, SameText, SameFlags
  <2> QED BY <1>1, <1>9, <2>3
<1> QED BY <1>8, <1>9

LEMMA RecordFallbackMoves ==
  ASSUME gen \in Generator, RecordFallback
  PROVE  /\ Moves(gen, gen', "yieldRetrying") /\ SameText(gen, gen') /\ SameFlags(gen, gen')
         /\ gen'.attempt > gen.attempt /\ gen'.asked = gen.asked
<1> PICK h : h = gen'
  OBVIOUS
<1>1. PICK p \in Fallbacks : h = [gen EXCEPT !.pc = "yieldRetrying", !.attempt = p, !.finish = "none",
                                             !.sawCompletion = FALSE]
  BY DEF RecordFallback
<1>2. p \in Attempts /\ p > gen.attempt
  BY ProvidersAssumption DEF Fallbacks, Attempts, Generator
<1>3. /\ Moves(gen, h, "yieldRetrying") /\ SameText(gen, h) /\ SameFlags(gen, h)
      /\ h.attempt = p /\ h.asked = gen.asked
  <2>1. "yieldRetrying" \in Pcs /\ "none" \in Finishes
    BY DEF Pcs, Yields, Finishes
  <2>2. h \in Generator
    BY <1>1, <1>2, <2>1, GeneratorRows
  <2> QED BY <1>1, <2>2, GeneratorRows DEF Moves, SameText, SameFlags
<1> QED BY <1>2, <1>3

\* The writes set the flags that the catch and finally blocks look at.
LEMMA PersistSuccessMoves ==
  ASSUME gen \in Generator, PersistSuccess
  PROVE  /\ SameTry(gen, gen') /\ SameText(gen, gen') /\ gen'.failed = gen.failed /\ gen'.persisted
         /\ \/ Moves(gen, gen', "recordSuccess") /\ gen'.completed /\ Stored(Reply)
            \/ Moves(gen, gen', "persistFailure") /\ gen'.completed = gen.completed /\ StoreFails(Reply)
<1> PICK h : h = gen'
  OBVIOUS
<1>1. CASE Stored(Reply) /\ h = [gen EXCEPT !.persisted = TRUE, !.completed = TRUE, !.pc = "recordSuccess"]
  <2>1. "recordSuccess" \in Pcs
    BY DEF Pcs
  <2>2. h \in Generator
    BY <1>1, <2>1, GeneratorRows
  <2> QED BY <1>1, <2>2, GeneratorRows DEF Moves, SameTry, SameText
<1>2. CASE StoreFails(Reply) /\ h = [gen EXCEPT !.persisted = TRUE, !.pc = "persistFailure"]
  <2>1. "persistFailure" \in Pcs
    BY DEF Pcs
  <2>2. h \in Generator
    BY <1>2, <2>1, GeneratorRows
  <2> QED BY <1>2, <2>2, GeneratorRows DEF Moves, SameTry, SameText
<1> QED BY <1>1, <1>2 DEF PersistSuccess

Partial == AssistantMessage("error", FALSE)

LEMMA PersistFailureMoves ==
  ASSUME gen \in Generator, PersistFailure
  PROVE  /\ SameTry(gen, gen') /\ SameText(gen, gen') /\ gen'.completed = gen.completed /\ gen'.failed
         /\ \/ /\ gen.persisted \/ isEmpty
               /\ Moves(gen, gen', "recordFailure") /\ UNCHANGED <<iterator, messages, faults>>
            \/ /\ ~gen.persisted /\ ~isEmpty
               /\ Moves(gen, gen', "yieldPartial") /\ Stored(Partial) /\ Answer("assistant_message")
            \/ /\ ~gen.persisted /\ ~isEmpty
               /\ Moves(gen, gen', "finally") /\ gen'.exit = "error" /\ StoreFails(Partial)
               /\ UNCHANGED iterator
<1> PICK h : h = gen'
  OBVIOUS
<1>1. PICK b \in BOOLEAN : b = (gen.persisted \/ ~isEmpty)
  BY GeneratorRows
<1>2. PICK f : f = [gen EXCEPT !.failed = TRUE, !.persisted = b]
  OBVIOUS
<1>3. /\ f \in Generator /\ f.streaming = gen.streaming /\ SameTry(gen, f) /\ SameText(gen, f)
      /\ f.completed = gen.completed /\ f.failed
  BY <1>2, FailedFields
<1>4. ASSUME NEW pc \in Pcs, h = [f EXCEPT !.pc = pc]
      PROVE  /\ Moves(gen, h, pc) /\ SameTry(gen, h) /\ SameText(gen, h)
             /\ h.completed = gen.completed /\ h.failed
  <2>1. GoesTo(f, h, pc)
    BY <1>3, <1>4, GoneFields
  <2> QED BY <1>3, <2>1 DEF GoesTo, Moves, SameTry, SameText, SameFlags
<1>5. ASSUME h = [f EXCEPT !.pc = "finally", !.exit = "error"]
      PROVE  /\ Moves(gen, h, "finally") /\ SameTry(gen, h) /\ SameText(gen, h)
             /\ h.completed = gen.completed /\ h.failed /\ h.exit = "error"
  <2>1. Moves(f, h, "finally") /\ SameTry(f, h) /\ SameText(f, h) /\ SameFlags(f, h) /\ h.exit = "error"
    <3>1. h \in Generator
      BY <1>3, <1>5, GeneratorRows DEF Pcs, Exits
    <3> QED BY <1>3, <1>5, <3>1, GeneratorRows DEF Moves, SameTry, SameText, SameFlags
  <2> QED BY <1>3, <2>1 DEF Moves, SameTry, SameText, SameFlags
<1>6. \/ /\ gen.persisted \/ isEmpty
         /\ h = [f EXCEPT !.pc = "recordFailure"]
         /\ UNCHANGED <<iterator, messages, faults>>
      \/ /\ ~gen.persisted /\ ~isEmpty /\ Stored(Partial)
         /\ h = [f EXCEPT !.pc = "yieldPartial"]
         /\ Answer("assistant_message")
      \/ /\ ~gen.persisted /\ ~isEmpty /\ StoreFails(Partial)
         /\ h = [f EXCEPT !.pc = "finally", !.exit = "error"]
         /\ UNCHANGED iterator
  BY <1>1, <1>2 DEF PersistFailure, Partial
<1>7. {"recordFailure", "yieldPartial"} \subseteq Pcs
  BY DEF Pcs, Yields
<1> QED BY <1>4, <1>5, <1>6, <1>7

PartialAborted == AssistantMessage("aborted", FALSE)

LEMMA PersistAbortMoves ==
  ASSUME gen \in Generator, PersistAbort
  PROVE  /\ SameTry(gen, gen') /\ SameText(gen, gen') /\ gen'.exit = gen.exit
         /\ gen'.completed = gen.completed /\ gen'.failed = gen.failed
         /\ \/ /\ gen.persisted \/ isEmpty
               /\ Moves(gen, gen', "recordAbort") /\ UNCHANGED <<iterator, messages, faults>>
            \/ /\ ~gen.persisted /\ ~isEmpty
               /\ Moves(gen, gen', "recordAbort") /\ Stored(PartialAborted) /\ UNCHANGED iterator
            \/ /\ ~gen.persisted /\ ~isEmpty
               /\ Moves(gen, gen', "ended") /\ StoreFails(PartialAborted) /\ Settle("error")
<1> PICK h : h = gen'
  OBVIOUS
<1>1. CASE /\ gen.persisted \/ isEmpty
           /\ Goto("recordAbort")
           /\ UNCHANGED <<iterator, messages, faults>>
  BY <1>1, GotoMoves DEF Pcs, GoesTo, SameFlags
<1>2. CASE /\ ~gen.persisted /\ ~isEmpty /\ Stored(PartialAborted)
           /\ h = [gen EXCEPT !.pc = "recordAbort", !.persisted = TRUE]
           /\ UNCHANGED iterator
  <2>1. /\ Moves(gen, h, "recordAbort") /\ SameTry(gen, h) /\ SameText(gen, h) /\ h.exit = gen.exit
        /\ h.completed = gen.completed /\ h.failed = gen.failed
    <3>1. "recordAbort" \in Pcs
      BY DEF Pcs
    <3>2. h \in Generator
      BY <1>2, <3>1, GeneratorRows
    <3> QED BY <1>2, <3>2, GeneratorRows DEF Moves, SameTry, SameText
  <2> QED BY <1>2, <2>1
<1>3. CASE ~gen.persisted /\ ~isEmpty /\ StoreFails(PartialAborted) /\ End("error")
  BY <1>3, GotoMoves DEF Pcs, GoesTo, SameFlags, End
<1> QED BY <1>1, <1>2, <1>3 DEF PersistAbort, PartialAborted

\* generateAssistantResponse.
LEMMA CompleteMoves ==
  ASSUME gen \in Generator, Complete
  PROVE  /\ SameFlags(gen, gen') /\ gen'.attempt = gen.attempt /\ gen'.asked = gen.asked \cup {gen.attempt}
         /\ \/ /\ Moves(gen, gen', "persistReply") /\ gen'.sources = {gen.attempt} /\ ~Empty(gen')
               /\ gen'.sawCompletion
            \/ /\ Moves(gen, gen', "recordReplyFailure") /\ SameText(gen, gen')
               /\ gen'.exit \in {"retry", "error"}
<1> PICK h : h = gen'
  OBVIOUS
<1>0. gen.asked \cup {gen.attempt} \in SUBSET Attempts /\ {gen.attempt} \in SUBSET Attempts
  BY DEF Generator
<1>1. ASSUME NEW text \in Texts, NEW reasoning \in BOOLEAN, NEW finish \in Finishes,
             text = "text" \/ reasoning,
             h = [gen EXCEPT !.pc = "persistReply", !.text = text, !.reasoning = reasoning,
                             !.finish = finish, !.sawCompletion = TRUE,
                             !.sources = {gen.attempt}, !.asked = gen.asked \cup {gen.attempt}]
      PROVE  /\ SameFlags(gen, h) /\ h.attempt = gen.attempt /\ h.asked = gen.asked \cup {gen.attempt}
             /\ Moves(gen, h, "persistReply") /\ h.sources = {gen.attempt} /\ ~Empty(h) /\ h.sawCompletion
  <2>1. "persistReply" \in Pcs
    BY DEF Pcs
  <2>2. h \in Generator
    BY <1>0, <1>1, <2>1, GeneratorRows
  <2>3. h.text = text /\ h.reasoning = reasoning
    BY <1>1, GeneratorRows
  <2>4. ~Empty(h)
    BY <1>1, <2>3 DEF Empty
  <2> QED BY <1>1, <2>2, <2>4, GeneratorRows DEF Moves, SameFlags
<1>2. ASSUME NEW exit \in {"retry", "error"},
             h = [gen EXCEPT !.pc = "recordReplyFailure", !.exit = exit,
                             !.asked = gen.asked \cup {gen.attempt}]
      PROVE  /\ SameFlags(gen, h) /\ h.attempt = gen.attempt /\ h.asked = gen.asked \cup {gen.attempt}
             /\ Moves(gen, h, "recordReplyFailure") /\ SameText(gen, h) /\ h.exit \in {"retry", "error"}
  <2>1. "recordReplyFailure" \in Pcs
    BY DEF Pcs
  <2>2. h \in Generator
    BY <1>0, <1>2, <2>1, GeneratorRows DEF Exits
  <2> QED BY <1>2, <2>2, GeneratorRows DEF Moves, SameFlags, SameText
<1> QED BY <1>1, <1>2 DEF Complete

LEMMA PersistReplyMoves ==
  ASSUME gen \in Generator, PersistReply
  PROVE  /\ SameTry(gen, gen') /\ SameText(gen, gen') /\ SameFlags(gen, gen')
         /\ \/ Moves(gen, gen', "recordSuccess") /\ Stored(Reply)
            \/ Moves(gen, gen', "recordReplyFailure") /\ gen'.exit = "error" /\ StoreFails(Reply)
<1> PICK h : h = gen'
  OBVIOUS
<1>1. CASE Stored(Reply) /\ Goto("recordSuccess")
  BY <1>1, GotoMoves DEF Pcs, GoesTo
<1>2. CASE StoreFails(Reply) /\ h = [gen EXCEPT !.pc = "recordReplyFailure", !.exit = "error"]
  <2>1. Moves(gen, h, "recordReplyFailure") /\ h.exit = "error" /\ SameTry(gen, h) /\ SameText(gen, h) /\ SameFlags(gen, h)
    <3>1. h \in Generator
      BY <1>2, GeneratorRows DEF Pcs, Exits
    <3> QED BY <1>2, <3>1, GeneratorRows DEF Moves, SameTry, SameText, SameFlags
  <2> QED BY <1>2, <2>1
<1> QED BY <1>1, <1>2 DEF PersistReply

LEMMA ReplyFallbackMoves ==
  ASSUME gen \in Generator, ReplyFallback
  PROVE  /\ SameText(gen, gen') /\ SameFlags(gen, gen') /\ gen'.asked = gen.asked
         /\ \/ Moves(gen, gen', "complete") /\ gen'.attempt > gen.attempt /\ UNCHANGED iterator
            \/ Moves(gen, gen', "ended") /\ gen'.attempt = gen.attempt /\ Settle("error")
<1> PICK h : h = gen'
  OBVIOUS
<1>1. ASSUME NEW p \in Fallbacks, h = [gen EXCEPT !.pc = "complete", !.attempt = p]
      PROVE  /\ Moves(gen, h, "complete") /\ h.attempt > gen.attempt
             /\ SameText(gen, h) /\ SameFlags(gen, h) /\ h.asked = gen.asked
  <2>1. p \in Attempts /\ p > gen.attempt
    BY ProvidersAssumption DEF Fallbacks, Attempts, Generator
  <2>2. h \in Generator
    BY <1>1, <2>1, GeneratorRows DEF Pcs
  <2> QED BY <1>1, <2>1, <2>2, GeneratorRows DEF Moves, SameText, SameFlags
<1>2. CASE End("error")
  BY <1>2, GotoMoves DEF Pcs, GoesTo, SameTry, End
<1> QED BY <1>1, <1>2 DEF ReplyFallback

-----------------------------------------------------------------------------
(* The calls of the generator and their answers.                           *)

\* What waits for the generator, and where the controller then is.
CallsInv(g, it, c, closed) ==
  /\ g.pc \notin Yields \cup Leaving \cup {"ended"} => it.requests \in {<<"next">>, <<"next", "return">>}
  /\ g.pc \in Leaving => it.requests # <<>>
  /\ g.pc # "ended" => it.next \notin {"end", "error", "reply"} /\ it.return = "pending"
  /\ it.requests \in {<<"return">>, <<"next", "return">>} => closed
  /\ c = "leaving" => closed
  /\ c \in {"ended", "crashed"} => g.pc = "ended"
  /\ c \in {"iterate", "waiting", "leaving"} =>
       g.streaming /\ g.pc # "prepare" /\ it.next \notin {"user_message", "reply"}
  /\ c = "first" =>
       /\ g.streaming => g.pc \in {"prepare", "yieldUser", "ended"}
       /\ g.pc = "yieldUser" <=> it.next = "user_message"
       /\ it.next \in {"pending", "user_message", "error", "reply"}
       /\ g.pc \in Yields => it.requests = <<>>
  /\ c = "iterate" => it.requests = <<>> /\ it.next = "pending" /\ g.pc \in Yields
  /\ c \in {"first", "waiting"} =>
       /\ it.requests = IF it.next = "pending" THEN <<"next">> ELSE <<>>
       /\ g.pc = "ended" => it.next \in {"end", "error", "reply"}
  /\ c = "waiting" /\ it.next # "pending" => g.pc \in Yields \cup {"ended"}

Results == Events \cup {"pending", "end", "error", "reply"}

Queues == {<<>>, <<"next">>, <<"return">>, <<"next", "return">>}

Iterators == [requests : Queues, next : Results, return : {"pending", "end", "error"}]

\* Distinct queues, and what is left of them.
LEMMA QueueFacts ==
  /\ <<"next">> # <<>> /\ <<"return">> # <<>> /\ <<"next", "return">> # <<>>
  /\ <<"next">> # <<"return">> /\ <<"next">> # <<"next", "return">> /\ <<"return">> # <<"next", "return">>
  /\ Head(<<"next">>) = "next" /\ Head(<<"return">>) = "return" /\ Head(<<"next", "return">>) = "next"
  /\ Tail(<<"next">>) = <<>> /\ Tail(<<"return">>) = <<>> /\ Tail(<<"next", "return">>) = <<"return">>
  /\ Len(<<"next">>) = 1 /\ Len(<<"next", "return">>) = 2
  /\ Append(<<"next">>, "return") = <<"next", "return">>
<1>1. <<"next">> # <<>> /\ <<"return">> # <<>> /\ <<"next", "return">> # <<>>
  OBVIOUS
<1>2. Len(<<"next">>) = 1 /\ Len(<<"next", "return">>) = 2 /\ Len(<<"return">>) = 1
  OBVIOUS
<1>3. <<"next">> # <<"return">>
  OBVIOUS
<1>4. <<"next">> # <<"next", "return">> /\ <<"return">> # <<"next", "return">>
  BY <1>2
<1>5. Head(<<"next">>) = "next" /\ Head(<<"return">>) = "return" /\ Head(<<"next", "return">>) = "next"
  OBVIOUS
<1>6. Tail(<<"next">>) = <<>>
  OBVIOUS
<1>6a. Tail(<<"return">>) = <<>>
  OBVIOUS
<1>7. Tail(<<"next", "return">>) = <<"return">>
  OBVIOUS
<1>8. Append(<<"next">>, "return") = <<"next", "return">>
  <2>1. PICK q : q = <<"next">>
    OBVIOUS
  <2>2. q \in Seq({"next", "return"}) /\ Len(q) = 1 /\ q[1] = "next"
    BY <2>1
  <2>3. PICK s : s = Append(q, "return")
    OBVIOUS
  <2>4. "return" \in {"next", "return"}
    OBVIOUS
  <2>5. s \in Seq({"next", "return"}) /\ Len(s) = 2 /\ s[1] = "next" /\ s[2] = "return"
    <3>1. s \in Seq({"next", "return"}) /\ Len(s) = 2
      BY <2>2, <2>3, <2>4, AppendProperties
    <3>2. s[1] = "next"
      BY <2>2, <2>3, <2>4
    <3>3. Append(q, "return")[Len(q) + 1] = "return"
      BY <2>2, <2>4, AppendProperties
    <3>4. Len(q) + 1 = 2
      BY <2>2
    <3>5. s[2] = "return"
      BY <2>3, <3>3, <3>4
    <3> QED BY <3>1, <3>2, <3>5
  <2>6. s = <<"next", "return">>
    BY <2>5
  <2> QED BY <2>1, <2>3, <2>6
<1> QED BY <1>1, <1>2, <1>3, <1>4, <1>5, <1>6, <1>6a, <1>7, <1>8

\* A call of next() is the first that waits.
NextWaits(it) == it.requests \in {<<"next">>, <<"next", "return">>}

\* next() is answered with the event.
Answers(i, k, event) ==
  /\ k \in Iterators /\ k.next = event /\ k.return = i.return
  /\ k.requests = IF i.requests = <<"next", "return">> THEN <<"return">> ELSE <<>>

\* Every call is answered.
Settles(i, k, result) ==
  /\ k \in Iterators /\ k.requests = <<>>
  /\ NextWaits(i) => k.next = result
                     /\ k.return = IF i.requests = <<"next", "return">> THEN "end" ELSE "pending"
  /\ ~NextWaits(i) => k.next = i.next /\ k.return = result

LEMMA NextIsRequested ==
  ASSUME iterator \in Iterators
  PROVE  /\ Requested("next") <=> NextWaits(iterator)
         /\ Requested("return") <=> iterator.requests = <<"return">>
<1>1. iterator.requests \in Queues
  BY DEF Iterators
<1> QED BY <1>1, QueueFacts DEF Requested, NextWaits, Queues

LEMMA AnswerMoves ==
  ASSUME iterator \in Iterators, NextWaits(iterator), NEW event \in Events, Answer(event)
  PROVE  Answers(iterator, iterator', event)
<1> PICK k : k = iterator'
  OBVIOUS
<1>1. PICK r : r = Tail(iterator.requests)
  OBVIOUS
<1>2. r = IF iterator.requests = <<"next", "return">> THEN <<"return">> ELSE <<>>
  BY <1>1, QueueFacts DEF NextWaits
<1>3. r \in Queues
  BY <1>2 DEF Queues
<1>4. k = [iterator EXCEPT !.requests = r, !.next = event]
  BY <1>1 DEF Answer
<1>5. k \in Iterators /\ k.next = event /\ k.return = iterator.return /\ k.requests = r
  <2>1. event \in Results
    BY DEF Results
  <2> QED BY <1>3, <1>4, <2>1 DEF Iterators
<1> QED BY <1>2, <1>5 DEF Answers

LEMMA SettleMoves ==
  ASSUME iterator \in Iterators, iterator.requests # <<>>, NEW result \in {"end", "error", "reply"},
         ~NextWaits(iterator) => result # "reply", Settle(result)
  PROVE  Settles(iterator, iterator', result)
<1> PICK k : k = iterator'
  OBVIOUS
<1>0. iterator.requests \in Queues /\ <<>> \in Queues
  BY DEF Iterators, Queues
<1>1. CASE NextWaits(iterator)
  <2>1. PICK r : r = IF Len(iterator.requests) = 2 THEN "end" ELSE "pending"
    OBVIOUS
  <2>2. k = [requests |-> <<>>, next |-> result, return |-> r]
    BY <1>1, <2>1, NextIsRequested DEF Settle
  <2>3. r = IF iterator.requests = <<"next", "return">> THEN "end" ELSE "pending"
    BY <1>1, <2>1, QueueFacts DEF NextWaits
  <2>4. k \in Iterators /\ k.requests = <<>> /\ k.next = result /\ k.return = r
    BY <1>0, <2>2, <2>3 DEF Iterators, Results
  <2> QED BY <1>1, <2>3, <2>4 DEF Settles
<1>2. CASE ~NextWaits(iterator)
  <2>1. k = [iterator EXCEPT !.requests = <<>>, !.return = result]
    BY <1>2, NextIsRequested DEF Settle
  <2>2. k \in Iterators /\ k.requests = <<>> /\ k.next = iterator.next /\ k.return = result
    <3>1. result \in {"pending", "end", "error"}
      BY <1>2
    <3> QED BY <1>0, <2>1, <3>1 DEF Iterators
  <2> QED BY <1>2, <2>2 DEF Settles
<1> QED BY <1>1, <1>2

-----------------------------------------------------------------------------
(* The steps that only go on.                                              *)

LEMMA StreamEndsMoves ==
  ASSUME gen \in Generator, StreamEnds
  PROVE  \/ GoesTo(gen, gen', "persistSuccess") /\ ~Empty(gen) /\ gen.sawCompletion
         \/ GoesTo(gen, gen', "fallback") /\ Empty(gen)
         \/ GoesTo(gen, gen', "persistFailure")
<1>1. PICK error \in {"none", "eligible", "fatal"} :
        Goto(CASE ~AttemptFails(error) -> "persistSuccess"
               [] AttemptFails(error) /\ FallsBack(error) -> "fallback"
               [] OTHER -> "persistFailure")
  BY DEF StreamEnds
<1>2. {"persistSuccess", "fallback", "persistFailure"} \subseteq Pcs
  BY DEF Pcs
<1>3. CASE ~AttemptFails(error)
  BY <1>1, <1>2, <1>3, GotoMoves DEF AttemptFails, isEmpty, Empty
<1>4. CASE AttemptFails(error) /\ FallsBack(error)
  BY <1>1, <1>2, <1>4, GotoMoves DEF FallsBack, isEmpty, Empty
<1>5. CASE AttemptFails(error) /\ ~FallsBack(error)
  BY <1>1, <1>2, <1>5, GotoMoves
<1> QED BY <1>3, <1>4, <1>5

LEMMA FallbackMoves ==
  ASSUME gen \in Generator, Fallback
  PROVE  GoesTo(gen, gen', "recordFallback") \/ GoesTo(gen, gen', "persistFailure")
BY GotoMoves DEF Fallback, Pcs

LEMMA AnnounceMoves ==
  ASSUME gen \in Generator, Announce
  PROVE  \/ gen.streaming /\ GoesTo(gen, gen', "yieldMessage") /\ Answer("assistant_message")
         \/ ~gen.streaming /\ GoesTo(gen, gen', "ended") /\ Settle("reply")
<1>1. {"yieldMessage", "ended"} \subseteq Pcs
  BY DEF Pcs, Yields
<1> QED BY <1>1, GotoMoves DEF Announce, Yield, End

LEMMA RecordSuccessMoves ==
  ASSUME gen \in Generator, RecordSuccess
  PROVE  \/ gen.streaming /\ GoesTo(gen, gen', "yieldMessage") /\ Answer("assistant_message")
         \/ ~gen.streaming /\ GoesTo(gen, gen', "ended") /\ Settle("reply")
         \/ GoesTo(gen, gen', "promote") /\ UNCHANGED iterator
<1>1. "promote" \in Pcs
  BY DEF Pcs
<1> QED BY <1>1, GotoMoves, AnnounceMoves DEF RecordSuccess

LEMMA AfterMessageMoves ==
  ASSUME gen \in Generator, AfterMessage
  PROVE  \/ GoesTo(gen, gen', "yieldDone") /\ Answer("done")
         \/ GoesTo(gen, gen', "yieldSwitched") /\ Answer("provider_switch")
<1>1. {"yieldDone", "yieldSwitched"} \subseteq Pcs
  BY DEF Pcs, Yields
<1> QED BY <1>1, GotoMoves DEF AfterMessage, Yield

LEMMA AfterSwitchedMoves ==
  ASSUME gen \in Generator, AfterSwitched
  PROVE  GoesTo(gen, gen', "yieldDone") /\ Answer("done")
BY GotoMoves DEF AfterSwitched, Yield, Pcs, Yields

LEMMA AfterPartialMoves ==
  ASSUME gen \in Generator, AfterPartial
  PROVE  GoesTo(gen, gen', "recordFailure")
BY GotoMoves DEF AfterPartial, Pcs

LEMMA ReturnMoves ==
  ASSUME gen \in Generator, Return
  PROVE  \/ gen.pc = "yieldUser" /\ GoesTo(gen, gen', "ended") /\ Settle("end")
         \/ gen.pc # "yieldUser" /\ Leaves(gen, gen', "end") /\ UNCHANGED iterator
<1>1. "ended" \in Pcs
  BY DEF Pcs
<1> QED BY <1>1, GotoMoves, LeaveMoves DEF Return, End

LEMMA FinallyMoves ==
  ASSUME gen \in Generator, Finally
  PROVE  \/ ~gen.completed /\ ~gen.failed /\ GoesTo(gen, gen', "persistAbort") /\ UNCHANGED iterator
         \/ (gen.completed \/ gen.failed) /\ GoesTo(gen, gen', "ended") /\ Settle(gen.exit)
<1>1. {"persistAbort", "ended"} \subseteq Pcs
  BY DEF Pcs
<1> QED BY <1>1, GotoMoves DEF Finally, Aborts, End

LEMMA RecordAbortMoves ==
  ASSUME gen \in Generator, RecordAbort
  PROVE  GoesTo(gen, gen', "ended") /\ Settle(gen.exit)
BY GotoMoves DEF RecordAbort, End, Pcs

LEMMA RecordReplyFailureMoves ==
  ASSUME gen \in Generator, RecordReplyFailure
  PROVE  \/ gen.exit = "retry" /\ GoesTo(gen, gen', "replyFallback") /\ UNCHANGED iterator
         \/ gen.exit # "retry" /\ GoesTo(gen, gen', "ended") /\ Settle("error")
<1>1. {"replyFallback", "ended"} \subseteq Pcs
  BY DEF Pcs
<1> QED BY <1>1, GotoMoves DEF RecordReplyFailure, End

-----------------------------------------------------------------------------
(* The local variables.                                                    *)

LEMMA GenerateLocals ==
  ASSUME gen \in Generator, LocalsInv(gen), Generate \/ Chunk
  PROVE  gen' \in Generator /\ LocalsInv(gen')
<1> USE DEF Moves, GoesTo, Leaves, SameTry, SameFlags, SameText, SameEnd, LocalsInv, Empty, isEmpty, Leaving,
            Announcing, ReplyOnly
<1>1. CASE Prepare
  BY <1>1, PrepareMoves DEF Prepare
<1>2. CASE Read
  BY <1>2, ReadMoves DEF Read, ReplyOnly
<1>3. CASE Chunk
  BY <1>3, ChunkMoves DEF Chunk
<1>4. CASE StreamEnds
  BY <1>4, StreamEndsMoves DEF StreamEnds
<1>5. CASE Fallback
  BY <1>5, FallbackMoves DEF Fallback
<1>6. CASE RecordFallback
  BY <1>6, RecordFallbackMoves DEF RecordFallback
<1>7. CASE PersistSuccess
  BY <1>7, PersistSuccessMoves DEF PersistSuccess
<1>8. CASE RecordSuccess
  BY <1>8, RecordSuccessMoves DEF RecordSuccess
<1>9. CASE Promote
  BY <1>9, AnnounceMoves DEF Promote
<1>10. CASE AfterMessage
  BY <1>10, AfterMessageMoves DEF AfterMessage
<1>11. CASE AfterSwitched
  BY <1>11, AfterSwitchedMoves DEF AfterSwitched
<1>12. CASE AfterDone
  BY <1>12, LeaveMoves DEF AfterDone
<1>13. CASE PersistFailure
  BY <1>13, PersistFailureMoves DEF PersistFailure
<1>14. CASE AfterPartial
  BY <1>14, AfterPartialMoves DEF AfterPartial
<1>15. CASE RecordFailure
  BY <1>15, LeaveMoves DEF RecordFailure
<1>16. CASE Return
  BY <1>16, ReturnMoves DEF Return, Yields
<1>17. CASE Finally
  BY <1>17, FinallyMoves DEF Finally
<1>18. CASE PersistAbort
  BY <1>18, PersistAbortMoves DEF PersistAbort
<1>19. CASE RecordAbort
  BY <1>19, RecordAbortMoves DEF RecordAbort
<1>20. CASE Complete
  BY <1>20, CompleteMoves DEF Complete
<1>21. CASE PersistReply
  BY <1>21, PersistReplyMoves DEF PersistReply
<1>22. CASE RecordReplyFailure
  BY <1>22, RecordReplyFailureMoves DEF RecordReplyFailure
<1>23. CASE ReplyFallback
  BY <1>23, ReplyFallbackMoves DEF ReplyFallback
<1> QED
  BY <1>1, <1>2, <1>3, <1>4, <1>5, <1>6, <1>7, <1>8, <1>9, <1>10, <1>11, <1>12, <1>13, <1>14, <1>15,
     <1>16, <1>17, <1>18, <1>19, <1>20, <1>21, <1>22, <1>23 DEF Generate

-----------------------------------------------------------------------------
(* The calls.                                                              *)

\* Points at which the generator runs.
Running == Pcs \ (Yields \cup Leaving \cup {"ended"})

\* It runs on, to another such point or to the finally block, and answers nothing.
RunsOn(g, h, i, k) ==
  /\ g.pc \in Running \/ (g.pc \in Yields \ {"yieldUser"} /\ i.requests # <<>>) \/ (g.pc = "yieldUser" /\ NextWaits(i))
  /\ h.pc \in Running => g.pc \in Running \/ NextWaits(i)
  /\ h.pc \in (Running \cup Leaving) \ {"prepare"} /\ k = i
  /\ g.pc = "prepare" => ~g.streaming

\* It is being left.
LeavesOn(g, h, i, k) == g.pc \in Leaving /\ h.pc \in Leaving /\ k = i

\* It answers next() and stops at a yield.
YieldsAt(g, h, i, k) ==
  /\ NextWaits(i) /\ g.pc \notin Leaving \cup {"ended", "yieldUser"}
  /\ \E event \in Events :
       Answers(i, k, event) /\ (event = "user_message" <=> h.pc = "yieldUser") /\ (h.pc = "yieldUser" <=> g.pc = "prepare")
  /\ h.pc \in Yields /\ g.streaming

\* It is over.
EndsAt(g, h, i, k) ==
  /\ g.pc # "ended" /\ h.pc = "ended" /\ i.requests # <<>>
  /\ g.pc \in Yields => g.pc = "yieldUser"
  /\ \E result \in {"end", "error", "reply"} :
       /\ Settles(i, k, result)
       /\ result = "reply" => ~g.streaming
       /\ result = "end" => g.streaming /\ g.pc # "prepare"

LEMMA GenerateKinds ==
  ASSUME gen \in Generator, LocalsInv(gen), iterator \in Iterators,
         CallsInv(gen, iterator, controller, client.closed), Generate \/ Chunk
  PROVE  /\ gen'.streaming = gen.streaming
         /\ \/ RunsOn(gen, gen', iterator, iterator')
            \/ LeavesOn(gen, gen', iterator, iterator')
            \/ YieldsAt(gen, gen', iterator, iterator')
            \/ EndsAt(gen, gen', iterator, iterator')
<1> USE NextIsRequested DEF Moves, GoesTo, Leaves, Leaving
<1> DEFINE Kinds ==
      /\ gen'.streaming = gen.streaming
      /\ \/ RunsOn(gen, gen', iterator, iterator')
         \/ LeavesOn(gen, gen', iterator, iterator')
         \/ YieldsAt(gen, gen', iterator, iterator')
         \/ EndsAt(gen, gen', iterator, iterator')
<1>a. gen.pc \in Running => NextWaits(iterator)
  BY DEF CallsInv, Running, NextWaits
<1>b. /\ {"prepare", "reading", "fallback", "recordFallback", "persistSuccess", "recordSuccess", "promote",
          "persistFailure", "recordFailure", "complete", "persistReply", "recordReplyFailure",
          "replyFallback"} \subseteq Running
      /\ Yields \cap (Running \cup Leaving \cup {"ended"}) = {} /\ Running \cap (Leaving \cup {"ended"}) = {}
  BY DEF Running, Pcs, Yields
<1>c. {"yieldUser", "yieldDelta", "yieldRetrying", "yieldMessage", "yieldSwitched", "yieldDone", "yieldPartial"}
      = Yields
  BY DEF Yields
<1>d. {"user_message", "delta", "provider_switch", "assistant_message", "done"} = Events
  BY DEF Events
<1>e. /\ NextWaits(iterator) => iterator.requests # <<>>
      /\ gen.pc \in Leaving => iterator.requests # <<>>
  BY QueueFacts DEF NextWaits, CallsInv
<1>f. ASSUME NEW event \in Events, NextWaits(iterator), Answer(event)
      PROVE  Answers(iterator, iterator', event)
  BY <1>f, AnswerMoves
<1>g. ASSUME NEW result \in {"end", "error", "reply"}, iterator.requests # <<>>,
             result = "reply" => NextWaits(iterator), Settle(result)
      PROVE  Settles(iterator, iterator', result)
  BY <1>g, SettleMoves
<1>1. CASE Prepare
  BY <1>1, <1>a, <1>b, <1>c, <1>d, <1>e, <1>f, <1>g, PrepareMoves DEF Prepare, RunsOn, YieldsAt, EndsAt
<1>2. CASE Read
  BY <1>2, <1>b, <1>c, <1>e, ReadMoves DEF Read, RunsOn
<1>3. CASE Chunk
  BY <1>3, <1>a, <1>b, <1>c, <1>d, <1>f, ChunkMoves DEF Chunk, RunsOn, YieldsAt, LocalsInv, ReplyOnly
<1>4. CASE StreamEnds
  BY <1>4, <1>b, StreamEndsMoves DEF StreamEnds, RunsOn
<1>5. CASE Fallback
  BY <1>5, <1>b, FallbackMoves DEF Fallback, RunsOn
<1>6. CASE RecordFallback
  BY <1>6, <1>a, <1>b, <1>c, <1>d, <1>f, RecordFallbackMoves DEF RecordFallback, YieldsAt, LocalsInv, ReplyOnly
<1>7. CASE PersistSuccess
  BY <1>7, <1>b, PersistSuccessMoves DEF PersistSuccess, RunsOn
<1>8. CASE RecordSuccess
  BY <1>8, <1>a, <1>b, <1>c, <1>d, <1>e, <1>f, <1>g, RecordSuccessMoves DEF RecordSuccess, RunsOn, YieldsAt, EndsAt
<1>9. CASE Promote
  BY <1>9, <1>a, <1>b, <1>c, <1>d, <1>e, <1>f, <1>g, AnnounceMoves DEF Promote, YieldsAt, EndsAt
<1>10. CASE AfterMessage
  BY <1>10, <1>b, <1>c, <1>d, <1>f, AfterMessageMoves DEF AfterMessage, YieldsAt, LocalsInv, ReplyOnly
<1>11. CASE AfterSwitched
  BY <1>11, <1>b, <1>c, <1>d, <1>f, AfterSwitchedMoves DEF AfterSwitched, YieldsAt, LocalsInv, ReplyOnly
<1>12. CASE AfterDone
  BY <1>12, <1>b, <1>c, <1>e, LeaveMoves DEF AfterDone, RunsOn
<1>13. CASE PersistFailure
  BY <1>13, <1>a, <1>b, <1>c, <1>d, <1>f, PersistFailureMoves DEF PersistFailure, RunsOn, YieldsAt, LocalsInv, ReplyOnly
<1>14. CASE AfterPartial
  BY <1>14, <1>b, <1>c, <1>e, AfterPartialMoves DEF AfterPartial, RunsOn
<1>15. CASE RecordFailure
  BY <1>15, <1>b, LeaveMoves DEF RecordFailure, RunsOn
<1>16. CASE Return
  BY <1>16, <1>b, <1>c, <1>g, ReturnMoves, QueueFacts DEF Return, RunsOn, EndsAt, LocalsInv, ReplyOnly
<1>17. CASE Finally
  BY <1>17, <1>b, <1>e, <1>g, FinallyMoves DEF Finally, LeavesOn, EndsAt, LocalsInv, ReplyOnly, Yields
<1>18. CASE PersistAbort
  BY <1>18, <1>b, <1>e, <1>g, PersistAbortMoves DEF PersistAbort, LeavesOn, EndsAt, Yields
<1>19. CASE RecordAbort
  BY <1>19, <1>b, <1>e, <1>g, RecordAbortMoves DEF RecordAbort, EndsAt, LocalsInv, ReplyOnly, Yields
<1>20. CASE Complete
  BY <1>20, <1>b, CompleteMoves DEF Complete, RunsOn
<1>21. CASE PersistReply
  BY <1>21, <1>b, PersistReplyMoves DEF PersistReply, RunsOn
<1>22. CASE RecordReplyFailure
  BY <1>22, <1>a, <1>b, <1>e, <1>g, RecordReplyFailureMoves DEF RecordReplyFailure, RunsOn, EndsAt, Yields
<1>23. CASE ReplyFallback
  BY <1>23, <1>a, <1>b, <1>e, <1>g, ReplyFallbackMoves DEF ReplyFallback, RunsOn, EndsAt, Yields
<1> QED
  BY <1>1, <1>2, <1>3, <1>4, <1>5, <1>6, <1>7, <1>8, <1>9, <1>10, <1>11, <1>12, <1>13, <1>14, <1>15,
     <1>16, <1>17, <1>18, <1>19, <1>20, <1>21, <1>22, <1>23 DEF Generate

LEMMA GenerateCalls ==
  ASSUME gen \in Generator, LocalsInv(gen), iterator \in Iterators,
         CallsInv(gen, iterator, controller, client.closed), Generate \/ Chunk
  PROVE  iterator' \in Iterators /\ CallsInv(gen', iterator', controller, client.closed)
<1> PICK g, h, i, k, c, closed :
      g = gen /\ h = gen' /\ i = iterator /\ k = iterator' /\ c = controller /\ closed = client.closed
  OBVIOUS
<1>1. h.streaming = g.streaming /\ (RunsOn(g, h, i, k) \/ LeavesOn(g, h, i, k) \/ YieldsAt(g, h, i, k) \/ EndsAt(g, h, i, k))
  BY GenerateKinds
<1>2. CallsInv(g, i, c, closed) /\ i \in Iterators /\ g.pc \in Pcs
  BY GeneratorRows
<1>3. Yields \cap (Running \cup Leaving \cup {"ended"}) = {} /\ Running \cap (Leaving \cup {"ended"}) = {}
      /\ "ended" \notin Leaving /\ "yieldUser" \in Yields /\ "prepare" \in Running
  BY DEF Running, Pcs, Yields, Leaving
<1>i. i.requests \in Queues /\ (c = "first" => i.requests \in {<<>>, <<"next">>})
  BY <1>2 DEF Iterators, CallsInv
<1>e. "user_message" \in Events /\ Events \cap {"pending", "end", "error", "reply"} = {}
  BY DEF Events
<1>4. CASE RunsOn(g, h, i, k)
  <2> USE <1>1, <1>2, <1>3, <1>i, <1>e, <1>4, QueueFacts DEF RunsOn, CallsInv, NextWaits, Running
  <2>1. k \in Iterators
    OBVIOUS
  <2>2. CASE c = "first"
    <3>1. g.pc \notin Yields
      BY <2>2
    <3>2. ~g.streaming
      BY <2>2, <3>1
    <3> QED BY <2>1, <2>2, <3>1, <3>2
  <2>3. CASE c = "iterate"
    BY <2>1, <2>3
  <2>4. CASE c = "waiting"
    BY <2>1, <2>4
  <2>5. CASE c = "leaving"
    BY <2>1, <2>5
  <2>6. CASE c \notin {"first", "iterate", "waiting", "leaving"}
    BY <2>1, <2>6
  <2> QED BY <2>1, <2>2, <2>3, <2>4, <2>5, <2>6
<1>5. CASE LeavesOn(g, h, i, k)
  <2> USE <1>1, <1>2, <1>3, <1>i, <1>e, <1>5, QueueFacts DEF LeavesOn, CallsInv, NextWaits
  <2>1. k \in Iterators
    OBVIOUS
  <2>2. CASE c = "first"
    BY <2>1, <2>2
  <2>3. CASE c = "iterate"
    BY <2>1, <2>3
  <2>4. CASE c = "waiting"
    BY <2>1, <2>4
  <2>5. CASE c = "leaving"
    BY <2>1, <2>5
  <2>6. CASE c \notin {"first", "iterate", "waiting", "leaving"}
    BY <2>1, <2>6
  <2> QED BY <2>1, <2>2, <2>3, <2>4, <2>5, <2>6
<1>6. CASE YieldsAt(g, h, i, k)
  <2> USE <1>1, <1>2, <1>3, <1>i, <1>e, <1>6, QueueFacts DEF YieldsAt, CallsInv, NextWaits, Answers
  <2>1. k \in Iterators
    OBVIOUS
  <2>2. CASE c = "first"
    <3>1. i.requests = <<"next">> /\ g.pc = "prepare" /\ h.pc = "yieldUser"
      BY <2>2
    <3>2. k.next = "user_message" /\ k.requests = <<>> /\ k.return = i.return
      BY <3>1
    <3> QED BY <2>1, <2>2, <3>1, <3>2
  <2>3. CASE c = "iterate"
    BY <2>1, <2>3
  <2>4. CASE c = "waiting"
    BY <2>1, <2>4
  <2>5. CASE c = "leaving"
    BY <2>1, <2>5
  <2>6. CASE c \notin {"first", "iterate", "waiting", "leaving"}
    BY <2>1, <2>6
  <2> QED BY <2>1, <2>2, <2>3, <2>4, <2>5, <2>6
<1>7. CASE EndsAt(g, h, i, k)
  <2> USE <1>1, <1>2, <1>3, <1>i, <1>e, <1>7, QueueFacts DEF EndsAt, CallsInv, NextWaits, Settles
  <2>1. k \in Iterators
    OBVIOUS
  <2>2. CASE c = "first"
    <3>1. i.requests = <<"next">> /\ g.pc # "yieldUser"
      BY <2>2
    <3>2. k.next \in {"error", "reply"} /\ k.requests = <<>>
      BY <2>2, <3>1
    <3> QED BY <2>1, <2>2, <3>1, <3>2
  <2>3. CASE c = "iterate"
    BY <2>1, <2>3
  <2>4. CASE c = "waiting"
    BY <2>1, <2>4
  <2>5. CASE c = "leaving"
    BY <2>1, <2>5
  <2>6. CASE c \notin {"first", "iterate", "waiting", "leaving"}
    BY <2>1, <2>6
  <2> QED BY <2>1, <2>2, <2>3, <2>4, <2>5, <2>6
<1>8. k \in Iterators /\ CallsInv(h, k, c, closed)
  BY <1>1, <1>4, <1>5, <1>6, <1>7
<1> QED BY <1>8

-----------------------------------------------------------------------------
(* The types.                                                              *)

LEMMA MessageType ==
  ASSUME gen \in Generator, NEW finish \in Finishes \cup {"error", "aborted"}, NEW eligible \in BOOLEAN
  PROVE  AssistantMessage(finish, eligible) \in Message
BY GeneratorRows DEF AssistantMessage, Message

LEMMA ReplyType ==
  ASSUME gen \in Generator
  PROVE  Reply \in Message /\ Partial \in Message /\ PartialAborted \in Message
<1>1. isTitleEligibleReply(gen) \in BOOLEAN
  BY DEF isTitleEligibleReply
<1>2. gen.finish \in Finishes
  BY GeneratorRows
<1> QED BY <1>1, <1>2, MessageType DEF Reply, Partial, PartialAborted

\* A fault is counted, and a statement that does not fail leaves the count alone.
Faults == faults' = faults \/ (faults < MaxFaults /\ faults' = faults + 1)

Messages(ms) == messages' = messages \/ \E m \in ms : messages' = Append(messages, m)

LEMMA StoreMoves ==
  ASSUME NEW m, Stored(m) \/ StoreFails(m)
  PROVE  Messages({m}) /\ Faults
BY DEF Stored, StoreFails, Fault, Faults, Messages

Row(outcome) == [provider |-> gen.attempt, outcome |-> outcome]

LEMMA RecordMoves ==
  ASSUME NEW outcome, RecordUsage(outcome)
  PROVE  (usage' = Append(usage, Row(outcome)) \/ usage' = usage) /\ Faults
BY DEF RecordUsage, Row, Fault, Faults

LEMMA GenerateWrites ==
  ASSUME Generate \/ Chunk
  PROVE  /\ Messages({Reply, Partial, PartialAborted}) /\ Faults /\ UNCHANGED <<controller, client>>
         /\ usage' = usage \/ \E outcome \in {"SUCCEEDED", "FAILED", "ABORTED"} : usage' = Append(usage, Row(outcome))
         /\ promoted' = promoted \/ promoted' = gen.attempt
<1> USE DEF Messages, stored
<1>1. CASE Prepare \/ Read \/ StreamEnds \/ Fallback \/ AfterMessage \/ AfterSwitched \/ AfterDone \/ AfterPartial
           \/ Return \/ Finally \/ Complete \/ ReplyFallback \/ Chunk
  BY <1>1 DEF Prepare, Read, StreamEnds, Fallback, AfterMessage, AfterSwitched, AfterDone, AfterPartial, Return,
              Finally, Complete, ReplyFallback, Chunk, Faults
<1>2. CASE RecordFallback \/ RecordSuccess \/ RecordFailure \/ RecordAbort \/ RecordReplyFailure
  BY <1>2, RecordMoves DEF RecordFallback, RecordSuccess, RecordFailure, RecordAbort, RecordReplyFailure
<1>3. CASE PersistSuccess \/ PersistReply
  BY <1>3, StoreMoves DEF PersistSuccess, PersistReply
<1>4. CASE PersistFailure
  BY <1>4, StoreMoves DEF PersistFailure, Partial, Faults
<1>5. CASE PersistAbort
  BY <1>5, StoreMoves DEF PersistAbort, PartialAborted, Faults
<1>6. CASE Promote
  BY <1>6 DEF Promote, Faults
<1> QED BY <1>1, <1>2, <1>3, <1>4, <1>5, <1>6 DEF Generate

Clients == [closed : BOOLEAN, shown : BOOLEAN, last : Events \cup {"nothing", "error", "reply"}]

\* What the client is sent.
Writes(c, d, event) ==
  /\ d \in Clients /\ d.closed = c.closed
  /\ d.shown = (c.shown \/ (event = "delta" /\ ~c.closed))
  /\ d.last = IF c.closed \/ event = "end" THEN c.last ELSE event

LEMMA WriteMoves ==
  ASSUME client \in Clients, NEW event \in Results \ {"pending"}, Write(event)
  PROVE  Writes(client, client', event)
<1> PICK d : d = client'
  OBVIOUS
<1>1. CASE client.closed \/ event = "end"
  <2>1. d = client
    BY <1>1 DEF Write
  <2> QED BY <1>1, <2>1 DEF Writes, Clients
<1>2. CASE ~(client.closed \/ event = "end")
  <2>1. PICK b \in BOOLEAN : b = (client.shown \/ event = "delta")
    BY DEF Clients
  <2>2. d = [client EXCEPT !.last = event, !.shown = b]
    BY <1>2, <2>1 DEF Write
  <2>3. event \in Events \cup {"nothing", "error", "reply"}
    BY <1>2 DEF Results
  <2>4. d \in Clients /\ d.closed = client.closed /\ d.shown = b /\ d.last = event
    BY <2>2, <2>3 DEF Clients
  <2> QED BY <1>2, <2>1, <2>4 DEF Writes
<1> QED BY <1>1, <1>2

\* The controller takes the answer.
Takes(i, k) ==
  k \in Iterators /\ k.requests = i.requests /\ k.next = "pending" /\ k.return = i.return

LEMMA TakeMoves ==
  ASSUME iterator \in Iterators, iterator' = [iterator EXCEPT !.next = "pending"]
  PROVE  Takes(iterator, iterator')
<1> PICK k : k = iterator'
  OBVIOUS
<1>1. "pending" \in Results
  BY DEF Results
<1>2. Takes(iterator, k)
  BY <1>1 DEF Takes, Iterators
<1> QED BY <1>2

\* It calls next(), and perhaps return().
Asks(i, k, requests) ==
  k \in Iterators /\ k.requests = requests /\ k.next = i.next /\ k.return = i.return

LEMMA AskMoves ==
  ASSUME iterator \in Iterators, NEW requests \in Queues, iterator' = [iterator EXCEPT !.requests = requests]
  PROVE  Asks(iterator, iterator', requests)
<1> PICK k : k = iterator'
  OBVIOUS
<1>1. Asks(iterator, k, requests)
  BY DEF Asks, Iterators
<1> QED BY <1>1

LEMMA CloseMoves ==
  ASSUME client \in Clients, ClientCloses
  PROVE  /\ client' \in Clients /\ client'.closed /\ client'.shown = client.shown /\ client'.last = client.last
<1> PICK d : d = client'
  OBVIOUS
<1>1. d \in Clients /\ d.closed /\ d.shown = client.shown /\ d.last = client.last
  BY DEF ClientCloses, Clients
<1> QED BY <1>1

Rest ==
  /\ controller \in {"first", "iterate", "waiting", "leaving", "ended", "crashed"}
  /\ messages \in Seq(Message) /\ usage \in Seq(Usage)
  /\ promoted \in Attempts \cup {0} /\ faults \in 0..MaxFaults

LEMMA TypeRows == TypeOK <=> gen \in Generator /\ iterator \in Iterators /\ client \in Clients /\ Rest
BY DEF TypeOK, Iterators, Queues, Results, Clients, Rest

\* The invariant of types, local variables and calls.
FlowInv == TypeOK /\ LocalsInv(gen) /\ CallsInv(gen, iterator, controller, client.closed)

LEMMA FlowStarts ==
  ASSUME Init
  PROVE  FlowInv
<1>1. PICK streaming \in BOOLEAN : gen = Fresh(streaming)
  BY DEF Init
<1>2. gen \in Generator
  <2>1. 1 \in Attempts
    BY ProvidersAssumption DEF Attempts
  <2>2. "prepare" \in Pcs /\ "" \in Texts /\ "none" \in Finishes /\ "end" \in Exits
    BY DEF Pcs, Texts, Finishes, Exits
  <2> QED BY <1>1, <2>1, <2>2, GeneratorRows DEF Fresh
<1>3. iterator \in Iterators /\ client \in Clients
  <2>1. <<"next">> \in Queues /\ "pending" \in Results
    BY DEF Queues, Results
  <2> QED BY <2>1 DEF Init, Iterators, Clients
<1>4. Rest
  BY FaultsAssumption DEF Init, Rest
<1>5. LocalsInv(gen)
  BY <1>1 DEF Fresh, LocalsInv, Empty, Leaving, Announcing, ReplyOnly
<1>6. CallsInv(gen, iterator, controller, client.closed)
  <2>1. gen.pc = "prepare" /\ controller = "first" /\ ~client.closed
    BY <1>1 DEF Fresh, Init
  <2>2. iterator.requests = <<"next">> /\ iterator.next = "pending" /\ iterator.return = "pending"
    BY DEF Init
  <2> QED BY <2>1, <2>2, QueueFacts DEF CallsInv, Yields, Leaving
<1> QED BY <1>2, <1>3, <1>4, <1>5, <1>6, TypeRows DEF FlowInv

LEMMA FlowGenerates ==
  ASSUME FlowInv, Generate \/ Chunk
  PROVE  FlowInv'
<1>1. gen \in Generator /\ iterator \in Iterators /\ client \in Clients /\ Rest
  BY TypeRows DEF FlowInv
<1>2. gen' \in Generator /\ LocalsInv(gen')
  BY <1>1, GenerateLocals DEF FlowInv
<1>3. iterator' \in Iterators /\ CallsInv(gen', iterator', controller, client.closed)
  BY <1>1, GenerateCalls DEF FlowInv
<1>4. client' = client /\ controller' = controller /\ Faults
  BY GenerateWrites
<1>5. messages' \in Seq(Message)
  <2>1. Messages({Reply, Partial, PartialAborted}) /\ {Reply, Partial, PartialAborted} \subseteq Message
    BY <1>1, GenerateWrites, ReplyType
  <2>2. messages' = messages \/ \E m \in Message : messages' = Append(messages, m)
    BY <2>1 DEF Messages
  <2> QED BY <1>1, <2>2, AppendProperties DEF Rest
<1>6. usage' \in Seq(Usage)
  <2>1. \A outcome \in {"SUCCEEDED", "FAILED", "ABORTED"} : Row(outcome) \in Usage
    BY <1>1, GeneratorRows DEF Row, Usage
  <2>2. usage' = usage \/ \E row \in Usage : usage' = Append(usage, row)
    BY <2>1, GenerateWrites
  <2> QED BY <1>1, <2>2, AppendProperties DEF Rest
<1>7. promoted' \in Attempts \cup {0} /\ faults' \in 0..MaxFaults
  <2>1. gen.attempt \in Attempts
    BY <1>1, GeneratorRows
  <2> QED BY <1>1, <1>4, <2>1, GenerateWrites, FaultsAssumption DEF Rest, Faults
<1>8. Rest'
  BY <1>1, <1>4, <1>5, <1>6, <1>7 DEF Rest
<1>9. (gen \in Generator /\ iterator \in Iterators /\ client \in Clients /\ Rest)'
  BY <1>1, <1>2, <1>3, <1>4, <1>8
<1>10. TypeOK'
  BY <1>9 DEF TypeOK, Iterators, Queues, Results, Clients, Rest
<1> QED BY <1>2, <1>3, <1>4, <1>10 DEF FlowInv

LEMMA FlowControls ==
  ASSUME FlowInv, Control \/ ClientCloses \/ Crash
  PROVE  FlowInv'
<1>1. gen \in Generator /\ iterator \in Iterators /\ client \in Clients /\ Rest /\ LocalsInv(gen)
      /\ CallsInv(gen, iterator, controller, client.closed)
  BY TypeRows DEF FlowInv
<1>2. UNCHANGED stored
  BY DEF Control, ReceiveFirst, Iterate, Receive, Heartbeat, Left, ClientCloses, Crash
<1> DEFINE After ==
      /\ gen' \in Generator /\ LocalsInv(gen') /\ iterator' \in Iterators /\ client' \in Clients
      /\ controller' \in {"first", "iterate", "waiting", "leaving", "ended", "crashed"}
      /\ CallsInv(gen', iterator', controller', client'.closed)
<1>i. iterator.requests \in Queues /\ iterator.next \in Results
  BY <1>1 DEF Iterators
<1>3. ASSUME ReceiveFirst PROVE After
  <2>1. Takes(iterator, iterator') /\ Writes(client, client', iterator.next)
    BY <1>1, <1>3, <1>i, TakeMoves, WriteMoves DEF ReceiveFirst
  <2>2. CallsInv(gen, iterator', controller', client.closed)
    <3>1. iterator.requests = <<>>
      BY <1>1, <1>3 DEF ReceiveFirst, CallsInv
    <3>2. CASE iterator.next = "user_message"
      <4>1. gen.pc = "yieldUser" /\ gen.streaming /\ controller' = "iterate"
        BY <1>1, <1>3, <3>2 DEF ReceiveFirst, CallsInv, LocalsInv, ReplyOnly
      <4> QED BY <1>1, <2>1, <3>1, <4>1, QueueFacts DEF CallsInv, Takes, Yields, Leaving
    <3>3. CASE iterator.next # "user_message"
      <4>1. gen.pc = "ended" /\ controller' = "ended"
        BY <1>1, <1>3, <3>1, <3>3, GeneratorRows, QueueFacts DEF ReceiveFirst, CallsInv, Pcs, Yields, Leaving
      <4> QED BY <1>1, <2>1, <3>1, <4>1, QueueFacts DEF CallsInv, Takes, Yields, Leaving
    <3> QED BY <3>2, <3>3
  <2> QED BY <1>1, <1>3, <2>1, <2>2 DEF ReceiveFirst, Takes, Writes
<1>4. ASSUME Iterate PROVE After
  <2>1. Asks(iterator, iterator', IF client.closed THEN <<"next", "return">> ELSE <<"next">>)
    BY <1>1, <1>4, AskMoves DEF Iterate, Queues
  <2>2. CallsInv(gen, iterator', controller', client.closed)
    BY <1>1, <1>4, <1>i, <2>1, QueueFacts DEF Iterate, CallsInv, Asks, Yields, Leaving
  <2> QED BY <1>1, <1>4, <2>1, <2>2 DEF Iterate, Asks
<1>5. ASSUME Receive PROVE After
  <2>1. Takes(iterator, iterator') /\ Writes(client, client', iterator.next)
    BY <1>1, <1>5, <1>i, TakeMoves, WriteMoves DEF Receive
  <2>2. CallsInv(gen, iterator', controller', client.closed)
    BY <1>1, <1>5, <1>i, <2>1, QueueFacts DEF Receive, CallsInv, Takes, Yields, Leaving
  <2> QED BY <1>1, <1>5, <2>1, <2>2 DEF Receive, Takes, Writes
<1>6. ASSUME Heartbeat PROVE After
  <2>1. iterator.requests = <<"next">>
    BY <1>1, <1>6 DEF Heartbeat, CallsInv
  <2>2. Asks(iterator, iterator', <<"next", "return">>)
    <3>1. iterator' = [iterator EXCEPT !.requests = <<"next", "return">>]
      BY <1>6, <2>1, QueueFacts DEF Heartbeat
    <3> QED BY <1>1, <3>1, AskMoves DEF Queues
  <2>3. CallsInv(gen, iterator', controller', client.closed)
    BY <1>1, <1>6, <1>i, <2>1, <2>2, QueueFacts DEF Heartbeat, CallsInv, Asks, Yields, Leaving
  <2> QED BY <1>1, <1>6, <2>2, <2>3 DEF Heartbeat, Asks
<1>7. ASSUME Left PROVE After
  <2>1. CallsInv(gen, iterator, controller', client.closed)
    BY <1>1, <1>7 DEF Left, CallsInv
  <2> QED BY <1>1, <1>7, <2>1 DEF Left
<1>8. ASSUME ClientCloses PROVE After
  <2>1. client' \in Clients /\ client'.closed
    BY <1>1, <1>8, CloseMoves
  <2>2. CallsInv(gen, iterator, controller, client'.closed)
    BY <1>1, <2>1 DEF CallsInv
  <2> QED BY <1>1, <1>8, <2>1, <2>2 DEF ClientCloses, Rest
<1>9. ASSUME Crash PROVE After
  <2>1. GoesTo(gen, gen', "ended")
    BY <1>1, <1>9, GotoMoves DEF Crash, Pcs
  <2>2. gen' \in Generator /\ LocalsInv(gen')
    BY <1>1, <2>1 DEF GoesTo, Moves, SameTry, SameText, SameFlags, LocalsInv, Empty, Leaving, Announcing, ReplyOnly
  <2>3. CallsInv(gen', iterator, controller', client.closed)
    BY <1>1, <1>9, <2>1 DEF Crash, CallsInv, GoesTo, Moves, Yields, Leaving
  <2> QED BY <1>1, <1>9, <2>2, <2>3 DEF Crash
<1>10. After
  BY <1>3, <1>4, <1>5, <1>6, <1>7, <1>8, <1>9 DEF Control
<1>11. TypeOK'
  BY <1>1, <1>2, <1>10 DEF TypeOK, Iterators, Queues, Results, Clients, Rest, stored
<1> QED BY <1>10, <1>11 DEF FlowInv

\* The locals of the generator mean what its program counter says, and it and the controller
\* wait for each other where they should: the invariant the other theorems rest on.
THEOREM FlowHolds == Spec => []FlowInv
<1>1. Init => FlowInv
  BY FlowStarts
<1>2. FlowInv /\ [Next]_vars => FlowInv'
  <2>1. ASSUME FlowInv, Next PROVE FlowInv'
    BY <2>1, FlowGenerates, FlowControls DEF Next
  <2>2. ASSUME FlowInv, UNCHANGED vars PROVE FlowInv'
    BY <2>2 DEF FlowInv, TypeOK, vars, stored
  <2> QED BY <2>1, <2>2
<1> QED BY <1>1, <1>2, PTL DEF Spec

\* Every variable keeps its type.
THEOREM ChatTypeCorrect == Spec => []TypeOK
<1>1. FlowInv => TypeOK
  BY DEF FlowInv
<1> QED BY <1>1, FlowHolds, PTL

-----------------------------------------------------------------------------
(* The reply in the database.                                              *)

Whole(m) ==
  /\ m.sources = {m.provider}
  /\ m.eligible => m.sawCompletion /\ m.text = "text" /\ m.finish \in {"none", "stop"}

AtMostOne(ms) == ms = <<>> \/ (Len(ms) = 1 /\ Whole(ms[1]))

Answered(ms, p) == ms # <<>> /\ ms[1].provider = p /\ Successful(ms[1])

\* What the points of the generator say of it: where a reply may still be written there is
\* none, and where success is claimed the reply is there.
PointInv(g, ms, f) ==
  /\ g.pc \in Unstored \/ WillAbort(g) => ms = <<>> /\ ~g.persisted
  /\ g.pc = "persistFailure" => (ms = <<>> \/ g.persisted) /\ (g.persisted => f > 0)
  /\ g.pc = "recordReplyFailure" =>
       ~g.persisted /\ (g.exit = "retry" => ms = <<>>) /\ (f = 0 => ms = <<>> /\ Empty(g))
  /\ g.pc \in {"recordSuccess", "promote"} \/ g.completed => Answered(ms, g.attempt)

\* Success is claimed of nobody else.
CreditInv ==
  /\ promoted # 0 => Answered(messages, promoted)
  /\ \A i \in DOMAIN usage : usage[i].outcome = "SUCCEEDED" => Answered(messages, usage[i].provider)

StoreInv == AtMostOne(messages) /\ PointInv(gen, messages, faults) /\ CreditInv

\* A message written where there is none.
Wrote(m) == messages' # <<>> /\ Len(messages') = 1 /\ messages'[1] = m

LEMMA FirstMessage ==
  ASSUME messages = <<>>, NEW m \in Message
  PROVE  /\ Stored(m) => Wrote(m) /\ faults' = faults
         /\ StoreFails(m) => (messages' = <<>> \/ Wrote(m)) /\ faults' = faults + 1
<1>1. messages \in Seq(Message) /\ Len(messages) = 0
  OBVIOUS
<1>2. PICK s : s = Append(messages, m)
  OBVIOUS
<1>3. s # <<>> /\ Len(s) = 1 /\ s[1] = m
  <2>1. s # <<>> /\ Len(s) = Len(messages) + 1 /\ s[Len(messages) + 1] = m
    BY <1>1, <1>2, AppendProperties
  <2> QED BY <1>1, <2>1
<1>4. messages' = s => Wrote(m)
  BY <1>3 DEF Wrote
<1> QED BY <1>2, <1>4 DEF Stored, StoreFails, Fault

LEMMA MessageFields ==
  ASSUME gen \in Generator, LocalsInv(gen), ~Empty(gen)
  PROVE  /\ gen.sawCompletion => Whole(Reply)
         /\ Whole(Partial) /\ Whole(PartialAborted)
         /\ Reply.provider = gen.attempt /\ Successful(Reply)
         /\ ~Successful(Partial) /\ ~Successful(PartialAborted)
<1>1. gen.sources = {gen.attempt}
  BY DEF LocalsInv
<1>2. gen.finish \in {"none", "stop", "length"} /\ gen.text \in {"", "blank", "text"}
  BY DEF Generator, Finishes, Texts
<1>3. Reply.sources = gen.sources /\ Reply.provider = gen.attempt /\ Reply.text = gen.text
      /\ Reply.sawCompletion = gen.sawCompletion /\ Reply.finish = gen.finish
      /\ Reply.eligible = isTitleEligibleReply(gen)
  BY DEF Reply, AssistantMessage
<1>4. Partial.sources = gen.sources /\ Partial.provider = gen.attempt /\ ~Partial.eligible
      /\ Partial.finish = "error"
  BY DEF Partial, AssistantMessage
<1>5. PartialAborted.sources = gen.sources /\ PartialAborted.provider = gen.attempt /\ ~PartialAborted.eligible
      /\ PartialAborted.finish = "aborted"
  BY DEF PartialAborted, AssistantMessage
<1>6. isTitleEligibleReply(gen) => gen.text = "text" /\ gen.finish # "length"
  BY DEF isTitleEligibleReply, isIncompleteGeneration
<1> QED BY <1>1, <1>2, <1>3, <1>4, <1>5, <1>6 DEF Whole, Successful

\* A step that writes no message and claims nothing.
LEMMA CreditStays ==
  ASSUME CreditInv, UNCHANGED promoted, gen.attempt \in Attempts, usage \in Seq(Usage),
         messages = <<>> \/ UNCHANGED messages,
         usage' = usage \/ \E outcome \in {"FAILED", "ABORTED"} : usage' = Append(usage, Row(outcome))
  PROVE  CreditInv'
<1>1. \A p : Answered(messages, p) => Answered(messages', p)
  BY DEF Answered
<1>2. CASE usage' = usage
  BY <1>1, <1>2 DEF CreditInv
<1>3. ASSUME NEW outcome \in {"FAILED", "ABORTED"}, usage' = Append(usage, Row(outcome))
      PROVE  CreditInv'
  <2>1. Row(outcome) \in Usage /\ Row(outcome).outcome = outcome
    BY <1>3 DEF Row, Usage
  <2>2. \A i \in DOMAIN usage' : (i \in DOMAIN usage /\ usage'[i] = usage[i]) \/ usage'[i] = Row(outcome)
    BY <1>3, <2>1
  <2> QED BY <1>1, <1>3, <2>1, <2>2 DEF CreditInv
<1> QED BY <1>2, <1>3

LEMMA CreditGoes ==
  ASSUME CreditInv, UNCHANGED messages, usage \in Seq(Usage), gen.attempt \in Attempts,
         Answered(messages, gen.attempt),
         usage' = usage \/ usage' = Append(usage, Row("SUCCEEDED")), promoted' = promoted \/ promoted' = gen.attempt
  PROVE  CreditInv'
<1>1. Row("SUCCEEDED") \in Usage /\ Row("SUCCEEDED").provider = gen.attempt
  BY DEF Row, Usage
<1>2. \A i \in DOMAIN usage' : (i \in DOMAIN usage /\ usage'[i] = usage[i]) \/ usage'[i] = Row("SUCCEEDED")
  BY <1>1
<1> QED BY <1>1, <1>2 DEF CreditInv

LEMMA StoreGenerates ==
  ASSUME FlowInv, StoreInv, Generate \/ Chunk
  PROVE  AtMostOne(messages') /\ PointInv(gen', messages', faults') /\ CreditInv'
<1>a. gen \in Generator /\ LocalsInv(gen) /\ gen.attempt \in Attempts /\ usage \in Seq(Usage) /\ messages \in Seq(Message)
      /\ faults \in Nat
  BY TypeRows, GeneratorRows, FaultsAssumption DEF FlowInv, Rest
<1>b. AtMostOne(messages) /\ PointInv(gen, messages, faults) /\ CreditInv
  BY DEF StoreInv
<1>c. Reply \in Message /\ Partial \in Message /\ PartialAborted \in Message
  BY <1>a, ReplyType
<1> DEFINE After == AtMostOne(messages') /\ PointInv(gen', messages', faults') /\ CreditInv'
<1>d. ASSUME NEW outcome \in {"FAILED", "ABORTED"}, RecordUsage(outcome), UNCHANGED <<messages, promoted>>,
             PointInv(gen', messages, faults')
      PROVE  After
  <2>1. usage' = usage \/ usage' = Append(usage, Row(outcome))
    BY <1>d, RecordMoves
  <2> QED BY <1>a, <1>b, <1>d, <2>1, CreditStays
<1>e. ASSUME UNCHANGED stored, PointInv(gen', messages, faults)
      PROVE  After
  <2>1. CreditInv'
    BY <1>b, <1>e DEF CreditInv, stored
  <2> QED BY <1>b, <1>e, <2>1 DEF stored
<1>f. ASSUME NEW m \in Message, Whole(m), messages = <<>>, Stored(m) \/ StoreFails(m), UNCHANGED <<usage, promoted>>
      PROVE  AtMostOne(messages') /\ CreditInv'
  <2>1. messages' = <<>> \/ Wrote(m)
    BY <1>f, FirstMessage
  <2>2. CreditInv'
    BY <1>a, <1>b, <1>f, CreditStays
  <2> QED BY <1>f, <2>1, <2>2 DEF AtMostOne, Wrote
<1> USE DEF Moves, GoesTo, Leaves, SameTry, SameFlags, SameText, Empty, isEmpty, PointInv, Unstored, WillAbort
<1>1. ASSUME Prepare PROVE After
  BY <1>1, <1>a, <1>b, <1>e, PrepareMoves DEF Prepare, LocalsInv
<1>2. ASSUME Read PROVE After
  BY <1>2, <1>a, <1>b, <1>e, ReadMoves DEF Read, LocalsInv
<1>3. ASSUME Chunk PROVE After
  BY <1>3, <1>a, <1>b, <1>e, ChunkMoves DEF Chunk, LocalsInv
<1>4. ASSUME StreamEnds PROVE After
  BY <1>4, <1>a, <1>b, <1>e, StreamEndsMoves DEF StreamEnds, LocalsInv
<1>5. ASSUME Fallback PROVE After
  BY <1>5, <1>a, <1>b, <1>e, FallbackMoves DEF Fallback, LocalsInv
<1>6. ASSUME RecordFallback PROVE After
  <2>1. messages = <<>> /\ ~gen.persisted /\ ~gen.completed
    <3>1. gen.pc = "recordFallback"
      BY <1>6 DEF RecordFallback
    <3> QED BY <1>a, <1>b, <3>1 DEF LocalsInv, Announcing
  <2>2. gen'.pc = "yieldRetrying" /\ ~gen'.persisted /\ ~gen'.completed
    BY <1>6, <1>a, <2>1, RecordFallbackMoves
  <2>3. PointInv(gen', messages, faults')
    BY <2>1, <2>2
  <2> QED BY <1>6, <1>d, <2>3 DEF RecordFallback
<1>10. ASSUME AfterMessage PROVE After
  BY <1>10, <1>a, <1>b, <1>e, AfterMessageMoves DEF AfterMessage, LocalsInv
<1>11. ASSUME AfterSwitched PROVE After
  BY <1>11, <1>a, <1>b, <1>e, AfterSwitchedMoves DEF AfterSwitched, LocalsInv
<1>12. ASSUME AfterDone PROVE After
  BY <1>12, <1>a, <1>b, <1>e, LeaveMoves DEF AfterDone, LocalsInv, Announcing, ReplyOnly
<1>14. ASSUME AfterPartial PROVE After
  BY <1>14, <1>a, <1>b, <1>e, AfterPartialMoves DEF AfterPartial, LocalsInv
<1>15. ASSUME RecordFailure PROVE After
  BY <1>15, <1>a, <1>b, <1>d, LeaveMoves DEF RecordFailure, LocalsInv
<1>16. ASSUME Return PROVE After
  BY <1>16, <1>a, <1>b, <1>e, ReturnMoves DEF Return, LocalsInv, Yields, Announcing, ReplyOnly
<1>17. ASSUME Finally PROVE After
  BY <1>17, <1>a, <1>b, <1>e, FinallyMoves DEF Finally, LocalsInv
<1>19. ASSUME RecordAbort PROVE After
  BY <1>19, <1>a, <1>b, <1>d, RecordAbortMoves DEF RecordAbort, LocalsInv
<1>20. ASSUME Complete PROVE After
  BY <1>20, <1>a, <1>b, <1>e, CompleteMoves DEF Complete, LocalsInv
<1>22. ASSUME RecordReplyFailure PROVE After
  <2>1. ~gen.persisted /\ ~gen.completed /\ (gen.exit = "retry" => messages = <<>>)
    BY <1>22, <1>a, <1>b DEF RecordReplyFailure, LocalsInv, Announcing
  <2>2. /\ ~gen'.persisted /\ ~gen'.completed
        /\ gen'.pc = "ended" \/ (gen'.pc = "replyFallback" /\ messages = <<>>)
    BY <1>22, <1>a, <2>1, RecordReplyFailureMoves
  <2>3. PointInv(gen', messages, faults')
    BY <2>2
  <2> QED BY <1>22, <1>d, <2>3 DEF RecordReplyFailure
<1>23. ASSUME ReplyFallback PROVE After
  <2>1. ~gen.persisted /\ ~gen.completed /\ messages = <<>>
    BY <1>23, <1>a, <1>b DEF ReplyFallback, LocalsInv, Announcing
  <2>2. ~gen'.persisted /\ ~gen'.completed /\ gen'.pc \in {"complete", "ended"}
    BY <1>23, <1>a, <2>1, ReplyFallbackMoves
  <2>3. PointInv(gen', messages, faults)
    BY <2>1, <2>2
  <2> QED BY <1>23, <1>e, <2>3 DEF ReplyFallback
<1>7. ASSUME PersistSuccess PROVE After
  <2>1. messages = <<>> /\ ~Empty(gen) /\ gen.sawCompletion /\ ~gen.completed /\ ~gen.failed
    BY <1>7, <1>a, <1>b DEF PersistSuccess, LocalsInv, Announcing
  <2>2. Whole(Reply) /\ Reply.provider = gen.attempt /\ Successful(Reply)
    BY <1>a, <2>1, MessageFields
  <2>3. AtMostOne(messages') /\ CreditInv'
    BY <1>7, <1>c, <1>f, <2>1, <2>2 DEF PersistSuccess
  <2>4. \/ Wrote(Reply) /\ Moves(gen, gen', "recordSuccess")
        \/ Moves(gen, gen', "persistFailure") /\ ~gen'.completed /\ faults' = faults + 1
    BY <1>7, <1>a, <1>c, <2>1, PersistSuccessMoves, FirstMessage
  <2>5. SameTry(gen, gen') /\ gen'.persisted
    BY <1>7, <1>a, PersistSuccessMoves
  <2>6. CASE Wrote(Reply) /\ Moves(gen, gen', "recordSuccess")
    <3>1. Answered(messages', gen'.attempt) /\ gen'.pc = "recordSuccess"
      BY <2>2, <2>5, <2>6 DEF Wrote, Answered
    <3>2. PointInv(gen', messages', faults')
      BY <3>1
    <3> QED BY <2>3, <3>2
  <2>7. CASE gen'.pc = "persistFailure" /\ ~gen'.completed /\ faults' = faults + 1
    <3>1. PointInv(gen', messages', faults')
      BY <1>a, <2>5, <2>7
    <3> QED BY <2>3, <3>1
  <2> QED BY <2>4, <2>6, <2>7
<1>21. ASSUME PersistReply PROVE After
  <2>1. messages = <<>> /\ ~Empty(gen) /\ gen.sawCompletion /\ ~gen.completed
    BY <1>21, <1>a, <1>b DEF PersistReply, LocalsInv, Announcing
  <2>2. Whole(Reply) /\ Reply.provider = gen.attempt /\ Successful(Reply)
    BY <1>a, <2>1, MessageFields
  <2>3. AtMostOne(messages') /\ CreditInv'
    BY <1>21, <1>c, <1>f, <2>1, <2>2 DEF PersistReply
  <2>4. \/ Wrote(Reply) /\ Moves(gen, gen', "recordSuccess")
        \/ Moves(gen, gen', "recordReplyFailure") /\ gen'.exit = "error" /\ faults' = faults + 1
    BY <1>21, <1>a, <1>c, <2>1, PersistReplyMoves, FirstMessage
  <2>5. SameTry(gen, gen') /\ SameFlags(gen, gen')
    BY <1>21, <1>a, PersistReplyMoves
  <2>6. CASE Wrote(Reply) /\ Moves(gen, gen', "recordSuccess")
    <3>1. Answered(messages', gen'.attempt) /\ gen'.pc = "recordSuccess"
      BY <2>2, <2>5, <2>6 DEF Wrote, Answered
    <3>2. PointInv(gen', messages', faults')
      BY <3>1
    <3> QED BY <2>3, <3>2
  <2>7. CASE gen'.pc = "recordReplyFailure" /\ gen'.exit = "error" /\ faults' = faults + 1
    <3>1. ~gen'.completed /\ ~gen'.persisted
      BY <1>21, <1>b, <2>1, <2>5 DEF PersistReply
    <3>2. faults' # 0
      BY <1>a, <2>7
    <3>3. PointInv(gen', messages', faults')
      BY <2>7, <3>1, <3>2
    <3> QED BY <2>3, <3>3
  <2> QED BY <2>4, <2>6, <2>7
<1>8. ASSUME RecordSuccess PROVE After
  <2>1. Answered(messages, gen.attempt) /\ UNCHANGED <<messages, promoted>>
    BY <1>8, <1>b DEF RecordSuccess
  <2>2. usage' = usage \/ usage' = Append(usage, Row("SUCCEEDED"))
    BY <1>8, RecordMoves DEF RecordSuccess
  <2>3. CreditInv'
    BY <1>a, <1>b, <2>1, <2>2, CreditGoes
  <2>4. PointInv(gen', messages, faults')
    BY <1>8, <1>a, <1>b, <2>1, RecordSuccessMoves DEF RecordSuccess, LocalsInv
  <2> QED BY <1>b, <2>1, <2>3, <2>4
<1>9. ASSUME Promote PROVE After
  <2>1. Answered(messages, gen.attempt) /\ UNCHANGED <<messages, usage, faults>> /\ promoted' = gen.attempt
    BY <1>9, <1>b DEF Promote
  <2>3. CreditInv'
    BY <1>a, <1>b, <2>1, CreditGoes
  <2>4. PointInv(gen', messages, faults')
    BY <1>9, <1>a, <1>b, <2>1, AnnounceMoves DEF Promote, LocalsInv
  <2> QED BY <1>b, <2>1, <2>3, <2>4
<1>13. ASSUME PersistFailure PROVE After
  <2>1. CASE gen.persisted \/ isEmpty
    <3>1. UNCHANGED stored
      BY <1>13, <2>1 DEF PersistFailure, stored
    <3> QED BY <1>13, <1>a, <1>b, <1>e, <2>1, <3>1, PersistFailureMoves DEF PersistFailure, LocalsInv
  <2>2. CASE ~gen.persisted /\ ~isEmpty
    <3>1. messages = <<>> /\ ~Empty(gen) /\ ~gen.completed
      BY <1>13, <1>a, <1>b, <2>2 DEF PersistFailure, LocalsInv, Announcing
    <3>2. Whole(Partial)
      BY <1>a, <3>1, MessageFields
    <3>3. AtMostOne(messages') /\ CreditInv'
      BY <1>13, <1>c, <1>f, <2>2, <3>1, <3>2 DEF PersistFailure, Partial
    <3> QED BY <1>13, <1>a, <2>2, <3>1, <3>3, PersistFailureMoves
  <2> QED BY <2>1, <2>2
<1>18. ASSUME PersistAbort PROVE After
  <2>1. CASE gen.persisted \/ isEmpty
    <3>1. UNCHANGED stored
      BY <1>18, <2>1 DEF PersistAbort, stored
    <3> QED BY <1>18, <1>a, <1>b, <1>e, <2>1, <3>1, PersistAbortMoves DEF PersistAbort, LocalsInv
  <2>2. CASE ~gen.persisted /\ ~isEmpty
    <3>1. messages = <<>> /\ ~Empty(gen) /\ ~gen.completed
      BY <1>18, <1>a, <1>b, <2>2 DEF PersistAbort, LocalsInv, Announcing
    <3>2. Whole(PartialAborted)
      BY <1>a, <3>1, MessageFields
    <3>3. AtMostOne(messages') /\ CreditInv'
      BY <1>18, <1>c, <1>f, <2>2, <3>1, <3>2 DEF PersistAbort, PartialAborted
    <3> QED BY <1>18, <1>a, <2>2, <3>1, <3>3, PersistAbortMoves
  <2> QED BY <2>1, <2>2
<1> QED
  BY <1>1, <1>2, <1>3, <1>4, <1>5, <1>6, <1>7, <1>8, <1>9, <1>10, <1>11, <1>12, <1>13, <1>14, <1>15,
     <1>16, <1>17, <1>18, <1>19, <1>20, <1>21, <1>22, <1>23 DEF Generate

\* What the controller, the client and a crash change is not in the invariant of the store.
LEMMA ControlKeeps ==
  ASSUME gen \in Generator, Control \/ ClientCloses \/ Crash
  PROVE  /\ UNCHANGED stored
         /\ gen' = gen \/ (GoesTo(gen, gen', "ended") /\ controller' = "crashed")
<1>1. "ended" \in Pcs
  BY DEF Pcs
<1> QED BY <1>1, GotoMoves DEF Control, ReceiveFirst, Iterate, Receive, Heartbeat, Left, ClientCloses, Crash

LEMMA StoreControls ==
  ASSUME FlowInv, StoreInv, Control \/ ClientCloses \/ Crash
  PROVE  StoreInv'
<1>1. gen \in Generator
  BY TypeRows DEF FlowInv
<1>2. UNCHANGED stored /\ (gen' = gen \/ GoesTo(gen, gen', "ended"))
  BY <1>1, ControlKeeps
<1>3. PointInv(gen', messages, faults)
  <2>1. CASE gen' = gen
    BY <2>1 DEF StoreInv
  <2>2. CASE GoesTo(gen, gen', "ended")
    BY <2>2 DEF StoreInv, PointInv, GoesTo, Moves, SameTry, SameFlags, Unstored, WillAbort
  <2> QED BY <1>2, <2>1, <2>2
<1> QED BY <1>2, <1>3 DEF StoreInv, CreditInv, stored

LEMMA StoreHolds == Spec => []StoreInv
<1>1. Init => StoreInv
  <2>1. ASSUME Init PROVE StoreInv
    <3>1. PICK streaming \in BOOLEAN : gen = Fresh(streaming)
      BY <2>1 DEF Init
    <3>2. gen.pc = "prepare" /\ ~gen.persisted /\ ~gen.completed
      BY <3>1 DEF Fresh
    <3>3. messages = <<>> /\ promoted = 0 /\ usage = <<>> /\ DOMAIN usage = {}
      BY <2>1 DEF Init
    <3> QED BY <3>2, <3>3 DEF StoreInv, AtMostOne, PointInv, CreditInv
  <2> QED BY <2>1
<1>2. FlowInv /\ StoreInv /\ [Next]_vars => StoreInv'
  <2>1. ASSUME FlowInv, StoreInv, Generate \/ Chunk PROVE StoreInv'
    BY <2>1, StoreGenerates DEF StoreInv
  <2>2. ASSUME FlowInv, StoreInv, UNCHANGED vars PROVE StoreInv'
    BY <2>2 DEF StoreInv, CreditInv, vars
  <2> QED BY <2>1, <2>2, StoreControls DEF Next
<1> QED BY <1>1, <1>2, FlowHolds, PTL DEF Spec

\* The reply that is stored, promoted and titled is the whole answer of its provider, for
\* any number of providers and of failing statements: a fallback only starts where nothing
\* was said, and what is said of a reply is said where it is stored.
THEOREM ReplyIsOfItsProviderHolds == Spec => []ReplyIsOfItsProvider
<1>1. FlowInv /\ StoreInv => ReplyIsOfItsProvider
  <2> SUFFICES ASSUME FlowInv, StoreInv PROVE ReplyIsOfItsProvider
    OBVIOUS
  <2>1. messages \in Seq(Message) /\ AtMostOne(messages) /\ CreditInv
    BY TypeRows DEF FlowInv, Rest, StoreInv
  <2>2. Len(messages) <= 1 /\ \A i \in DOMAIN messages : i = 1 /\ Whole(messages[1])
    <3>1. CASE messages = <<>>
      BY <3>1
    <3>2. CASE Len(messages) = 1 /\ Whole(messages[1])
      BY <2>1, <3>2
    <3> QED BY <2>1, <3>1, <3>2 DEF AtMostOne
  <2>3. OneAnswerOfOneProvider
    BY <2>2 DEF OneAnswerOfOneProvider, Whole
  <2>4. EligibleIsWhole
    BY <2>2 DEF EligibleIsWhole, Whole
  <2>5. \A p \in Attempts : Answered(messages, p) =>
          \E i \in DOMAIN messages : messages[i].provider = p /\ Successful(messages[i])
    <3>1. messages # <<>> => 1 \in DOMAIN messages
      BY <2>1
    <3> QED BY <3>1 DEF Answered
  <2>6. SuccessHasAnswer
    <3> SUFFICES ASSUME NEW p \in Attempts,
                        promoted = p \/ \E i \in DOMAIN usage : usage[i] = [provider |-> p, outcome |-> "SUCCEEDED"]
                 PROVE  Answered(messages, p)
      BY <2>5 DEF SuccessHasAnswer
    <3>1. p # 0
      BY DEF Attempts
    <3> QED BY <2>1, <3>1 DEF CreditInv
  <2> QED BY <2>3, <2>4, <2>6 DEF ReplyIsOfItsProvider
<1> QED BY <1>1, FlowHolds, StoreHolds, PTL

-----------------------------------------------------------------------------
(* The measurements.                                                       *)

MeasuredIn(rows) == {rows[i].provider : i \in DOMAIN rows}

\* Where the provider is not measured yet.
Unmeasured(g) == g.pc \in Unattempted \cup Asked \/ WillAbort(g)

\* Only earlier providers are measured, and this one where its attempt is over.
UsageInv ==
  /\ UsageOnce
  /\ \A p \in MeasuredIn(usage) : p <= gen.attempt /\ (Unmeasured(gen) => p # gen.attempt)

\* Without faults and with a client that stays, the measured providers are those that were
\* asked, but for the one being asked.
AskedInv ==
  faults = 0 /\ ~client.closed /\ controller # "crashed" =>
    /\ gen.pc \notin {"persistAbort", "recordAbort"} /\ ~WillAbort(gen)
    /\ gen.asked = IF gen.pc \in Asked THEN MeasuredIn(usage) \cup {gen.attempt} ELSE MeasuredIn(usage)

\* A row for a provider that has none.
LEMMA RowAdded ==
  ASSUME usage \in Seq(Usage), gen.attempt \in Attempts,
         NEW outcome \in {"SUCCEEDED", "FAILED", "ABORTED"}, usage' = Append(usage, Row(outcome))
  PROVE  /\ MeasuredIn(usage') = MeasuredIn(usage) \cup {gen.attempt}
         /\ UsageOnce /\ gen.attempt \notin MeasuredIn(usage) => UsageOnce'
<1>1. Row(outcome) \in Usage /\ Row(outcome).provider = gen.attempt
  BY DEF Row, Usage
<1>2. /\ DOMAIN usage = 1..Len(usage) /\ DOMAIN usage' = 1..(Len(usage) + 1) /\ Len(usage) \in Nat
      /\ \A i \in 1..Len(usage) : usage'[i] = usage[i]
      /\ usage'[Len(usage) + 1] = Row(outcome)
  BY <1>1, AppendProperties
<1>3. MeasuredIn(usage') = MeasuredIn(usage) \cup {gen.attempt}
  BY <1>1, <1>2 DEF MeasuredIn
<1>4. ASSUME UsageOnce, gen.attempt \notin MeasuredIn(usage)
      PROVE  UsageOnce'
  <2> SUFFICES ASSUME NEW i \in DOMAIN usage', NEW j \in DOMAIN usage', usage'[i].provider = usage'[j].provider
               PROVE  i = j
    BY DEF UsageOnce
  <2>1. \A k \in 1..Len(usage) : usage[k].provider # gen.attempt
    BY <1>2, <1>4 DEF MeasuredIn
  <2> QED BY <1>1, <1>2, <1>4, <2>1 DEF UsageOnce
<1> QED BY <1>3, <1>4

LEMMA UsageMoves ==
  ASSUME UsageInv, usage \in Seq(Usage), gen.attempt \in Attempts, gen'.attempt \in Attempts,
         \/ usage' = usage
         \/ /\ Unmeasured(gen)
            /\ \E outcome \in {"SUCCEEDED", "FAILED", "ABORTED"} : usage' = Append(usage, Row(outcome)),
         \/ gen'.attempt > gen.attempt
         \/ gen'.attempt = gen.attempt /\ (Unmeasured(gen') => Unmeasured(gen) /\ usage' = usage)
  PROVE  UsageInv'
<1>1. \A p \in MeasuredIn(usage) : p \in Nat
  <2>1. \A i \in DOMAIN usage : usage[i] \in Usage
    OBVIOUS
  <2>2. \A row \in Usage : row.provider \in Attempts
    BY DEF Usage
  <2> QED BY <2>1, <2>2 DEF MeasuredIn, Attempts
<1>2. gen.attempt \in Nat /\ gen'.attempt \in Nat
  BY DEF Attempts
<1>u. \A p \in MeasuredIn(usage) : p <= gen.attempt /\ (Unmeasured(gen) => p # gen.attempt)
  BY DEF UsageInv
<1>3. CASE usage' = usage
  <2>1. UsageOnce'
    BY <1>3 DEF UsageInv, UsageOnce
  <2>2. \A p \in MeasuredIn(usage) : p <= gen'.attempt /\ (Unmeasured(gen') => p # gen'.attempt)
    <3> SUFFICES ASSUME NEW p \in MeasuredIn(usage)
                 PROVE  p <= gen'.attempt /\ (Unmeasured(gen') => p # gen'.attempt)
      OBVIOUS
    <3>1. p \in Nat /\ p <= gen.attempt /\ (Unmeasured(gen) => p # gen.attempt)
      BY <1>1, <1>u
    <3> QED BY <1>2, <3>1
  <2> QED BY <1>3, <2>1, <2>2 DEF UsageInv
<1>4. ASSUME Unmeasured(gen), NEW outcome \in {"SUCCEEDED", "FAILED", "ABORTED"}, usage' = Append(usage, Row(outcome)),
             usage' # usage
      PROVE  UsageInv'
  <2>1. gen.attempt \notin MeasuredIn(usage) /\ UsageOnce
    BY <1>4 DEF UsageInv
  <2>2. UsageOnce' /\ MeasuredIn(usage') = MeasuredIn(usage) \cup {gen.attempt}
    BY <1>4, <2>1, RowAdded
  <2>3. \A p \in MeasuredIn(usage') : p <= gen'.attempt /\ (Unmeasured(gen') => p # gen'.attempt)
    <3> SUFFICES ASSUME NEW p \in MeasuredIn(usage')
                 PROVE  p <= gen'.attempt /\ (Unmeasured(gen') => p # gen'.attempt)
      OBVIOUS
    <3>1. p = gen.attempt \/ (p \in Nat /\ p <= gen.attempt /\ p # gen.attempt)
      BY <1>1, <1>4, <1>u, <2>2
    <3> QED BY <1>2, <1>4, <3>1
  <2> QED BY <2>2, <2>3 DEF UsageInv
<1> QED BY <1>3, <1>4

LEMMA UsageGenerates ==
  ASSUME FlowInv, UsageInv, Generate \/ Chunk
  PROVE  UsageInv'
<1>a. gen \in Generator /\ gen' \in Generator /\ LocalsInv(gen) /\ usage \in Seq(Usage)
  BY TypeRows, GenerateLocals DEF FlowInv, Rest
<1>b. gen.attempt \in Attempts /\ gen'.attempt \in Attempts
  BY <1>a, GeneratorRows
<1>c. ASSUME UNCHANGED usage,
             \/ gen'.attempt > gen.attempt
             \/ gen'.attempt = gen.attempt /\ (Unmeasured(gen') => Unmeasured(gen))
      PROVE  UsageInv'
  BY <1>a, <1>b, <1>c, UsageMoves
<1>d. ASSUME NEW outcome \in {"SUCCEEDED", "FAILED", "ABORTED"}, RecordUsage(outcome), Unmeasured(gen),
             \/ gen'.attempt > gen.attempt
             \/ gen'.attempt = gen.attempt /\ ~Unmeasured(gen')
      PROVE  UsageInv'
  BY <1>a, <1>b, <1>d, UsageMoves, RecordMoves
<1> USE <1>a DEF Moves, GoesTo, Leaves, SameTry, SameFlags, Unmeasured, Unattempted, Asked, WillAbort
<1>1. ASSUME Prepare PROVE UsageInv'
  BY <1>1, <1>c, PrepareMoves DEF Prepare, LocalsInv, Announcing, ReplyOnly, Yields, stored
<1>2. ASSUME Read PROVE UsageInv'
  BY <1>2, <1>c, ReadMoves DEF Read, LocalsInv, Announcing, ReplyOnly, Yields, stored
<1>3. ASSUME Chunk PROVE UsageInv'
  BY <1>3, <1>c, ChunkMoves DEF Chunk, LocalsInv, Announcing, ReplyOnly, Yields, stored
<1>4. ASSUME StreamEnds PROVE UsageInv'
  BY <1>4, <1>c, StreamEndsMoves DEF StreamEnds, LocalsInv, Announcing, ReplyOnly, Yields, stored
<1>5. ASSUME Fallback PROVE UsageInv'
  BY <1>5, <1>c, FallbackMoves DEF Fallback, LocalsInv, Announcing, ReplyOnly, Yields, stored
<1>6. ASSUME RecordFallback PROVE UsageInv'
  <2>1. RecordUsage("FAILED") /\ Unmeasured(gen)
    BY <1>6 DEF RecordFallback
  <2> QED BY <1>6, <1>d, <2>1, RecordFallbackMoves DEF RecordFallback, LocalsInv, Announcing, ReplyOnly, Yields
<1>7. ASSUME PersistSuccess PROVE UsageInv'
  BY <1>7, <1>c, PersistSuccessMoves DEF PersistSuccess, LocalsInv, Announcing, ReplyOnly, Yields
<1>8. ASSUME RecordSuccess PROVE UsageInv'
  <2>1. RecordUsage("SUCCEEDED") /\ Unmeasured(gen)
    BY <1>8 DEF RecordSuccess
  <2> QED BY <1>8, <1>d, <2>1, RecordSuccessMoves DEF RecordSuccess, LocalsInv, Announcing, ReplyOnly, Yields
<1>9. ASSUME Promote PROVE UsageInv'
  BY <1>9, <1>c, AnnounceMoves DEF Promote, LocalsInv, Announcing, ReplyOnly, Yields
<1>10. ASSUME AfterMessage PROVE UsageInv'
  BY <1>10, <1>c, AfterMessageMoves DEF AfterMessage, LocalsInv, Announcing, ReplyOnly, Yields, stored
<1>11. ASSUME AfterSwitched PROVE UsageInv'
  BY <1>11, <1>c, AfterSwitchedMoves DEF AfterSwitched, LocalsInv, Announcing, ReplyOnly, Yields, stored
<1>12. ASSUME AfterDone PROVE UsageInv'
  BY <1>12, <1>c, LeaveMoves DEF AfterDone, LocalsInv, Announcing, ReplyOnly, Yields, stored
<1>13. ASSUME PersistFailure PROVE UsageInv'
  BY <1>13, <1>c, PersistFailureMoves DEF PersistFailure, LocalsInv, Announcing, ReplyOnly, Yields
<1>14. ASSUME AfterPartial PROVE UsageInv'
  BY <1>14, <1>c, AfterPartialMoves DEF AfterPartial, LocalsInv, Announcing, ReplyOnly, Yields, stored
<1>15. ASSUME RecordFailure PROVE UsageInv'
  <2>1. RecordUsage("FAILED") /\ Unmeasured(gen)
    BY <1>15 DEF RecordFailure
  <2> QED BY <1>15, <1>d, <2>1, LeaveMoves DEF RecordFailure, LocalsInv, Announcing, ReplyOnly, Yields
<1>16. ASSUME Return PROVE UsageInv'
  BY <1>16, <1>c, ReturnMoves DEF Return, LocalsInv, Announcing, ReplyOnly, Yields, stored
<1>17. ASSUME Finally PROVE UsageInv'
  BY <1>17, <1>c, FinallyMoves DEF Finally, LocalsInv, Announcing, ReplyOnly, Yields, stored
<1>18. ASSUME PersistAbort PROVE UsageInv'
  BY <1>18, <1>c, PersistAbortMoves DEF PersistAbort, LocalsInv, Announcing, ReplyOnly, Yields
<1>19. ASSUME RecordAbort PROVE UsageInv'
  <2>1. RecordUsage("ABORTED") /\ Unmeasured(gen)
    BY <1>19 DEF RecordAbort
  <2> QED BY <1>19, <1>d, <2>1, RecordAbortMoves DEF RecordAbort, LocalsInv, Announcing, ReplyOnly, Yields
<1>20. ASSUME Complete PROVE UsageInv'
  BY <1>20, <1>c, CompleteMoves DEF Complete, LocalsInv, Announcing, ReplyOnly, Yields, stored
<1>21. ASSUME PersistReply PROVE UsageInv'
  BY <1>21, <1>c, PersistReplyMoves DEF PersistReply, LocalsInv, Announcing, ReplyOnly, Yields
<1>22. ASSUME RecordReplyFailure PROVE UsageInv'
  <2>1. RecordUsage("FAILED") /\ Unmeasured(gen)
    BY <1>22 DEF RecordReplyFailure
  <2> QED BY <1>22, <1>d, <2>1, RecordReplyFailureMoves DEF RecordReplyFailure, LocalsInv, Announcing, ReplyOnly, Yields
<1>23. ASSUME ReplyFallback PROVE UsageInv'
  BY <1>23, <1>c, ReplyFallbackMoves DEF ReplyFallback, LocalsInv, Announcing, ReplyOnly, Yields, stored
<1> QED
  BY <1>1, <1>2, <1>3, <1>4, <1>5, <1>6, <1>7, <1>8, <1>9, <1>10, <1>11, <1>12,
     <1>13, <1>14, <1>15, <1>16, <1>17, <1>18, <1>19, <1>20, <1>21, <1>22, <1>23 DEF Generate

LEMMA AskedGenerates ==
  ASSUME FlowInv, AskedInv, Generate \/ Chunk
  PROVE  AskedInv'
<1>0. client' = client /\ controller' = controller /\ Faults
  BY GenerateWrites
<1>1. SUFFICES ASSUME faults' = 0, ~client.closed, controller # "crashed"
               PROVE  /\ gen'.pc \notin {"persistAbort", "recordAbort"} /\ ~WillAbort(gen')
                      /\ gen'.asked = IF gen'.pc \in Asked THEN MeasuredIn(usage') \cup {gen'.attempt}
                                      ELSE MeasuredIn(usage')
  BY <1>0 DEF AskedInv
<1>2. gen \in Generator /\ LocalsInv(gen) /\ usage \in Seq(Usage) /\ faults \in Nat /\ iterator \in Iterators
      /\ CallsInv(gen, iterator, controller, client.closed)
  BY TypeRows, FaultsAssumption DEF FlowInv, Rest
<1>3. faults = 0
  BY <1>0, <1>1, <1>2 DEF Faults
<1>4. /\ gen.pc \notin {"persistAbort", "recordAbort"} /\ ~WillAbort(gen)
      /\ gen.asked = IF gen.pc \in Asked THEN MeasuredIn(usage) \cup {gen.attempt} ELSE MeasuredIn(usage)
  BY <1>1, <1>3 DEF AskedInv
<1>5. ~Requested("return")
  BY <1>1, <1>2, NextIsRequested DEF CallsInv
<1>6. ASSUME NEW outcome \in {"SUCCEEDED", "FAILED", "ABORTED"}, RecordUsage(outcome)
      PROVE  MeasuredIn(usage') = MeasuredIn(usage) \cup {gen.attempt}
  <2>1. usage' = Append(usage, Row(outcome))
    BY <1>1, <1>2, <1>6 DEF RecordUsage, Fault, Row
  <2> QED BY <1>2, <2>1, RowAdded, GeneratorRows
<1>7. ASSUME NEW m, StoreFails(m) PROVE FALSE
  BY <1>1, <1>2, <1>7 DEF StoreFails, Fault
<1> DEFINE After ==
      /\ gen'.pc \notin {"persistAbort", "recordAbort"} /\ ~WillAbort(gen')
      /\ gen'.asked = IF gen'.pc \in Asked THEN MeasuredIn(usage') \cup {gen'.attempt} ELSE MeasuredIn(usage')
<1> USE <1>2, <1>4 DEF Moves, GoesTo, Leaves, SameTry, SameFlags, Asked, WillAbort
<1>8. ASSUME Prepare PROVE After
  <2>1. usage' = usage
    BY <1>8 DEF Prepare, stored
  <2> QED BY <1>8, <2>1, PrepareMoves DEF Prepare, LocalsInv, Announcing, ReplyOnly, Yields
<1>9. ASSUME Read PROVE After
  <2>1. usage' = usage
    BY <1>9 DEF Read, stored
  <2> QED BY <1>9, <2>1, ReadMoves DEF Read, LocalsInv, Announcing, ReplyOnly, Yields
<1>10. ASSUME Chunk PROVE After
  <2>1. usage' = usage
    BY <1>10 DEF Chunk, stored
  <2> QED BY <1>10, <2>1, ChunkMoves DEF Chunk, LocalsInv, Announcing, ReplyOnly, Yields
<1>11. ASSUME StreamEnds PROVE After
  <2>1. usage' = usage
    BY <1>11 DEF StreamEnds, stored
  <2> QED BY <1>11, <2>1, StreamEndsMoves DEF StreamEnds, LocalsInv, Announcing, ReplyOnly, Yields
<1>12. ASSUME Fallback PROVE After
  <2>1. usage' = usage
    BY <1>12 DEF Fallback, stored
  <2> QED BY <1>12, <2>1, FallbackMoves DEF Fallback, LocalsInv, Announcing, ReplyOnly, Yields
<1>13. ASSUME RecordFallback PROVE After
  <2>1. gen.pc = "recordFallback" /\ MeasuredIn(usage') = MeasuredIn(usage) \cup {gen.attempt}
    BY <1>13, <1>6 DEF RecordFallback
  <2> QED BY <1>13, <2>1, RecordFallbackMoves DEF LocalsInv
<1>14. ASSUME PersistSuccess PROVE After
  BY <1>14, <1>7, PersistSuccessMoves DEF PersistSuccess
<1>15. ASSUME RecordSuccess PROVE After
  <2>1. gen.pc = "recordSuccess" /\ MeasuredIn(usage') = MeasuredIn(usage) \cup {gen.attempt}
    BY <1>15, <1>6 DEF RecordSuccess
  <2> QED BY <1>15, <2>1, RecordSuccessMoves DEF LocalsInv
<1>16. ASSUME Promote PROVE After
  <2>1. usage' = usage
    BY <1>16 DEF Promote
  <2> QED BY <1>16, <2>1, AnnounceMoves DEF Promote, LocalsInv, Announcing, ReplyOnly, Yields
<1>17. ASSUME AfterMessage PROVE After
  <2>1. usage' = usage
    BY <1>17 DEF AfterMessage, stored
  <2> QED BY <1>17, <2>1, AfterMessageMoves DEF AfterMessage, LocalsInv, Announcing, ReplyOnly, Yields
<1>18. ASSUME AfterSwitched PROVE After
  <2>1. usage' = usage
    BY <1>18 DEF AfterSwitched, stored
  <2> QED BY <1>18, <2>1, AfterSwitchedMoves DEF AfterSwitched, LocalsInv, Announcing, ReplyOnly, Yields
<1>19. ASSUME AfterDone PROVE After
  <2>1. usage' = usage
    BY <1>19 DEF AfterDone, stored
  <2> QED BY <1>19, <2>1, LeaveMoves DEF AfterDone, LocalsInv, Announcing, ReplyOnly, Yields
<1>20. ASSUME PersistFailure PROVE After
  BY <1>20, <1>7, PersistFailureMoves DEF PersistFailure
<1>21. ASSUME AfterPartial PROVE After
  <2>1. usage' = usage
    BY <1>21 DEF AfterPartial, stored
  <2> QED BY <1>21, <2>1, AfterPartialMoves DEF AfterPartial, LocalsInv, Announcing, ReplyOnly, Yields
<1>22. ASSUME RecordFailure PROVE After
  <2>1. gen.pc = "recordFailure" /\ MeasuredIn(usage') = MeasuredIn(usage) \cup {gen.attempt}
    BY <1>22, <1>6 DEF RecordFailure
  <2> QED BY <1>22, <2>1, LeaveMoves DEF LocalsInv, RecordFailure
<1>23. ASSUME Return PROVE After
  BY <1>23, <1>5 DEF Return
<1>24. ASSUME Finally PROVE After
  <2>1. usage' = usage
    BY <1>24 DEF Finally, stored
  <2> QED BY <1>24, <2>1, FinallyMoves DEF Finally, LocalsInv, Announcing, ReplyOnly, Yields
<1>25. ASSUME PersistAbort PROVE After
  <2>1. usage' = usage
    BY <1>25 DEF PersistAbort
  <2> QED BY <1>25, <2>1, PersistAbortMoves DEF PersistAbort, LocalsInv, Announcing, ReplyOnly, Yields
<1>26. ASSUME RecordAbort PROVE After
  <2>1. gen.pc = "recordAbort" /\ MeasuredIn(usage') = MeasuredIn(usage) \cup {gen.attempt}
    BY <1>26, <1>6 DEF RecordAbort
  <2> QED BY <1>26, <2>1, RecordAbortMoves DEF LocalsInv
<1>27. ASSUME Complete PROVE After
  <2>1. usage' = usage
    BY <1>27 DEF Complete, stored
  <2> QED BY <1>27, <2>1, CompleteMoves DEF Complete, LocalsInv, Announcing, ReplyOnly, Yields
<1>28. ASSUME PersistReply PROVE After
  BY <1>28, <1>7, PersistReplyMoves DEF PersistReply
<1>29. ASSUME RecordReplyFailure PROVE After
  <2>1. gen.pc = "recordReplyFailure" /\ MeasuredIn(usage') = MeasuredIn(usage) \cup {gen.attempt}
    BY <1>29, <1>6 DEF RecordReplyFailure
  <2> QED BY <1>29, <2>1, RecordReplyFailureMoves DEF LocalsInv
<1>30. ASSUME ReplyFallback PROVE After
  <2>1. usage' = usage
    BY <1>30 DEF ReplyFallback, stored
  <2> QED BY <1>30, <2>1, ReplyFallbackMoves DEF ReplyFallback, LocalsInv, Announcing, ReplyOnly, Yields
<1> QED
  BY <1>8, <1>9, <1>10, <1>11, <1>12, <1>13, <1>14, <1>15, <1>16, <1>17, <1>18, <1>19,
     <1>20, <1>21, <1>22, <1>23, <1>24, <1>25, <1>26, <1>27, <1>28, <1>29, <1>30 DEF Generate

LEMMA MeasuresControl ==
  ASSUME FlowInv, UsageInv, AskedInv, Control \/ ClientCloses \/ Crash
  PROVE  UsageInv' /\ AskedInv'
<1>1. gen \in Generator /\ client \in Clients /\ iterator \in Iterators
  BY TypeRows DEF FlowInv
<1>2. UNCHANGED stored /\ (gen' = gen \/ (GoesTo(gen, gen', "ended") /\ controller' = "crashed"))
  BY <1>1, ControlKeeps
<1>3. UsageInv'
  <2>1. gen'.attempt = gen.attempt /\ (Unmeasured(gen') => Unmeasured(gen))
    BY <1>2 DEF GoesTo, Moves, SameTry, Unmeasured, WillAbort, Unattempted, Asked
  <2> QED BY <1>2, <2>1 DEF UsageInv, UsageOnce, stored
<1>4. controller' # "crashed" => gen' = gen /\ controller # "crashed"
  BY <1>2 DEF Control, ReceiveFirst, Iterate, Receive, Heartbeat, Left, ClientCloses, Crash
<1>5. ~client'.closed => ~client.closed
  <2>1. CASE ReceiveFirst \/ Receive
    <3>1. iterator.next \in Results \ {"pending"} /\ Write(iterator.next)
      BY <1>1, <2>1 DEF ReceiveFirst, Receive, Iterators
    <3> QED BY <1>1, <3>1, WriteMoves DEF Writes
  <2>2. CASE ClientCloses
    BY <1>1, <2>2, CloseMoves
  <2>3. CASE Iterate \/ Heartbeat \/ Left \/ Crash
    BY <2>3 DEF Iterate, Heartbeat, Left, Crash
  <2> QED BY <2>1, <2>2, <2>3 DEF Control
<1> QED BY <1>2, <1>3, <1>4, <1>5 DEF AskedInv, stored

LEMMA MeasuresHold == Spec => [](UsageInv /\ AskedInv)
<1>1. Init => UsageInv /\ AskedInv
  <2>1. ASSUME Init PROVE UsageInv /\ AskedInv
    <3>1. PICK streaming \in BOOLEAN : gen = Fresh(streaming)
      BY <2>1 DEF Init
    <3>2. usage = <<>> /\ DOMAIN usage = {} /\ MeasuredIn(usage) = {}
      BY <2>1 DEF Init, MeasuredIn
    <3>3. gen.pc = "prepare" /\ gen.asked = {}
      BY <3>1 DEF Fresh
    <3> QED BY <3>2, <3>3 DEF UsageInv, UsageOnce, AskedInv, WillAbort, Asked
  <2> QED BY <2>1
<1>2. FlowInv /\ UsageInv /\ AskedInv /\ [Next]_vars => UsageInv' /\ AskedInv'
  <2>1. ASSUME FlowInv, UsageInv, AskedInv, UNCHANGED vars PROVE UsageInv' /\ AskedInv'
    BY <2>1 DEF UsageInv, UsageOnce, AskedInv, vars
  <2> QED BY <2>1, UsageGenerates, AskedGenerates, MeasuresControl DEF Next
<1> QED BY <1>1, <1>2, FlowHolds, PTL DEF Spec

\* However the blocks of the generator are left, no provider that was asked is measured
\* twice, and where no write fails and the client stays each of them is measured.
THEOREM AttemptsAreMeasuredOnceHolds == Spec => []AttemptsAreMeasuredOnce
<1>1. FlowInv /\ UsageInv /\ AskedInv => AttemptsAreMeasuredOnce
  <2> SUFFICES ASSUME FlowInv, UsageInv, AskedInv PROVE AttemptsAreMeasuredOnce
    OBVIOUS
  <2>1. UsageOnce
    BY DEF UsageInv
  <2>2. ASSUME controller = "ended", ~client.closed, faults = 0
        PROVE  gen.asked = {usage[i].provider : i \in DOMAIN usage}
    <3>1. gen.pc = "ended"
      BY <2>2 DEF FlowInv, CallsInv
    <3>2. gen.asked = MeasuredIn(usage)
      BY <2>2, <3>1 DEF AskedInv, Asked
    <3> QED BY <3>2 DEF MeasuredIn
  <2> QED BY <2>1, <2>2 DEF AttemptsAreMeasuredOnce, AttemptsAreMeasured
<1> QED BY <1>1, FlowHolds, MeasuresHold, PTL

-----------------------------------------------------------------------------
(* What the client is told.                                                *)

\* What the calls are answered with, and where.
Tells(g, h, i, k, f) ==
  \/ k.next = i.next /\ h.pc # "yieldDone"
  \/ k.next = "delta" /\ h.pc = "yieldDelta" /\ ~Empty(h)
  \/ k.next \in {"user_message", "provider_switch", "assistant_message"} /\ h.pc \in Yields \ {"yieldDone"}
  \/ k.next = "done" /\ g.pc \in {"yieldMessage", "yieldSwitched"} /\ h.pc = "yieldDone"
  \/ k.next = "reply" /\ g.pc \in {"recordSuccess", "promote"} /\ h.pc = "ended"
  \/ k.next = "end" /\ g.pc \in Leaving /\ g.exit = "end" /\ h.pc = "ended"
  \/ /\ k.next = "error" /\ h.pc = "ended"
     /\ \/ g.pc \in {"prepare", "recordReplyFailure", "replyFallback"}
        \/ g.pc \in Leaving /\ g.exit = "error"
        \/ f > 0

LEMMA GenerateTells ==
  ASSUME FlowInv, Generate \/ Chunk
  PROVE  Tells(gen, gen', iterator, iterator', faults')
<1>1. gen \in Generator /\ LocalsInv(gen) /\ iterator \in Iterators /\ faults \in Nat
      /\ CallsInv(gen, iterator, controller, client.closed)
  BY TypeRows, FaultsAssumption DEF FlowInv, Rest
<1>2. gen.pc \notin Yields \cup Leaving \cup {"ended"} => NextWaits(iterator)
  BY <1>1 DEF CallsInv, NextWaits
<1>3. ASSUME NEW event \in Events, NextWaits(iterator), Answer(event)
      PROVE  iterator'.next = event
  BY <1>1, <1>3, AnswerMoves DEF Answers
<1>4. ASSUME NEW result \in {"end", "error", "reply"}, iterator.requests # <<>>,
             result = "reply" => NextWaits(iterator), Settle(result)
      PROVE  iterator'.next = result \/ (iterator'.next = iterator.next /\ ~NextWaits(iterator))
  BY <1>1, <1>4, SettleMoves DEF Settles
<1>5. /\ NextWaits(iterator) => iterator.requests # <<>>
      /\ gen.pc \in Leaving => iterator.requests # <<>> /\ gen.exit \in {"end", "error"}
      /\ Requested("next") => NextWaits(iterator)
      /\ Requested("return") => iterator.requests # <<>> /\ ~NextWaits(iterator)
  BY <1>1, QueueFacts, NextIsRequested DEF NextWaits, CallsInv, LocalsInv
<1>6. {"user_message", "provider_switch", "assistant_message", "done", "delta"} = Events
  BY DEF Events
<1> USE DEF Moves, GoesTo, Leaves, Tells
<1>7. ASSUME Prepare PROVE Tells(gen, gen', iterator, iterator', faults')
  BY <1>7, <1>1, <1>2, <1>3, <1>4, <1>5, <1>6, PrepareMoves DEF Prepare, Yields, Leaving
<1>8. ASSUME Read PROVE Tells(gen, gen', iterator, iterator', faults')
  BY <1>8, <1>1, <1>2, <1>3, <1>4, <1>5, <1>6, ReadMoves DEF Read, Yields, Leaving
<1>9. ASSUME Chunk PROVE Tells(gen, gen', iterator, iterator', faults')
  BY <1>9, <1>1, <1>2, <1>3, <1>4, <1>5, <1>6, ChunkMoves DEF Chunk, Yields, Leaving
<1>10. ASSUME StreamEnds PROVE Tells(gen, gen', iterator, iterator', faults')
  BY <1>10, <1>1, <1>2, <1>3, <1>4, <1>5, <1>6, StreamEndsMoves DEF StreamEnds, Yields, Leaving
<1>11. ASSUME Fallback PROVE Tells(gen, gen', iterator, iterator', faults')
  BY <1>11, <1>1, <1>2, <1>3, <1>4, <1>5, <1>6, FallbackMoves DEF Fallback, Yields, Leaving
<1>12. ASSUME RecordFallback PROVE Tells(gen, gen', iterator, iterator', faults')
  BY <1>12, <1>1, <1>2, <1>3, <1>4, <1>5, <1>6, RecordFallbackMoves DEF RecordFallback, Yields, Leaving
<1>13. ASSUME PersistSuccess PROVE Tells(gen, gen', iterator, iterator', faults')
  BY <1>13, <1>1, <1>2, <1>3, <1>4, <1>5, <1>6, PersistSuccessMoves DEF PersistSuccess, Yields, Leaving
<1>14. ASSUME RecordSuccess PROVE Tells(gen, gen', iterator, iterator', faults')
  BY <1>14, <1>1, <1>2, <1>3, <1>4, <1>5, <1>6, RecordSuccessMoves DEF RecordSuccess, Yields, Leaving
<1>15. ASSUME Promote PROVE Tells(gen, gen', iterator, iterator', faults')
  BY <1>15, <1>1, <1>2, <1>3, <1>4, <1>5, <1>6, AnnounceMoves DEF Promote, Yields, Leaving
<1>16. ASSUME AfterMessage PROVE Tells(gen, gen', iterator, iterator', faults')
  BY <1>16, <1>1, <1>2, <1>3, <1>4, <1>5, <1>6, AfterMessageMoves DEF AfterMessage, Yields, Leaving
<1>17. ASSUME AfterSwitched PROVE Tells(gen, gen', iterator, iterator', faults')
  BY <1>17, <1>1, <1>2, <1>3, <1>4, <1>5, <1>6, AfterSwitchedMoves DEF AfterSwitched, Yields, Leaving
<1>18. ASSUME AfterDone PROVE Tells(gen, gen', iterator, iterator', faults')
  BY <1>18, <1>1, <1>2, <1>3, <1>4, <1>5, <1>6, LeaveMoves DEF AfterDone, Yields, Leaving
<1>19. ASSUME PersistFailure PROVE Tells(gen, gen', iterator, iterator', faults')
  BY <1>19, <1>1, <1>2, <1>3, <1>4, <1>5, <1>6, PersistFailureMoves DEF PersistFailure, Yields, Leaving
<1>20. ASSUME AfterPartial PROVE Tells(gen, gen', iterator, iterator', faults')
  BY <1>20, <1>1, <1>2, <1>3, <1>4, <1>5, <1>6, AfterPartialMoves DEF AfterPartial, Yields, Leaving
<1>21. ASSUME RecordFailure PROVE Tells(gen, gen', iterator, iterator', faults')
  BY <1>21, <1>1, <1>2, <1>3, <1>4, <1>5, <1>6, LeaveMoves DEF RecordFailure, Yields, Leaving
<1>22. ASSUME Return PROVE Tells(gen, gen', iterator, iterator', faults')
  <2>1. CASE gen.pc = "yieldUser" /\ GoesTo(gen, gen', "ended") /\ Settle("end")
    <3>1. iterator'.next = iterator.next \/ iterator'.next = "end"
      BY <1>4, <1>5, <1>22, <2>1 DEF Return
    <3>2. ~NextWaits(iterator) /\ iterator.requests # <<>>
      BY <1>5, <1>22 DEF Return
    <3>3. iterator'.next = iterator.next
      BY <1>1, <2>1, <3>2, SettleMoves DEF Settles
    <3> QED BY <2>1, <3>3
  <2>2. CASE Leaves(gen, gen', "end") /\ UNCHANGED iterator
    BY <2>2
  <2> QED BY <1>1, <1>22, <2>1, <2>2, ReturnMoves
<1>23. ASSUME Finally PROVE Tells(gen, gen', iterator, iterator', faults')
  <2>1. CASE GoesTo(gen, gen', "persistAbort") /\ UNCHANGED iterator
    BY <2>1
  <2>2. CASE GoesTo(gen, gen', "ended") /\ Settle(gen.exit)
    <3>1. gen.pc \in Leaving /\ gen.exit \in {"end", "error"} /\ iterator.requests # <<>>
      BY <1>5, <1>23 DEF Finally, Leaving
    <3>2. iterator'.next = gen.exit \/ iterator'.next = iterator.next
      BY <1>4, <2>2, <3>1
    <3> QED BY <2>2, <3>1, <3>2
  <2> QED BY <1>1, <1>23, <2>1, <2>2, FinallyMoves
<1>24. ASSUME PersistAbort PROVE Tells(gen, gen', iterator, iterator', faults')
  <2>1. CASE Moves(gen, gen', "recordAbort") /\ UNCHANGED iterator
    BY <2>1
  <2>2. CASE Moves(gen, gen', "ended") /\ StoreFails(PartialAborted) /\ Settle("error")
    <3>1. iterator.requests # <<>>
      BY <1>5, <1>24 DEF PersistAbort, Leaving
    <3>2. iterator'.next = "error" \/ iterator'.next = iterator.next
      BY <1>4, <2>2, <3>1
    <3>3. faults' > 0
      BY <1>1, <2>2 DEF StoreFails, Fault
    <3> QED BY <2>2, <3>2, <3>3
  <2> QED BY <1>1, <1>24, <2>1, <2>2, PersistAbortMoves
<1>25. ASSUME RecordAbort PROVE Tells(gen, gen', iterator, iterator', faults')
  <2>1. GoesTo(gen, gen', "ended") /\ Settle(gen.exit)
    BY <1>1, <1>25, RecordAbortMoves
  <2>2. gen.pc \in Leaving /\ gen.exit \in {"end", "error"} /\ iterator.requests # <<>>
    BY <1>5, <1>25 DEF RecordAbort, Leaving
  <2>3. iterator'.next = gen.exit \/ iterator'.next = iterator.next
    BY <1>4, <2>1, <2>2
  <2> QED BY <2>1, <2>2, <2>3
<1>26. ASSUME Complete PROVE Tells(gen, gen', iterator, iterator', faults')
  BY <1>26, <1>1, <1>2, <1>3, <1>4, <1>5, <1>6, CompleteMoves DEF Complete, Yields, Leaving
<1>27. ASSUME PersistReply PROVE Tells(gen, gen', iterator, iterator', faults')
  BY <1>27, <1>1, <1>2, <1>3, <1>4, <1>5, <1>6, PersistReplyMoves DEF PersistReply, Yields, Leaving
<1>28. ASSUME RecordReplyFailure PROVE Tells(gen, gen', iterator, iterator', faults')
  BY <1>28, <1>1, <1>2, <1>3, <1>4, <1>5, <1>6, RecordReplyFailureMoves DEF RecordReplyFailure, Yields, Leaving
<1>29. ASSUME ReplyFallback PROVE Tells(gen, gen', iterator, iterator', faults')
  BY <1>29, <1>1, <1>2, <1>3, <1>4, <1>5, <1>6, ReplyFallbackMoves DEF ReplyFallback, Yields, Leaving
<1> QED
  BY <1>7, <1>8, <1>9, <1>10, <1>11, <1>12, <1>13, <1>14, <1>15, <1>16, <1>17, <1>18,
     <1>19, <1>20, <1>21, <1>22, <1>23, <1>24, <1>25, <1>26, <1>27, <1>28, <1>29 DEF Generate

Kept(g, ms) == ms # <<>> /\ ms[1].text = g.text /\ ms[1].reasoning = g.reasoning

\* Only a stream shows something, and what it has said so far.
ShownInv == client.shown \/ iterator.next = "delta" => gen.streaming /\ ~Empty(gen)

\* Without faults, what was said is stored where it need not be any more.
KeptInv ==
  faults = 0 /\ controller # "crashed" /\ ~Empty(gen) /\ ~WillAbort(gen) /\ gen.pc \notin Unstored \cup {"persistFailure"}
    => Kept(gen, messages)

LEMMA WroteIsKept ==
  ASSUME NEW m \in {Reply, Partial, PartialAborted}, Wrote(m), SameText(gen, gen')
  PROVE  Kept(gen', messages')
<1>1. m.text = gen.text /\ m.reasoning = gen.reasoning
  BY DEF Reply, Partial, PartialAborted, AssistantMessage
<1> QED BY <1>1 DEF Wrote, Kept, SameText

LEMMA KeptGenerates ==
  ASSUME FlowInv, StoreInv, KeptInv, Generate \/ Chunk
  PROVE  KeptInv'
<1>0. controller' = controller /\ Faults
  BY GenerateWrites
<1>1. SUFFICES ASSUME faults' = 0, controller # "crashed", ~Empty(gen'), ~WillAbort(gen'),
                      gen'.pc \notin Unstored \cup {"persistFailure"}
               PROVE  Kept(gen', messages')
  BY <1>0 DEF KeptInv
<1>2. gen \in Generator /\ LocalsInv(gen) /\ faults \in Nat
  BY TypeRows, FaultsAssumption DEF FlowInv, Rest
<1>3. faults = 0 /\ PointInv(gen, messages, faults)
  BY <1>0, <1>1, <1>2 DEF Faults, StoreInv
<1>4. ASSUME UNCHANGED messages, SameText(gen, gen'), ~WillAbort(gen), gen.pc \notin Unstored \cup {"persistFailure"}
      PROVE  Kept(gen', messages')
  BY <1>1, <1>3, <1>4 DEF KeptInv, Kept, SameText, Empty
<1>5. ASSUME NEW m, StoreFails(m) PROVE FALSE
  BY <1>1, <1>2, <1>5 DEF StoreFails, Fault
<1>6. ASSUME NEW m \in {Reply, Partial, PartialAborted}, Stored(m), SameText(gen, gen'), messages = <<>>
      PROVE  Kept(gen', messages')
  BY <1>2, <1>6, ReplyType, FirstMessage, WroteIsKept
<1> DEFINE After == Kept(gen', messages')
<1> USE <1>2, <1>3 DEF Moves, GoesTo, Leaves, SameTry, SameFlags, SameText, Empty, isEmpty, WillAbort, Unstored
<1>7. ASSUME Prepare PROVE After
  <2>1. messages' = messages
    BY <1>7 DEF Prepare, stored
  <2> QED BY <1>7, <1>1, <1>4, <2>1, PrepareMoves DEF Prepare, LocalsInv, Announcing, Yields, PointInv
<1>8. ASSUME Read PROVE After
  <2>1. messages' = messages
    BY <1>8 DEF Read, stored
  <2> QED BY <1>8, <1>1, <1>4, <2>1, ReadMoves DEF Read, LocalsInv, Announcing, Yields, PointInv
<1>9. ASSUME Chunk PROVE After
  <2>1. messages' = messages
    BY <1>9 DEF Chunk, stored
  <2> QED BY <1>9, <1>1, <1>4, <2>1, ChunkMoves DEF Chunk, LocalsInv, Announcing, Yields, PointInv
<1>10. ASSUME StreamEnds PROVE After
  <2>1. messages' = messages
    BY <1>10 DEF StreamEnds, stored
  <2> QED BY <1>10, <1>1, <1>4, <2>1, StreamEndsMoves DEF StreamEnds, LocalsInv, Announcing, Yields, PointInv
<1>11. ASSUME Fallback PROVE After
  <2>1. messages' = messages
    BY <1>11 DEF Fallback, stored
  <2> QED BY <1>11, <1>1, <1>4, <2>1, FallbackMoves DEF Fallback, LocalsInv, Announcing, Yields, PointInv
<1>12. ASSUME RecordFallback PROVE After
  <2>1. messages' = messages
    BY <1>12 DEF RecordFallback
  <2> QED BY <1>12, <1>1, <1>4, <2>1, RecordFallbackMoves DEF RecordFallback, LocalsInv, Announcing, Yields, PointInv
<1>13. ASSUME PersistSuccess PROVE After
  <2>1. messages = <<>>
    BY <1>13 DEF PersistSuccess, PointInv
  <2> QED BY <1>13, <1>5, <1>6, <2>1, PersistSuccessMoves
<1>14. ASSUME RecordSuccess PROVE After
  <2>1. messages' = messages
    BY <1>14 DEF RecordSuccess
  <2> QED BY <1>14, <1>1, <1>4, <2>1, RecordSuccessMoves DEF RecordSuccess, LocalsInv, Announcing, Yields, PointInv
<1>15. ASSUME Promote PROVE After
  <2>1. messages' = messages
    BY <1>15 DEF Promote
  <2> QED BY <1>15, <1>1, <1>4, <2>1, AnnounceMoves DEF Promote, LocalsInv, Announcing, Yields, PointInv
<1>16. ASSUME AfterMessage PROVE After
  <2>1. messages' = messages
    BY <1>16 DEF AfterMessage, stored
  <2> QED BY <1>16, <1>1, <1>4, <2>1, AfterMessageMoves DEF AfterMessage, LocalsInv, Announcing, Yields, PointInv
<1>17. ASSUME AfterSwitched PROVE After
  <2>1. messages' = messages
    BY <1>17 DEF AfterSwitched, stored
  <2> QED BY <1>17, <1>1, <1>4, <2>1, AfterSwitchedMoves DEF AfterSwitched, LocalsInv, Announcing, Yields, PointInv
<1>18. ASSUME AfterDone PROVE After
  <2>1. messages' = messages
    BY <1>18 DEF AfterDone, stored
  <2> QED BY <1>18, <1>1, <1>4, <2>1, LeaveMoves DEF AfterDone, LocalsInv, Announcing, Yields, PointInv
<1>19. ASSUME PersistFailure PROVE After
  <2>1. /\ SameText(gen, gen')
        /\ ~gen.persisted /\ ~isEmpty /\ Stored(Partial)
    <3>1. SameText(gen, gen')
      BY <1>19, PersistFailureMoves
    <3>2. ~gen.persisted
      <4>1. gen.pc = "persistFailure"
        BY <1>19 DEF PersistFailure
      <4> QED BY <4>1 DEF PointInv
    <3>3. ~isEmpty
      BY <1>1, <3>1
    <3> QED BY <1>19, <1>5, <3>1, <3>2, <3>3, PersistFailureMoves
  <2>2. messages = <<>>
    BY <1>19, <2>1 DEF PersistFailure, PointInv
  <2> QED BY <1>6, <2>1, <2>2
<1>20. ASSUME AfterPartial PROVE After
  <2>1. messages' = messages
    BY <1>20 DEF AfterPartial, stored
  <2> QED BY <1>20, <1>1, <1>4, <2>1, AfterPartialMoves DEF AfterPartial, LocalsInv, Announcing, Yields, PointInv
<1>21. ASSUME RecordFailure PROVE After
  <2>1. gen.pc = "recordFailure" /\ messages' = messages
    BY <1>21 DEF RecordFailure
  <2>2. SameText(gen, gen')
    BY <1>21, LeaveMoves DEF RecordFailure
  <2>3. ~WillAbort(gen) /\ gen.pc \notin Unstored \cup {"persistFailure"}
    BY <2>1
  <2> QED BY <1>4, <2>1, <2>2, <2>3
<1>22. ASSUME Return PROVE After
  <2>1. messages' = messages
    BY <1>22 DEF Return, stored
  <2> QED BY <1>22, <1>1, <1>4, <2>1, ReturnMoves DEF Return, LocalsInv, Announcing, Yields, PointInv
<1>23. ASSUME Finally PROVE After
  <2>1. messages' = messages
    BY <1>23 DEF Finally, stored
  <2> QED BY <1>23, <1>1, <1>4, <2>1, FinallyMoves DEF Finally, LocalsInv, Announcing, Yields, PointInv
<1>24. ASSUME PersistAbort PROVE After
  <2>1. /\ SameText(gen, gen')
        /\ ~gen.persisted /\ ~isEmpty /\ Stored(PartialAborted)
    <3>1. SameText(gen, gen')
      BY <1>24, PersistAbortMoves
    <3>2. ~gen.persisted
      <4>1. gen.pc = "persistAbort"
        BY <1>24 DEF PersistAbort
      <4> QED BY <4>1 DEF PointInv
    <3>3. ~isEmpty
      BY <1>1, <3>1
    <3> QED BY <1>24, <1>5, <3>1, <3>2, <3>3, PersistAbortMoves
  <2>2. messages = <<>>
    BY <1>24, <2>1 DEF PersistAbort, PointInv
  <2> QED BY <1>6, <2>1, <2>2
<1>25. ASSUME RecordAbort PROVE After
  <2>1. messages' = messages
    BY <1>25 DEF RecordAbort
  <2> QED BY <1>25, <1>1, <1>4, <2>1, RecordAbortMoves DEF RecordAbort, LocalsInv, Announcing, Yields, PointInv
<1>26. ASSUME Complete PROVE After
  <2>1. messages' = messages
    BY <1>26 DEF Complete, stored
  <2> QED BY <1>26, <1>1, <1>4, <2>1, CompleteMoves DEF Complete, LocalsInv, Announcing, Yields, PointInv
<1>27. ASSUME PersistReply PROVE After
  <2>1. messages = <<>>
    BY <1>27 DEF PersistReply, PointInv
  <2> QED BY <1>27, <1>5, <1>6, <2>1, PersistReplyMoves
<1>28. ASSUME RecordReplyFailure PROVE After
  <2>1. messages' = messages
    BY <1>28 DEF RecordReplyFailure
  <2> QED BY <1>28, <1>1, <1>4, <2>1, RecordReplyFailureMoves DEF RecordReplyFailure, LocalsInv, Announcing, Yields, PointInv
<1>29. ASSUME ReplyFallback PROVE After
  <2>1. messages' = messages
    BY <1>29 DEF ReplyFallback, stored
  <2> QED BY <1>29, <1>1, <1>4, <2>1, ReplyFallbackMoves DEF ReplyFallback, LocalsInv, Announcing, Yields, PointInv
<1> QED
  BY <1>7, <1>8, <1>9, <1>10, <1>11, <1>12, <1>13, <1>14, <1>15, <1>16, <1>17, <1>18,
     <1>19, <1>20, <1>21, <1>22, <1>23, <1>24, <1>25, <1>26, <1>27, <1>28, <1>29 DEF Generate

\* A stream never unsays anything.
LEMMA ShownGenerates ==
  ASSUME FlowInv, ShownInv, Generate \/ Chunk
  PROVE  ShownInv'
<1>1. gen \in Generator /\ gen' \in Generator /\ LocalsInv(gen) /\ LocalsInv(gen')
  BY TypeRows, GenerateLocals DEF FlowInv
<1>2. client' = client /\ Tells(gen, gen', iterator, iterator', faults')
  BY GenerateWrites, GenerateTells
<1>3. gen'.streaming = gen.streaming
  BY <1>1, GenerateKinds, TypeRows DEF FlowInv
<1>4. gen.streaming /\ ~Empty(gen) => ~Empty(gen')
  <2> SUFFICES ASSUME gen.streaming, ~Empty(gen) PROVE ~Empty(gen')
    OBVIOUS
  <2>1. gen.pc \notin ReplyOnly
    BY <1>1 DEF LocalsInv
  <2> USE <1>1 DEF Moves, GoesTo, Leaves, SameText, Empty
  <2>2. ASSUME Prepare PROVE ~Empty(gen')
    BY <2>2, PrepareMoves DEF Prepare
  <2>3. ASSUME Read PROVE ~Empty(gen')
    BY <2>3, ReadMoves DEF Read
  <2>4. ASSUME Chunk PROVE ~Empty(gen')
    BY <2>4, ChunkMoves DEF Chunk
  <2>5. ASSUME StreamEnds PROVE ~Empty(gen')
    BY <2>5, StreamEndsMoves DEF StreamEnds
  <2>6. ASSUME Fallback PROVE ~Empty(gen')
    BY <2>6, FallbackMoves DEF Fallback
  <2>7. ASSUME RecordFallback PROVE ~Empty(gen')
    BY <2>7, RecordFallbackMoves DEF RecordFallback
  <2>8. ASSUME PersistSuccess PROVE ~Empty(gen')
    BY <2>8, PersistSuccessMoves DEF PersistSuccess
  <2>9. ASSUME RecordSuccess PROVE ~Empty(gen')
    BY <2>9, RecordSuccessMoves DEF RecordSuccess
  <2>10. ASSUME Promote PROVE ~Empty(gen')
    BY <2>10, AnnounceMoves DEF Promote
  <2>11. ASSUME AfterMessage PROVE ~Empty(gen')
    BY <2>11, AfterMessageMoves DEF AfterMessage
  <2>12. ASSUME AfterSwitched PROVE ~Empty(gen')
    BY <2>12, AfterSwitchedMoves DEF AfterSwitched
  <2>13. ASSUME AfterDone PROVE ~Empty(gen')
    BY <2>13, LeaveMoves DEF AfterDone
  <2>14. ASSUME PersistFailure PROVE ~Empty(gen')
    BY <2>14, PersistFailureMoves DEF PersistFailure
  <2>15. ASSUME AfterPartial PROVE ~Empty(gen')
    BY <2>15, AfterPartialMoves DEF AfterPartial
  <2>16. ASSUME RecordFailure PROVE ~Empty(gen')
    BY <2>16, LeaveMoves DEF RecordFailure
  <2>17. ASSUME Return PROVE ~Empty(gen')
    BY <2>17, ReturnMoves DEF Return
  <2>18. ASSUME Finally PROVE ~Empty(gen')
    BY <2>18, FinallyMoves DEF Finally
  <2>19. ASSUME PersistAbort PROVE ~Empty(gen')
    BY <2>19, PersistAbortMoves DEF PersistAbort
  <2>20. ASSUME RecordAbort PROVE ~Empty(gen')
    BY <2>20, RecordAbortMoves DEF RecordAbort
  <2>21. ASSUME Complete PROVE ~Empty(gen')
    BY <2>21, <2>1 DEF Complete, ReplyOnly
  <2>22. ASSUME PersistReply PROVE ~Empty(gen')
    BY <2>22, <2>1 DEF PersistReply, ReplyOnly
  <2>23. ASSUME RecordReplyFailure PROVE ~Empty(gen')
    BY <2>23, <2>1 DEF RecordReplyFailure, ReplyOnly
  <2>24. ASSUME ReplyFallback PROVE ~Empty(gen')
    BY <2>24, <2>1 DEF ReplyFallback, ReplyOnly
  <2> QED
    BY <2>2, <2>3, <2>4, <2>5, <2>6, <2>7, <2>8, <2>9, <2>10, <2>11, <2>12, <2>13,
       <2>14, <2>15, <2>16, <2>17, <2>18, <2>19, <2>20, <2>21, <2>22, <2>23, <2>24 DEF Generate
<1>5. iterator'.next = "delta" => iterator.next = "delta" \/ (gen'.streaming /\ ~Empty(gen'))
  BY <1>1, <1>2 DEF Tells, LocalsInv, ReplyOnly
<1> QED BY <1>2, <1>3, <1>4, <1>5 DEF ShownInv

HasSuccess(ms) == ms # <<>> /\ Successful(ms[1])

\* Of a reply that is stored as a success, without faults, nothing else is said.
SuccessInv ==
  /\ iterator.next \in {"done", "reply"} \/ client.last \in {"done", "reply"} => HasSuccess(messages)
  /\ faults = 0 /\ HasSuccess(messages) =>
       /\ gen.pc \in Announcing \cup {"finally", "ended"} /\ (gen.pc = "finally" => gen.exit = "end" /\ gen.completed)
       /\ iterator.next # "error" /\ client.last # "error"

\* What a client that stays was told last.
LastInv ==
  /\ gen.pc = "yieldDone" => iterator.next \in {"pending", "done"}
  /\ client.last \in {"error", "reply"} => gen.pc = "ended"
  /\ ~client.closed =>
       /\ gen.pc = "yieldDone" /\ iterator.next = "pending" => client.last = "done"
       /\ gen.pc \in Leaving /\ gen.exit = "end" => client.last = "done"
       /\ iterator.next = "end" => client.last = "done"
       /\ controller = "ended" => client.last \in {"done", "reply", "error"}

LEMMA SuccessPlaces ==
  ASSUME FlowInv, StoreInv, SuccessInv, Generate \/ Chunk
  PROVE  /\ HasSuccess(messages) => HasSuccess(messages')
         /\ faults' = 0 /\ HasSuccess(messages') =>
              /\ gen'.pc \in Announcing \cup {"finally", "ended"} /\ (gen'.pc = "finally" => gen'.exit = "end" /\ gen'.completed)
              /\ HasSuccess(messages) \/ gen'.pc = "recordSuccess"
<1>1. gen \in Generator /\ LocalsInv(gen) /\ faults \in Nat /\ PointInv(gen, messages, faults)
  BY TypeRows, FaultsAssumption DEF FlowInv, Rest, StoreInv
<1>2. faults' = 0 => faults = 0
  BY <1>1, GenerateWrites DEF Faults
<1> DEFINE Place(g) == g.pc \in Announcing \cup {"finally", "ended"} /\ (g.pc = "finally" => g.exit = "end" /\ g.completed)
           After == /\ HasSuccess(messages) => HasSuccess(messages')
                    /\ faults' = 0 /\ HasSuccess(messages') =>
                         Place(gen') /\ (HasSuccess(messages) \/ gen'.pc = "recordSuccess")
<1>3. ASSUME UNCHANGED messages, gen.pc \notin Announcing \cup {"finally", "ended"}
      PROVE  After
  BY <1>2, <1>3 DEF SuccessInv
<1>4. ASSUME UNCHANGED messages, Place(gen) => Place(gen')
      PROVE  After
  BY <1>2, <1>4 DEF SuccessInv
<1>5. ASSUME messages = <<>>, NEW m \in {Partial, PartialAborted}, Stored(m) \/ StoreFails(m), ~Empty(gen)
      PROVE  After
  <2>1. messages' = <<>> \/ Wrote(m)
    BY <1>1, <1>5, FirstMessage, ReplyType
  <2>2. ~Successful(m)
    BY <1>1, <1>5, MessageFields
  <2>3. ~HasSuccess(messages) /\ ~HasSuccess(messages')
    BY <1>5, <2>1, <2>2 DEF HasSuccess, Wrote
  <2> QED BY <2>3
<1> USE DEF Announcing
<1>6. ASSUME Prepare PROVE After
  BY <1>3, <1>6 DEF Prepare, Yields, stored
<1>7. ASSUME Read PROVE After
  BY <1>3, <1>7 DEF Read, stored
<1>8. ASSUME Chunk PROVE After
  BY <1>3, <1>8 DEF Chunk, Yields, stored
<1>9. ASSUME StreamEnds PROVE After
  BY <1>3, <1>9 DEF StreamEnds, Yields, stored
<1>10. ASSUME Fallback PROVE After
  BY <1>3, <1>10 DEF Fallback, Yields, stored
<1>11. ASSUME RecordFallback PROVE After
  BY <1>3, <1>11 DEF RecordFallback, Yields
<1>12. ASSUME PersistSuccess PROVE After
  <2>1. gen.pc = "persistSuccess" /\ messages = <<>>
    BY <1>1, <1>12 DEF PersistSuccess, PointInv, Unstored
  <2>2. \/ Stored(Reply) /\ gen'.pc = "recordSuccess"
        \/ StoreFails(Reply) /\ faults' # 0
    BY <1>1, <1>12, PersistSuccessMoves DEF Moves, StoreFails, Fault
  <2>3. ~HasSuccess(messages)
    BY <2>1 DEF HasSuccess
  <2> QED BY <2>2, <2>3
<1>13. ASSUME RecordSuccess PROVE After
  <2>1. messages' = messages
    BY <1>13 DEF RecordSuccess
  <2>2. Place(gen) => Place(gen')
    BY <1>1, <1>13, RecordSuccessMoves DEF RecordSuccess, GoesTo, Leaves, Moves, SameFlags, LocalsInv, ReplyOnly, Yields
  <2> QED BY <1>4, <2>1, <2>2
<1>14. ASSUME Promote PROVE After
  <2>1. messages' = messages
    BY <1>14 DEF Promote
  <2>2. Place(gen) => Place(gen')
    BY <1>1, <1>14, AnnounceMoves DEF Promote, GoesTo, Leaves, Moves, SameFlags, LocalsInv, ReplyOnly, Yields
  <2> QED BY <1>4, <2>1, <2>2
<1>15. ASSUME AfterMessage PROVE After
  <2>1. messages' = messages
    BY <1>15 DEF AfterMessage, stored
  <2>2. Place(gen) => Place(gen')
    BY <1>1, <1>15, AfterMessageMoves DEF AfterMessage, GoesTo, Leaves, Moves, SameFlags, LocalsInv, ReplyOnly, Yields
  <2> QED BY <1>4, <2>1, <2>2
<1>16. ASSUME AfterSwitched PROVE After
  <2>1. messages' = messages
    BY <1>16 DEF AfterSwitched, stored
  <2>2. Place(gen) => Place(gen')
    BY <1>1, <1>16, AfterSwitchedMoves DEF AfterSwitched, GoesTo, Leaves, Moves, SameFlags, LocalsInv, ReplyOnly, Yields
  <2> QED BY <1>4, <2>1, <2>2
<1>17. ASSUME AfterDone PROVE After
  <2>1. messages' = messages
    BY <1>17 DEF AfterDone, stored
  <2>2. Place(gen) => Place(gen')
    BY <1>1, <1>17, LeaveMoves DEF AfterDone, GoesTo, Leaves, Moves, SameFlags, LocalsInv, ReplyOnly, Yields
  <2> QED BY <1>4, <2>1, <2>2
<1>18. ASSUME PersistFailure PROVE After
  <2>1. gen.pc = "persistFailure"
    BY <1>18 DEF PersistFailure
  <2>2. CASE UNCHANGED messages
    BY <1>3, <2>1, <2>2
  <2>3. CASE ~gen.persisted /\ ~isEmpty /\ (Stored(Partial) \/ StoreFails(Partial))
    <3>1. messages = <<>> /\ ~Empty(gen)
      BY <1>1, <2>1, <2>3 DEF PointInv, Unstored, isEmpty, Empty
    <3> QED BY <1>5, <2>3, <3>1
  <2> QED BY <1>1, <1>18, <2>2, <2>3, PersistFailureMoves
<1>19. ASSUME AfterPartial PROVE After
  BY <1>3, <1>19 DEF AfterPartial, Yields, stored
<1>20. ASSUME RecordFailure PROVE After
  BY <1>3, <1>20 DEF RecordFailure, Yields
<1>21. ASSUME Return PROVE After
  <2>1. messages' = messages
    BY <1>21 DEF Return, stored
  <2>2. Place(gen) => Place(gen')
    BY <1>1, <1>21, ReturnMoves DEF Return, GoesTo, Leaves, Moves, SameFlags, LocalsInv, ReplyOnly, Yields
  <2> QED BY <1>4, <2>1, <2>2
<1>22. ASSUME Finally PROVE After
  <2>1. messages' = messages
    BY <1>22 DEF Finally, stored
  <2>2. Place(gen) => Place(gen')
    BY <1>1, <1>22, FinallyMoves DEF Finally, GoesTo, Leaves, Moves, SameFlags, LocalsInv, ReplyOnly, Yields
  <2> QED BY <1>4, <2>1, <2>2
<1>23. ASSUME PersistAbort PROVE After
  <2>1. gen.pc = "persistAbort"
    BY <1>23 DEF PersistAbort
  <2>2. CASE UNCHANGED messages
    BY <1>3, <2>1, <2>2
  <2>3. CASE ~gen.persisted /\ ~isEmpty /\ (Stored(PartialAborted) \/ StoreFails(PartialAborted))
    <3>1. messages = <<>> /\ ~Empty(gen)
      BY <1>1, <2>1, <2>3 DEF PointInv, Unstored, isEmpty, Empty
    <3> QED BY <1>5, <2>3, <3>1
  <2> QED BY <1>1, <1>23, <2>2, <2>3, PersistAbortMoves
<1>24. ASSUME RecordAbort PROVE After
  BY <1>3, <1>24 DEF RecordAbort, Yields
<1>25. ASSUME Complete PROVE After
  BY <1>3, <1>25 DEF Complete, Yields, stored
<1>26. ASSUME PersistReply PROVE After
  <2>1. gen.pc = "persistReply" /\ messages = <<>>
    BY <1>1, <1>26 DEF PersistReply, PointInv, Unstored
  <2>2. \/ Stored(Reply) /\ gen'.pc = "recordSuccess"
        \/ StoreFails(Reply) /\ faults' # 0
    BY <1>1, <1>26, PersistReplyMoves DEF Moves, StoreFails, Fault
  <2>3. ~HasSuccess(messages)
    BY <2>1 DEF HasSuccess
  <2> QED BY <2>2, <2>3
<1>27. ASSUME RecordReplyFailure PROVE After
  BY <1>3, <1>27 DEF RecordReplyFailure, Yields
<1>28. ASSUME ReplyFallback PROVE After
  BY <1>3, <1>28 DEF ReplyFallback, Yields, stored
<1> QED
  BY <1>6, <1>7, <1>8, <1>9, <1>10, <1>11, <1>12, <1>13, <1>14, <1>15, <1>16, <1>17,
     <1>18, <1>19, <1>20, <1>21, <1>22, <1>23, <1>24, <1>25, <1>26, <1>27, <1>28 DEF Generate

LEMMA LeavingPlaces ==
  ASSUME gen \in Generator, Generate \/ Chunk, gen'.pc \in Leaving, gen'.exit = "end"
  PROVE  \/ gen.pc \in Leaving /\ gen.exit = "end"
         \/ gen.pc = "yieldDone" /\ Requested("next")
         \/ Requested("return")
<1> DEFINE After ==
      \/ gen.pc \in Leaving /\ gen.exit = "end"
      \/ gen.pc = "yieldDone" /\ Requested("next")
      \/ Requested("return")
<1> USE DEF Leaving, Moves, GoesTo, Leaves
<1>1. ASSUME Prepare PROVE After
  BY <1>1, PrepareMoves
<1>2. ASSUME Read PROVE After
  BY <1>2, ReadMoves
<1>3. ASSUME Chunk PROVE After
  BY <1>3, ChunkMoves
<1>4. ASSUME StreamEnds PROVE After
  BY <1>4, StreamEndsMoves
<1>5. ASSUME Fallback PROVE After
  BY <1>5, FallbackMoves
<1>6. ASSUME RecordFallback PROVE After
  BY <1>6, RecordFallbackMoves
<1>7. ASSUME PersistSuccess PROVE After
  BY <1>7, PersistSuccessMoves
<1>8. ASSUME RecordSuccess PROVE After
  BY <1>8, RecordSuccessMoves
<1>9. ASSUME Promote PROVE After
  BY <1>9, AnnounceMoves DEF Promote
<1>10. ASSUME AfterMessage PROVE After
  BY <1>10, AfterMessageMoves
<1>11. ASSUME AfterSwitched PROVE After
  BY <1>11, AfterSwitchedMoves
<1>12. ASSUME AfterDone PROVE After
  BY <1>12, LeaveMoves DEF AfterDone
<1>13. ASSUME PersistFailure PROVE After
  BY <1>13, PersistFailureMoves
<1>14. ASSUME AfterPartial PROVE After
  BY <1>14, AfterPartialMoves
<1>15. ASSUME RecordFailure PROVE After
  BY <1>15, LeaveMoves DEF RecordFailure
<1>16. ASSUME Return PROVE After
  BY <1>16, ReturnMoves DEF Return
<1>17. ASSUME Finally PROVE After
  BY <1>17, FinallyMoves DEF Finally
<1>18. ASSUME PersistAbort PROVE After
  BY <1>18, PersistAbortMoves DEF PersistAbort
<1>19. ASSUME RecordAbort PROVE After
  BY <1>19, RecordAbortMoves DEF RecordAbort
<1>20. ASSUME Complete PROVE After
  BY <1>20, CompleteMoves
<1>21. ASSUME PersistReply PROVE After
  BY <1>21, PersistReplyMoves
<1>22. ASSUME RecordReplyFailure PROVE After
  BY <1>22, RecordReplyFailureMoves
<1>23. ASSUME ReplyFallback PROVE After
  BY <1>23, ReplyFallbackMoves
<1> QED
  BY <1>1, <1>2, <1>3, <1>4, <1>5, <1>6, <1>7, <1>8, <1>9, <1>10, <1>11, <1>12,
     <1>13, <1>14, <1>15, <1>16, <1>17, <1>18, <1>19, <1>20, <1>21, <1>22, <1>23 DEF Generate

LEMMA LearnGenerates ==
  ASSUME FlowInv, StoreInv, SuccessInv, LastInv, Generate \/ Chunk
  PROVE  SuccessInv' /\ LastInv'
<1>1. gen \in Generator /\ LocalsInv(gen) /\ iterator \in Iterators /\ faults \in Nat
      /\ CallsInv(gen, iterator, controller, client.closed) /\ PointInv(gen, messages, faults)
      /\ controller \in {"first", "iterate", "waiting", "leaving", "ended", "crashed"}
  BY TypeRows, FaultsAssumption DEF FlowInv, StoreInv, Rest
<1>2. client' = client /\ controller' = controller /\ (faults' = 0 => faults = 0)
  BY <1>1, GenerateWrites DEF Faults
<1>3. gen.pc # "ended"
  <2>1. "ended" \notin Running \cup Yields \cup Leaving
    BY DEF Running, Yields, Leaving
  <2>2. gen.pc \in Running \cup Yields \cup Leaving \/ gen.pc # "ended"
    BY <1>1, GenerateKinds DEF RunsOn, LeavesOn, YieldsAt, EndsAt
  <2> QED BY <2>1, <2>2
<1>4. iterator.next \notin {"end", "error", "reply"} /\ client.last \notin {"error", "reply"}
      /\ controller \notin {"ended", "crashed"}
  BY <1>1, <1>3 DEF CallsInv, LastInv
<1>5. Tells(gen, gen', iterator, iterator', faults')
  BY GenerateTells
<1>6. HasSuccess(messages) => HasSuccess(messages')
  BY SuccessPlaces
<1>7. ASSUME faults' = 0, HasSuccess(messages')
      PROVE  /\ gen'.pc \in Announcing \cup {"finally", "ended"} /\ (gen'.pc = "finally" => gen'.exit = "end" /\ gen'.completed)
             /\ HasSuccess(messages) \/ gen'.pc = "recordSuccess"
  BY <1>7, SuccessPlaces
<1>8. SuccessInv'
  <2>1. ASSUME iterator'.next \in {"done", "reply"} \/ client'.last \in {"done", "reply"}
        PROVE  HasSuccess(messages')
    <3>1. CASE iterator'.next = iterator.next
      BY <1>2, <1>6, <2>1, <3>1 DEF SuccessInv
    <3>2. CASE gen.pc \in {"yieldMessage", "yieldSwitched", "recordSuccess", "promote"}
      <4>1. gen.completed \/ gen.pc \in {"recordSuccess", "promote"}
        BY <1>1, <3>2 DEF LocalsInv, ReplyOnly, Announcing
      <4>2. HasSuccess(messages)
        BY <1>1, <4>1 DEF PointInv, Answered, HasSuccess
      <4> QED BY <1>6, <4>2
    <3>3. CASE iterator'.next \notin {"done", "reply"}
      BY <1>2, <1>6, <2>1, <3>3 DEF SuccessInv
    <3> QED BY <1>5, <3>1, <3>2, <3>3 DEF Tells
  <2>2. ASSUME faults' = 0, HasSuccess(messages') PROVE iterator'.next # "error"
    <3> SUFFICES ASSUME iterator'.next = "error" PROVE FALSE
      OBVIOUS
    <3>1. /\ gen'.pc = "ended"
          /\ gen.pc \in {"prepare", "recordReplyFailure", "replyFallback"} \/ (gen.pc \in Leaving /\ gen.exit = "error")
      BY <1>4, <1>5, <2>2 DEF Tells, Yields
    <3>2. HasSuccess(messages)
      BY <1>7, <2>2, <3>1
    <3>3. gen.pc \in Announcing \cup {"finally", "ended"} /\ (gen.pc = "finally" => gen.exit = "end")
      BY <1>2, <2>2, <3>2 DEF SuccessInv
    <3> QED BY <3>1, <3>3 DEF Announcing, Leaving
  <2> QED BY <1>2, <1>4, <1>7, <2>1, <2>2 DEF SuccessInv
<1>9. LastInv'
  <2>1. gen'.pc = "yieldDone" => iterator'.next = "done"
    BY <1>5 DEF Tells, Leaving
  <2>2. ASSUME ~client.closed, gen'.pc \in Leaving, gen'.exit = "end"
        PROVE  client.last = "done"
    <3>1. ~Requested("return")
      BY <1>1, <2>2, NextIsRequested DEF CallsInv
    <3>2. CASE gen.pc \in Leaving /\ gen.exit = "end"
      BY <2>2, <3>2 DEF LastInv
    <3>3. CASE gen.pc = "yieldDone" /\ Requested("next")
      <4>1. iterator.requests # <<>>
        BY <3>3 DEF Requested
      <4>2. controller \in {"first", "waiting"}
        BY <1>1, <1>4, <2>2, <4>1 DEF CallsInv
      <4>3. iterator.next = "pending"
        BY <1>1, <4>1, <4>2 DEF CallsInv
      <4> QED BY <2>2, <3>3, <4>3 DEF LastInv
    <3> QED BY <1>1, <2>2, <3>1, <3>2, <3>3, LeavingPlaces
  <2>3. ASSUME ~client.closed, iterator'.next = "end" PROVE client.last = "done"
    BY <1>4, <1>5, <2>3 DEF Tells, LastInv
  <2> QED BY <1>2, <1>4, <2>1, <2>2, <2>3 DEF LastInv
<1> QED BY <1>8, <1>9

\* The invariant of what is shown, kept and told.
ToldInv == ShownInv /\ KeptInv /\ SuccessInv /\ LastInv

LEMMA ToldControls ==
  ASSUME FlowInv, ToldInv, Control \/ ClientCloses \/ Crash
  PROVE  ToldInv'
<1>1. gen \in Generator /\ LocalsInv(gen) /\ iterator \in Iterators /\ client \in Clients
      /\ CallsInv(gen, iterator, controller, client.closed)
  BY TypeRows DEF FlowInv
<1>2. UNCHANGED stored /\ (gen' = gen \/ (GoesTo(gen, gen', "ended") /\ controller' = "crashed"))
  BY <1>1, ControlKeeps
<1>3. KeptInv'
  <2>1. controller' # "crashed" => gen' = gen /\ controller # "crashed"
    BY <1>2 DEF Control, ReceiveFirst, Iterate, Receive, Heartbeat, Left, ClientCloses, Crash
  <2> QED BY <1>2, <2>1 DEF ToldInv, KeptInv, stored
<1>4. ASSUME ReceiveFirst \/ Receive
      PROVE  ShownInv' /\ SuccessInv' /\ LastInv'
  <2>1. iterator.next \in Results \ {"pending"} /\ UNCHANGED <<gen, messages, faults>>
    BY <1>1, <1>4 DEF ReceiveFirst, Receive, Iterators, stored
  <2>2. Takes(iterator, iterator') /\ Writes(client, client', iterator.next)
    BY <1>1, <1>4, <2>1, TakeMoves, WriteMoves DEF ReceiveFirst, Receive
  <2>3. ShownInv'
    BY <2>1, <2>2 DEF ToldInv, ShownInv, Takes, Writes
  <2>4. SuccessInv'
    BY <2>1, <2>2 DEF ToldInv, SuccessInv, Takes, Writes
  <2>5. gen.pc \notin Leaving /\ (iterator.next \in {"error", "reply"} => gen.pc = "ended")
    BY <1>1, <1>4 DEF ReceiveFirst, Receive, CallsInv, LocalsInv, ReplyOnly, Yields, Leaving
  <2>6. controller' = "ended" => iterator.next \in {"end", "error", "reply"}
    BY <1>1, <1>4 DEF ReceiveFirst, Receive, CallsInv
  <2>7. LastInv'
    BY <2>1, <2>2, <2>5, <2>6 DEF ToldInv, LastInv, Takes, Writes
  <2> QED BY <2>3, <2>4, <2>7
<1>5. ASSUME Iterate \/ Heartbeat \/ Left
      PROVE  ShownInv' /\ SuccessInv' /\ LastInv'
  <2>1. UNCHANGED <<gen, client, messages, faults>>
    BY <1>5 DEF Iterate, Heartbeat, Left, stored
  <2>2. iterator'.next = iterator.next
    <3>1. CASE Iterate
      BY <1>1, <3>1 DEF Iterate, Iterators
    <3>2. CASE Heartbeat
      BY <1>1, <3>2 DEF Heartbeat, Iterators
    <3> QED BY <1>5, <3>1, <3>2 DEF Left
  <2>3. controller' = "ended" => client.closed
    BY <1>1, <1>5 DEF Iterate, Heartbeat, Left, CallsInv
  <2> QED BY <2>1, <2>2, <2>3 DEF ToldInv, ShownInv, SuccessInv, LastInv
<1>6. ASSUME ClientCloses
      PROVE  ShownInv' /\ SuccessInv' /\ LastInv'
  <2>1. client'.closed /\ client'.shown = client.shown /\ client'.last = client.last
        /\ UNCHANGED <<gen, iterator, messages, faults>>
    BY <1>1, <1>6, CloseMoves DEF ClientCloses, stored
  <2> QED BY <2>1 DEF ToldInv, ShownInv, SuccessInv, LastInv
<1>7. ASSUME Crash
      PROVE  ShownInv' /\ SuccessInv' /\ LastInv'
  <2>1. GoesTo(gen, gen', "ended") /\ controller' = "crashed" /\ UNCHANGED <<iterator, client, messages, faults>>
    BY <1>1, <1>7, GotoMoves DEF Crash, stored, Pcs
  <2> QED BY <2>1 DEF ToldInv, ShownInv, SuccessInv, LastInv, GoesTo, Moves, SameText, Empty, Announcing, Leaving
<1> QED BY <1>3, <1>4, <1>5, <1>6, <1>7 DEF Control, ToldInv

LEMMA ToldHolds == Spec => []ToldInv
<1>1. Init => ToldInv
  <2>1. ASSUME Init PROVE ToldInv
    <3>1. PICK streaming \in BOOLEAN : gen = Fresh(streaming)
      BY <2>1 DEF Init
    <3>2. gen.pc = "prepare" /\ Empty(gen)
      BY <3>1 DEF Fresh, Empty
    <3>3. messages = <<>> /\ iterator.next = "pending" /\ controller = "first" /\ ~client.shown /\ client.last = "nothing"
      BY <2>1 DEF Init
    <3> QED BY <3>2, <3>3 DEF ToldInv, ShownInv, KeptInv, SuccessInv, LastInv, HasSuccess, Leaving
  <2> QED BY <2>1
<1>2. FlowInv /\ StoreInv /\ ToldInv /\ [Next]_vars => ToldInv'
  <2>1. ASSUME FlowInv, StoreInv, ToldInv, Generate \/ Chunk PROVE ToldInv'
    BY <2>1, KeptGenerates, ShownGenerates, LearnGenerates DEF ToldInv
  <2>2. ASSUME FlowInv, StoreInv, ToldInv, UNCHANGED vars PROVE ToldInv'
    BY <2>2 DEF ToldInv, ShownInv, KeptInv, SuccessInv, LastInv, vars
  <2> QED BY <2>1, <2>2, ToldControls DEF Next
<1> QED BY <1>1, <1>2, FlowHolds, StoreHolds, PTL DEF Spec

\* Where no write fails, what a client was shown is stored when its request is over, also
\* if it has left; a client that stays is told of success exactly if the reply is stored.
THEOREM ClientAndStoreAgreeHolds == Spec => []ClientAndStoreAgree
<1>1. FlowInv /\ StoreInv /\ ToldInv => ClientAndStoreAgree
  <2> SUFFICES ASSUME FlowInv, StoreInv, ToldInv PROVE ClientAndStoreAgree
    OBVIOUS
  <2>1. messages \in Seq(Message) /\ AtMostOne(messages) /\ CallsInv(gen, iterator, controller, client.closed)
    BY TypeRows DEF FlowInv, Rest, StoreInv
  <2>2. messages # <<>> => Len(messages) = 1 /\ DOMAIN messages = {1}
    BY <2>1 DEF AtMostOne
  <2>3. messages = <<>> => DOMAIN messages = {}
    OBVIOUS
  <2>4. ShownIsKept
    <3> SUFFICES ASSUME controller = "ended", client.shown, faults = 0 PROVE Kept(gen, messages)
      BY <2>2 DEF ShownIsKept, Kept
    <3>1. gen.pc = "ended"
      BY <2>1 DEF CallsInv
    <3> QED BY <3>1 DEF ToldInv, ShownInv, KeptInv, WillAbort, Unstored
  <2>5. HasSuccess(messages) <=> \E i \in DOMAIN messages : Successful(messages[i])
    BY <2>2, <2>3 DEF HasSuccess
  <2>6. ConnectedClientLearns
    BY <2>5 DEF ConnectedClientLearns, ToldInv, SuccessInv, LastInv
  <2> QED BY <2>4, <2>6 DEF ClientAndStoreAgree
<1> QED BY <1>1, FlowHolds, StoreHolds, ToldHolds, PTL

-----------------------------------------------------------------------------
(* What a streamed completion makes of its failures.                       *)

\* The adapter's own errors of a body, and a connection that is closed: no other provider.
LEMMA BodyFailure ==
  ASSUME NEW type, NEW stage, NEW cause,
         NEW code \in {"MALFORMED_STREAM_CHUNK", "UPSTREAM_STREAM_ERROR"}
  PROVE  ~FallbackEligible(Classify(type, "stream", stage, Own("streaming", code), cause))
<1> DEFINE f == Classify(type, "stream", stage, Own("streaming", code), cause)
<1>1. f.retryable # "yes"
  BY DEF Classify, Own, Error, MalformedCodes, NoStatus
<1>2. f.notFound = FALSE
  BY DEF Classify, Own, Error, MalformedCodes, NoStatus
<1> HIDE DEF f
<1> QED BY <1>1, <1>2 DEF FallbackEligible, f

LEMMA ClosedFailure ==
  ASSUME NEW type, NEW cause
  PROVE  ~FallbackEligible(Classify(type, "stream", "stream_read", Plain("other"), cause))
<1> DEFINE f == Classify(type, "stream", "stream_read", Plain("other"), cause)
<1>1. f.retryable # "yes"
  BY DEF Classify, Plain, Error, MalformedCodes, NoStatus, GenericCode
<1>2. f.notFound = FALSE
  BY DEF Classify, Plain, Error, MalformedCodes, NoStatus, GenericCode
<1> HIDE DEF f
<1> QED BY <1>1, <1>2 DEF FallbackEligible, f

LEMMA ResetFailure ==
  ASSUME NEW type, NEW stage, NEW cause, stage # "response_parse"
  PROVE  FallbackEligible(Classify(type, "stream", stage,
                                   Error("other", "other", "none", NoStatus, "ECONNRESET"), cause))
<1> QED BY DEF FallbackEligible, Classify, Error, MalformedCodes, NoStatus, GenericCode

LEMMA RefusedFailure ==
  ASSUME NEW type, NEW cause, NEW system
  PROVE  FallbackEligible(Classify(type, "stream", "upstream_request",
                                   Error("FetchError", "other", "none", NoStatus, system), cause))
<1> QED BY DEF FallbackEligible, Classify, Error, MalformedCodes, NoStatus, GenericCode

LEMMA DeadlineFailure ==
  ASSUME NEW type, NEW stage
  PROVE  FallbackEligible(Classify(type, "stream", stage,
                                   Error("other", "AbortError", "none", NoStatus, "none"), "deadline"))
<1> QED BY DEF FallbackEligible, Classify, Error, MalformedCodes, NoStatus, GenericCode

LEMMA StatusFailure ==
  ASSUME NEW type, NEW cause, NEW status
  PROVE  FallbackEligible(Classify(type, "stream", "upstream_request",
                                   HttpError(type, "stream", status), cause))
           <=> status \in {404, 429} \cup 500..599
<1> DEFINE e == Error("streaming", "other", "HTTP", status, "none")
           f == Classify(type, "stream", "upstream_request", e, cause)
<1>1. HttpError(type, "stream", status) = e
  BY DEF HttpError, HttpCode
<1>2. CASE status \in 100..599
  <2>1. f.retryable = IF status \in {401, 403} THEN "no" ELSE IF status = 429 THEN "yes"
                      ELSE IF status >= 500 THEN "yes" ELSE "unknown"
    BY <1>2 DEF Classify, Error, MalformedCodes, NoStatus
  <2>2. f.notFound <=> status = 404
    BY <1>2 DEF Classify, Error, MalformedCodes, NoStatus
  <2>3. f.retryable = "yes" <=> status \in {429} \cup 500..599
    <3> HIDE DEF f
    <3>1. status \in Nat /\ status <= 599
      BY <1>2
    <3> QED BY <2>1, <3>1
  <2> HIDE DEF f
  <2> QED BY <2>2, <2>3, <1>1 DEF FallbackEligible, f
<1>3. CASE status \notin 100..599
  <2>1. f.retryable # "yes"
    BY <1>3 DEF Classify, Error, MalformedCodes, NoStatus
  <2>2. f.notFound <=> FALSE
    <3> DEFINE n == IF status \in 100..599 THEN status ELSE NoStatus
    <3>1. f.notFound = (n = 404)
      BY DEF Classify, Error, MalformedCodes
    <3>2. n # 404
      BY <1>3 DEF NoStatus
    <3> QED BY <3>1, <3>2
  <2>3. status \notin {404, 429} \cup 500..599
    BY <1>3
  <2> HIDE DEF f
  <2> QED BY <2>1, <2>2, <2>3, <1>1 DEF FallbackEligible, f
<1> QED BY <1>2, <1>3

\* What failed is known by the verdict, and the generator that failed is over.
Deserved(s, up) ==
  CASE s.cause \in {"refused", "deadline", "reset"} -> s.failure.eligible
    [] s.cause = "status" -> (s.failure.eligible <=> up.status \in {404, 429} \cup 500..599)
    [] s.cause \in {"body", "closed"} -> ~s.failure.eligible
    [] s.cause = "none" -> TRUE
    [] OTHER -> FALSE

StreamFailures ==
  /\ DOMAIN stream = DOMAIN Unused /\ stream.failure.eligible \in BOOLEAN
  /\ Deserved(stream, upstream)

\* A step that says nothing of a failure.
LEMMA SameFailure ==
  ASSUME StreamFailures, NEW s, DOMAIN s = DOMAIN Unused, s.cause = stream.cause,
         s.failure = stream.failure, Becomes(s)
  PROVE  StreamFailures'
<1> QED BY DEF StreamFailures, Deserved, Becomes

\* A step that throws.
LEMMA ThrownIs ==
  ASSUME NEW s, DOMAIN s = DOMAIN Unused, NEW e, NEW cause, cause # "none"
  PROVE  LET t == Thrown(s, e, cause)
             f == Classify(upstream.type, "stream",
                           IF s.pc = "fetch" THEN "upstream_request" ELSE "stream_read", e,
                           IF s.fired THEN "deadline" ELSE "none")
         IN DOMAIN t = DOMAIN Unused /\ t.cause = cause /\ t.failure.eligible = FallbackEligible(f)
            /\ t.failure.eligible \in BOOLEAN
<1> DEFINE f == Classify(upstream.type, "stream",
                           IF s.pc = "fetch" THEN "upstream_request" ELSE "stream_read", e,
                           IF s.fired THEN "deadline" ELSE "none")
           t == Thrown(s, e, cause)
<1>1. DOMAIN t = DOMAIN Unused /\ t.cause = cause /\ t.failure.eligible = FallbackEligible(f)
  BY DEF Thrown, Close, Unused
<1>2. FallbackEligible(f) \in BOOLEAN
  BY DEF FallbackEligible
<1> HIDE DEF f, t
<1> QED BY <1>1, <1>2 DEF f, t

LEMMA ThrownHolds ==
  ASSUME NEW s, DOMAIN s = DOMAIN Unused, NEW e, NEW cause, StreamFailures,
         Becomes(Thrown(s, e, cause)),
         \/ cause = "body" /\ \E code \in {"MALFORMED_STREAM_CHUNK", "UPSTREAM_STREAM_ERROR"} :
                                e = Own("streaming", code)
         \/ cause = "closed" /\ s.pc # "fetch" /\ e = Plain("other")
         \/ cause = "reset" /\ e = Error("other", "other", "none", NoStatus, "ECONNRESET")
         \/ cause = "refused" /\ s.pc = "fetch"
              /\ \E system \in {"none", "ECONNREFUSED"} : e = Error("FetchError", "other", "none", NoStatus, system)
         \/ cause = "deadline" /\ s.fired /\ e = Error("other", "AbortError", "none", NoStatus, "none")
         \/ cause = "status" /\ s.pc = "fetch" /\ e = HttpError(upstream.type, "stream", upstream.status)
  PROVE  StreamFailures'
<1> DEFINE stage == IF s.pc = "fetch" THEN "upstream_request" ELSE "stream_read"
           abort == IF s.fired THEN "deadline" ELSE "none"
           f == Classify(upstream.type, "stream", stage, e, abort)
<1>1. /\ DOMAIN stream' = DOMAIN Unused /\ stream'.cause = cause
      /\ stream'.failure.eligible = FallbackEligible(f) /\ stream'.failure.eligible \in BOOLEAN
      /\ upstream' = upstream
  BY ThrownIs DEF Becomes
<1>2. stage # "response_parse"
  OBVIOUS
<1>3. stage = IF s.pc = "fetch" THEN "upstream_request" ELSE "stream_read"
  OBVIOUS
<1>4. s.fired => abort = "deadline"
  OBVIOUS
<1>5. f = Classify(upstream.type, "stream", stage, e, abort)
  OBVIOUS
<1> HIDE DEF f, stage, abort
<1>6. cause \in {"body", "closed"} => ~FallbackEligible(f)
  BY <1>3, <1>5, BodyFailure, ClosedFailure
<1>7. cause \in {"refused", "deadline", "reset"} => FallbackEligible(f)
  BY <1>2, <1>3, <1>4, <1>5, ResetFailure, RefusedFailure, DeadlineFailure
<1>8. cause = "status" => (FallbackEligible(f) <=> upstream.status \in {404, 429} \cup 500..599)
  BY <1>3, <1>5, StatusFailure
<1>9. stream'.failure.eligible <=> FallbackEligible(f)
  BY <1>1
<1>10. Deserved(stream', upstream')
  <2>1. CASE cause \in {"body", "closed"}
    BY <1>1, <1>6, <1>9, <2>1 DEF Deserved
  <2>2. CASE cause \in {"refused", "deadline", "reset"}
    BY <1>1, <1>7, <1>9, <2>2 DEF Deserved
  <2>3. CASE cause = "status"
    BY <1>1, <1>8, <1>9, <2>3 DEF Deserved
  <2> QED BY <2>1, <2>2, <2>3
<1> QED BY <1>1, <1>10 DEF StreamFailures

LEMMA HandledHolds ==
  ASSUME NEW s, DOMAIN s = DOMAIN Unused, s.cause = stream.cause, s.failure = stream.failure,
         s.pc = "read", NEW kind, StreamFailures, Becomes(Handled(s, kind))
  PROVE  StreamFailures'
<1>1. CASE kind = "bad" /\ upstream.type = "openai"
  <2>1. Handled(s, kind) = Thrown(s, Own("streaming", "MALFORMED_STREAM_CHUNK"), "body")
    BY <1>1 DEF Handled, ChunkKinds
  <2> QED BY <2>1, ThrownHolds
<1>2. CASE ~(kind = "bad" /\ upstream.type = "openai")
  <2> DEFINE t == Handled(s, kind)
  <2>1. t = YieldChunk(s, kind) \/ t = Close(s, "success") \/ t = s
        \/ t = [s EXCEPT !.pc = "last", !.out = Append(@, "end")]
    BY <1>2 DEF Handled
  <2>2. DOMAIN YieldChunk(s, kind) = DOMAIN Unused /\ YieldChunk(s, kind).cause = s.cause
        /\ YieldChunk(s, kind).failure = s.failure
    BY DEF YieldChunk, Unused
  <2>3. DOMAIN Close(s, "success") = DOMAIN Unused /\ Close(s, "success").cause = s.cause
        /\ Close(s, "success").failure = s.failure
    BY DEF Close, Unused
  <2> DEFINE l == [s EXCEPT !.pc = "last", !.out = Append(@, "end")]
  <2>4. DOMAIN l = DOMAIN Unused /\ l.cause = s.cause /\ l.failure = s.failure
    BY DEF Unused
  <2> HIDE DEF t, l
  <2>5. DOMAIN t = DOMAIN Unused /\ t.cause = stream.cause /\ t.failure = stream.failure
    BY <2>1, <2>2, <2>3, <2>4 DEF l
  <2> QED BY <2>5, SameFailure DEF t
<1> QED BY <1>1, <1>2

LEMMA StreamFailuresStep ==
  ASSUME StreamFailures, [StreamNext]_streamVars
  PROVE  StreamFailures'
<1>0. DOMAIN stream = DOMAIN Unused
  BY DEF StreamFailures
<1>1. ASSUME NEW s, s \in {[stream EXCEPT !.pc = "fetch", !.events = <<"started">>],
                           [stream EXCEPT !.pc = "read"], [stream EXCEPT !.pc = "over"],
                           [stream EXCEPT !.fired = TRUE],
                           Close(stream, "success"), Close(stream, "aborted")}, Becomes(s)
      PROVE  StreamFailures'
  <2>1. DOMAIN s = DOMAIN Unused /\ s.cause = stream.cause /\ s.failure = stream.failure
    BY <1>0, <1>1 DEF Close, Unused
  <2> QED BY <1>1, <2>1, SameFailure
<1>2. CASE Start \/ Pull \/ LeaveStream \/ Deadline
  BY <1>1, <1>2 DEF Start, Pull, LeaveStream, Deadline
<1>3. CASE Respond
  <2>1. CASE upstream.status = OK
    BY <1>1, <1>3, <2>1 DEF Respond
  <2>2. CASE upstream.status # OK
    BY <1>0, <1>3, <2>2, ThrownHolds DEF Respond
  <2> QED BY <2>1, <2>2
<1>4. CASE Unreachable
  BY <1>0, <1>4, ThrownHolds DEF Unreachable
<1>5. CASE ReceivePiece
  <2>1. DOMAIN stream' = DOMAIN Unused /\ stream'.cause = stream.cause /\ stream'.failure = stream.failure
        /\ upstream' = upstream
    BY <1>0, <1>5 DEF ReceivePiece, Unused
  <2> QED BY <2>1 DEF StreamFailures, Deserved
<1>6. CASE Break
  <2>1. stream.pc # "fetch"
    BY <1>6 DEF Break, Reading
  <2> QED BY <1>0, <1>6, <2>1, ThrownHolds DEF Break
<1>7. CASE Aborted
  BY <1>0, <1>7, ThrownHolds DEF Aborted
<1>8. CASE TakeFrame
  <2>1. PICK after, kind : Becomes(Handled([stream EXCEPT !.buffer = SubSeq(@, after, Len(@))], kind))
    BY <1>8 DEF TakeFrame
  <2> DEFINE s == [stream EXCEPT !.buffer = SubSeq(@, after, Len(@))]
  <2>2. DOMAIN s = DOMAIN Unused /\ s.cause = stream.cause /\ s.failure = stream.failure /\ s.pc = "read"
    BY <1>0, <1>8 DEF TakeFrame, Unused
  <2> HIDE DEF s
  <2> QED BY <2>1, <2>2, HandledHolds DEF s
<1>9. CASE EndOfBody
  <2>1. CASE stream.buffer = <<>>
    <3>1. Becomes(Thrown(stream, Own("streaming", "UPSTREAM_STREAM_ERROR"), "body"))
          \/ Becomes(Close(stream, "success"))
      BY <1>9, <2>1 DEF EndOfBody, AtEnd
    <3> QED BY <1>0, <1>1, <3>1, ThrownHolds
  <2>2. CASE stream.buffer # <<>>
    <3> DEFINE s == [stream EXCEPT !.buffer = <<>>]
    <3>1. Becomes(Handled(s, Parsed(stream.buffer)))
      BY <1>9, <2>2 DEF EndOfBody
    <3>2. DOMAIN s = DOMAIN Unused /\ s.cause = stream.cause /\ s.failure = stream.failure /\ s.pc = "read"
      BY <1>0, <1>9 DEF EndOfBody, Reading, Unused
    <3> HIDE DEF s
    <3> QED BY <3>1, <3>2, HandledHolds
  <2> QED BY <2>1, <2>2
<1>10. CASE UNCHANGED streamVars
  BY <1>10 DEF streamVars, StreamFailures, Deserved
<1> QED BY <1>2, <1>3, <1>4, <1>5, <1>6, <1>7, <1>8, <1>9, <1>10 DEF StreamNext

\* A stream goes to another provider exactly for what that one may do better, whatever
\* had gone wrong besides when the error was classified.
THEOREM StreamFallbackIsDeservedAlways == StreamSpec => []StreamFallbackIsDeserved
<1>1. StreamInit => StreamFailures
  <2>1. StreamInit => stream = Unused
    BY DEF StreamInit
  <2>2. Unused.failure.eligible = FALSE /\ Unused.cause = "none"
    BY DEF Unused, NoFailure
  <2> QED BY <2>1, <2>2 DEF StreamFailures, Deserved
<1>2. StreamFailures => StreamFallbackIsDeserved
  <2> SUFFICES ASSUME StreamFailures, stream.cause # "none"
               PROVE CASE stream.cause \in {"refused", "deadline", "reset"} -> stream.failure.eligible
                       [] stream.cause = "status" ->
                            stream.failure.eligible = (upstream.status \in {404, 429} \cup 500..599)
                       [] OTHER -> ~stream.failure.eligible
    BY DEF StreamFallbackIsDeserved
  <2>1. CASE stream.cause \in {"refused", "deadline", "reset"}
    BY <2>1 DEF StreamFailures, Deserved
  <2>2. CASE stream.cause = "status"
    BY <2>2 DEF StreamFailures, Deserved
  <2>3. CASE stream.cause \in {"body", "closed"}
    BY <2>3 DEF StreamFailures, Deserved
  <2>4. stream.cause \in {"refused", "deadline", "reset", "status", "body", "closed"}
    BY DEF StreamFailures, Deserved
  <2> QED BY <2>1, <2>2, <2>3, <2>4
<1> QED BY <1>1, <1>2, StreamFailuresStep, PTL DEF StreamSpec

-----------------------------------------------------------------------------
(* What a call with one answer makes of its failures.                      *)

Adapted == {"initialise", "listModels", "complete", "embed", "pullModel"}
Stage == {"upstream_request", "response_parse"}

\* What an adapter throws, by what ended the call at which stage.
Raised(type, op, pc, cause, status, e) ==
  \/ cause = "status" /\ pc = "asking" /\ e = HttpError(type, op, status)
  \/ cause = "refused" /\ pc = "asking"
       /\ \E system \in {"none", "ECONNREFUSED"} : e = Error("FetchError", "other", "none", NoStatus, system)
  \/ cause = "body" /\ pc = "reading"
       /\ e \in {FromJson(type, op, Plain("SyntaxError")), Plain("TypeError"), WrongShape(type, op)}
  \/ cause = "reset" /\ pc = "reading"
       /\ e = FromJson(type, op, Error("FetchError", "other", "none", NoStatus, "ECONNRESET"))
  \/ cause \in {"deadline", "caller"} /\ pc = "asking"
       /\ e = Error("other", "AbortError", "none", NoStatus, "none")
  \/ cause \in {"deadline", "caller"} /\ pc = "reading"
       /\ e = FromJson(type, op, Error("other", "AbortError", "none", NoStatus, "none"))

\* A malformed body of a completion is never for another provider.
LEMMA MalformedCompletion ==
  ASSUME NEW type, NEW cause
  PROVE  /\ ~FallbackEligible(Classify(type, "complete", "response_parse", Plain("SyntaxError"), cause))
         /\ ~FallbackEligible(Classify(type, "complete", "response_parse", Plain("TypeError"), cause))
         /\ ~FallbackEligible(Classify(type, "complete", "response_parse",
                                       Own("provider", "MALFORMED_RESPONSE"), cause))
<1>1. ASSUME NEW class \in {"SyntaxError", "TypeError"}
      PROVE  ~FallbackEligible(Classify(type, "complete", "response_parse", Plain(class), cause))
  <2> DEFINE f == Classify(type, "complete", "response_parse", Plain(class), cause)
  <2>1. f.retryable # "yes"
    BY DEF Classify, Plain, Error, MalformedCodes, NoStatus, GenericCode
  <2>2. f.notFound = FALSE
    BY DEF Classify, Plain, Error, MalformedCodes, NoStatus, GenericCode
  <2> HIDE DEF f
  <2> QED BY <2>1, <2>2 DEF FallbackEligible, f
<1>2. ~FallbackEligible(Classify(type, "complete", "response_parse",
                                 Own("provider", "MALFORMED_RESPONSE"), cause))
  <2> DEFINE f == Classify(type, "complete", "response_parse", Own("provider", "MALFORMED_RESPONSE"), cause)
  <2>1. f.retryable # "yes"
    BY DEF Classify, Own, Error, MalformedCodes, NoStatus
  <2>2. f.notFound = FALSE
    BY DEF Classify, Own, Error, MalformedCodes, NoStatus
  <2> HIDE DEF f
  <2> QED BY <2>1, <2>2 DEF FallbackEligible, f
<1> QED BY <1>1, <1>2

\* Nor is a call that its caller has cancelled.
LEMMA CancelledCompletion ==
  ASSUME NEW type, NEW stage
  PROVE  ~FallbackEligible(Classify(type, "complete", stage,
            Error("other", "AbortError", "none", NoStatus, "none"), "local_cancel"))
<1> DEFINE f == Classify(type, "complete", stage, Error("other", "AbortError", "none", NoStatus, "none"),
                         "local_cancel")
<1>1. f.retryable # "yes"
  BY DEF Classify, Error, MalformedCodes, NoStatus, GenericCode
<1>2. f.notFound = FALSE
  BY DEF Classify, Error, MalformedCodes, NoStatus, GenericCode
<1> HIDE DEF f
<1> QED BY <1>1, <1>2 DEF FallbackEligible, f

\* A status is, if it is that of an upstream that has no such model or is overloaded.
LEMMA HttpCompletion ==
  ASSUME NEW type, NEW cause, NEW status
  PROVE  FallbackEligible(Classify(type, "complete", "upstream_request",
                                   Error("provider", "other", "HTTP", status, "none"), cause))
           => status \in {404, 429} \cup 500..599
<1> DEFINE e == Error("provider", "other", "HTTP", status, "none")
           f == Classify(type, "complete", "upstream_request", e, cause)
<1>1. CASE status \in 100..599
  <2>1. f.retryable = IF status \in {401, 403} THEN "no" ELSE IF status = 429 THEN "yes"
                      ELSE IF status >= 500 THEN "yes" ELSE "unknown"
    BY <1>1 DEF Classify, Error, MalformedCodes, NoStatus
  <2>2. f.notFound <=> status = 404
    BY <1>1 DEF Classify, Error, MalformedCodes, NoStatus
  <2>3. f.retryable = "yes" <=> status \in {429} \cup 500..599
    <3> HIDE DEF f
    <3>1. status \in Nat /\ status <= 599
      BY <1>1
    <3> QED BY <2>1, <3>1
  <2> HIDE DEF f
  <2> QED BY <2>2, <2>3 DEF FallbackEligible, f
<1>2. CASE status \notin 100..599
  <2>1. f.retryable # "yes"
    BY <1>2 DEF Classify, Error, MalformedCodes, NoStatus
  <2>2. f.notFound <=> FALSE
    <3> DEFINE n == IF status \in 100..599 THEN status ELSE NoStatus
    <3>1. f.notFound = (n = 404)
      BY DEF Classify, Error, MalformedCodes
    <3>2. n # 404
      BY <1>2 DEF NoStatus
    <3> QED BY <3>1, <3>2
  <2> HIDE DEF f
  <2> QED BY <2>1, <2>2 DEF FallbackEligible, f
<1> QED BY <1>1, <1>2

LEMMA StatusCompletion ==
  ASSUME NEW type, NEW cause, NEW status,
         FallbackEligible(Classify(type, "complete", "upstream_request",
                                   HttpError(type, "complete", status), cause))
  PROVE  status \in {404, 429} \cup 500..599
<1> DEFINE f(code) == Classify(type, "complete", "upstream_request",
                               Error("provider", "other", code, status, "none"), cause)
<1>1. HttpError(type, "complete", status) \in
        {Error("provider", "other", "HTTP", status, "none"),
         Error("provider", "other", "AUTHENTICATION_ERROR", status, "none"),
         Error("provider", "other", "RATE_LIMITED", status, "none")}
      /\ (HttpError(type, "complete", status) = Error("provider", "other", "RATE_LIMITED", status, "none")
           => status = 429)
  BY DEF HttpError, HttpCode, Error
<1>2. ~FallbackEligible(f("AUTHENTICATION_ERROR"))
  <2>1. f("AUTHENTICATION_ERROR").retryable # "yes"
    BY DEF Classify, Error, MalformedCodes, NoStatus
  <2>2. f("AUTHENTICATION_ERROR").notFound = FALSE
    BY DEF Classify, Error, MalformedCodes, NoStatus
  <2> HIDE DEF f
  <2> QED BY <2>1, <2>2 DEF FallbackEligible
<1> QED BY <1>1, <1>2, HttpCompletion

\* A completion goes to another provider for nothing but what this one could not answer.
LEMMA CompletionEligible ==
  ASSUME NEW type \in ProviderTypes, NEW pc \in {"asking", "reading"}, NEW cause, NEW status, NEW e,
         NEW aborted, Raised(type, "complete", pc, cause, status, e),
         cause = "caller" => aborted = "local_cancel",
         FallbackEligible(Classify(type, "complete",
            IF pc = "asking" THEN "upstream_request" ELSE "response_parse", e, aborted))
  PROVE  cause \in {"refused", "reset", "deadline"}
         \/ (cause = "status" /\ status \in {404, 429} \cup 500..599)
<1>1. CASE cause = "status"
  BY <1>1, StatusCompletion DEF Raised
<1>2. CASE cause = "body"
  <2>1. pc = "reading"
    BY <1>2 DEF Raised
  <2>2. e \in {Plain("SyntaxError"), Plain("TypeError"), Own("provider", "MALFORMED_RESPONSE")}
    BY <1>2 DEF Raised, FromJson, WrongShape, MalformedCode
  <2> QED BY <2>1, <2>2, MalformedCompletion
<1>3. CASE cause = "caller"
  <2>1. e = Error("other", "AbortError", "none", NoStatus, "none")
        \/ (pc = "reading" /\ e = Own("provider", "MALFORMED_RESPONSE"))
    BY <1>3 DEF Raised, FromJson, MalformedCode
  <2> QED BY <1>3, <2>1, MalformedCompletion, CancelledCompletion
<1> QED BY <1>1, <1>2, <1>3 DEF Raised

\* An abort is called by its cause, or has been taken for malformed JSON.
LEMMA AbortNamed ==
  ASSUME NEW type \in ProviderTypes, NEW op \in Adapted, Capable(type, op),
         NEW pc \in {"asking", "reading"}, NEW cause \in {"deadline", "caller"}, NEW status, NEW e,
         NEW stage, Raised(type, op, pc, cause, status, e),
         NEW aborted, aborted = IF cause = "caller" THEN "local_cancel" ELSE "deadline"
  PROVE  LET f == Classify(type, op, stage, e, aborted) IN
         \/ PublicCode(Normalized(f.error)) \in MalformedCodes
         \/ f.category = IF cause = "deadline" THEN "timeout" ELSE "cancelled"
<1> DEFINE abort == Error("other", "AbortError", "none", NoStatus, "none")
<1>1. e = abort \/ \E code \in MalformedCodes : e = Own("provider", code)
  <2>1. CASE pc = "asking"
    BY <2>1 DEF Raised
  <2>2. CASE pc = "reading" /\ (type = "openai" \/ op = "embed")
    <3>1. e = Own("provider", MalformedCode[op])
      BY <2>2 DEF Raised, FromJson
    <3>2. op \in {"initialise", "listModels", "complete", "embed"}
      BY <2>2 DEF Capable, Adapted
    <3>3. MalformedCode[op] \in MalformedCodes
      BY <3>2 DEF MalformedCode, MalformedCodes
    <3> QED BY <3>1, <3>3
  <2>3. CASE pc = "reading" /\ ~(type = "openai" \/ op = "embed")
    BY <2>3 DEF Raised, FromJson
  <2> QED BY <2>1, <2>2, <2>3
<1>2. CASE e = abort
  BY <1>2 DEF Classify, Error
<1>3. ASSUME NEW code \in MalformedCodes, e = Own("provider", code)
      PROVE  PublicCode(Normalized(Classify(type, op, stage, e, aborted).error)) \in MalformedCodes
  <2>1. Classify(type, op, stage, e, aborted).error = e
    BY <1>3 DEF Classify, Own, Error, Adapted
  <2>2. PublicCode(Normalized(e)) = code
    BY <1>3 DEF Normalized, PublicCode, Own, Error, PublicErrors, MalformedCodes
  <2> QED BY <2>1, <2>2
<1> QED BY <1>1, <1>2, <1>3

-----------------------------------------------------------------------------
(* The calls.                                                              *)

Codes == {"none"} \cup PublicErrors
         \cup {"PROVIDER_AUTHENTICATION_ERROR", "HEALTH_CHECK_FAILED", "HTTP",
               "LLM_PROVIDER_CAPABILITY_UNSUPPORTED", "ADAPTER_UNAVAILABLE"}
Categories == {"none", "cancelled", "timeout", "malformed_response", "capability", "invalid_request",
               "authentication", "rate_limit", "http", "connection", "stream", "unknown"}
ResultState == [status : {"none", "success", "empty", "error", "skipped", "rejected"},
                code : Codes, category : Categories, eligible : BOOLEAN]
CallCauses == {"none", "answered", "status", "refused", "body", "reset", "deadline", "caller"}
AskState == [pc : {"off", "asking", "reading", "sampling", "done"}, fired : BOOLEAN, cancelled : BOOLEAN,
             first : {"none", "deadline", "caller"}, cause : CallCauses,
             status : CallStatuses \cup {NoStatus}, result : ResultState, sample : ResultState]

CallTyped ==
  /\ configs \in [Called -> Config] /\ adapters \subseteq ProviderTypes
  /\ request \in [op : Requests \cup {"none"}, answered : BOOLEAN]
  /\ asks \in [Called -> AskState]

\* The signals that fired are remembered in their order, and what is in flight was asked of
\* a provider that can do it, and is not sampled yet.
Flying(a, config, op) ==
  /\ a.first # "none" => a.fired \/ a.cancelled
  /\ a.first = "caller" => a.cancelled
  /\ a.pc \in {"asking", "reading"} =>
       op \in Requests /\ Capable(config.type, OperationOf[op]) /\ a.sample = NoResult

\* What the result says of how the call ended.
Truthful(a, config, op) ==
  /\ op \in Requests => (OperationOf[op] = "complete" /\ a.result.eligible => Transient(a))
  /\ "success" \in {a.result.status, a.sample.status} =>
       a.cause = "answered" \/ (op = "test" /\ ~config.enabled)
  /\ a.cause = "answered" /\ op # "previewTest" => a.result.status # "error"
  /\ a.cause \in {"deadline", "caller"} /\ a.result.code \notin MalformedCodes =>
       a.result.category = (IF a.cause = "deadline" THEN "timeout" ELSE "cancelled")

CallsTrue ==
  CallTyped /\ \A p \in Called : /\ Flying(asks[p], configs[p], request.op)
                                 /\ Truthful(asks[p], configs[p], request.op)

LEMMA AskChanges ==
  ASSUME CallsTrue, Stays, NEW p \in Called, NEW a \in AskState, asks' = [asks EXCEPT ![p] = a],
         Flying(a, configs[p], request.op), Truthful(a, configs[p], request.op)
  PROVE  CallsTrue'
<1>1. UNCHANGED <<configs, adapters, request>> /\ asks \in [Called -> AskState]
  BY DEF Stays, CallsTrue, CallTyped
<1>2. asks' \in [Called -> AskState] /\ asks'[p] = a /\ \A q \in Called \ {p} : asks'[q] = asks[q]
  BY <1>1
<1>3. CallTyped'
  BY <1>1, <1>2 DEF CallsTrue, CallTyped
<1>4. ASSUME NEW q \in Called PROVE Flying(asks'[q], configs'[q], request'.op)
                                    /\ Truthful(asks'[q], configs'[q], request'.op)
  BY <1>1, <1>2 DEF CallsTrue
<1> QED BY <1>3, <1>4 DEF CallsTrue


\* A diagnosis is one of the categories, and what the public is told is on its list.
LEMMA FailureResults ==
  ASSUME NEW type, NEW op, NEW stage, NEW e, NEW aborted
  PROVE  LET f == Classify(type, op, stage, e, aborted) IN
         [status |-> "error", code |-> PublicCode(Normalized(f.error)), category |-> f.category,
          eligible |-> FallbackEligible(f)] \in ResultState
<1> DEFINE f == Classify(type, op, stage, e, aborted)
<1>1. f.category \in Categories
  BY DEF Classify, Categories
<1> HIDE DEF f
<1>2. FallbackEligible(f) \in BOOLEAN
  BY DEF FallbackEligible
<1>3. PublicCode(Normalized(f.error)) \in Codes
  BY DEF PublicCode, Codes
<1>4. \A c \in Codes, g \in Categories, x \in BOOLEAN :
        [status |-> "error", code |-> c, category |-> g, eligible |-> x] \in ResultState
  BY DEF ResultState
<1> QED BY <1>1, <1>2, <1>3, <1>4, Zenon DEF f

LEMMA FailsHolds ==
  ASSUME CallsTrue, Stays, NEW p \in Called, InFlight(p), NEW e, NEW cause, NEW status,
         status \in CallStatuses \cup {NoStatus},
         Raised(configs[p].type, Operation, asks[p].pc, cause, status, e),
         cause \in {"deadline", "caller"} => cause = asks[p].first,
         Fails(p, e, cause, status)
  PROVE  CallsTrue'
<1> DEFINE a == asks[p]
           aborted == AbortCause(a.fired, a.cancelled, a.first)
           stage == StageOf(p)
           f == Classify(configs[p].type, Operation, stage, e, aborted)
           r == [status |-> "error", code |-> PublicCode(Normalized(f.error)),
                 category |-> f.category, eligible |-> FallbackEligible(f)]
           pc == IF request.op \in Sampled THEN "sampling" ELSE "done"
           b == [[a EXCEPT !.cause = cause, !.status = status] EXCEPT !.result = r, !.pc = pc]
<1>1. asks' = [asks EXCEPT ![p] = b]
  BY DEF Fails, SettleAsk
<1>2. a \in AskState /\ Flying(a, configs[p], request.op) /\ a.pc \in {"asking", "reading"}
      /\ configs[p] \in Config
  BY DEF CallsTrue, CallTyped, InFlight
<1>3. cause \in CallCauses /\ cause \notin {"none", "answered"}
  BY DEF Raised, CallCauses
<1>4. pc \in {"sampling", "done"}
  OBVIOUS
<1>5. f = Classify(configs[p].type, Operation, stage, e, aborted) /\ a.pc = asks[p].pc /\ a.first = asks[p].first
      /\ aborted = AbortCause(a.fired, a.cancelled, a.first) /\ stage = StageOf(p)
      /\ r = [status |-> "error", code |-> PublicCode(Normalized(f.error)),
                 category |-> f.category, eligible |-> FallbackEligible(f)]
      /\ a.sample = asks[p].sample /\ a = asks[p]
  OBVIOUS
<1>6. r \in ResultState
  BY FailureResults
<1> HIDE DEF f, r, pc, a, aborted, stage
<1>7. /\ b \in AskState /\ b.cause = cause /\ b.status = status /\ b.result = r /\ b.pc = pc
      /\ b.sample = a.sample /\ b.fired = a.fired /\ b.cancelled = a.cancelled /\ b.first = a.first
  <2>1. a \in AskState /\ cause \in CallCauses /\ status \in CallStatuses \cup {NoStatus}
        /\ pc \in {"sampling", "done"} /\ r \in ResultState
    BY <1>2, <1>3, <1>4, <1>6
  <2> QED BY <2>1 DEF AskState
<1> HIDE DEF b
<1>8. Flying(b, configs[p], request.op)
  BY <1>2, <1>4, <1>7 DEF Flying
<1>9. request.op \in Requests /\ Capable(configs[p].type, Operation) /\ configs[p].type \in ProviderTypes
  BY <1>2 DEF Flying, Operation, Config
<1>10. cause = "caller" => aborted = "local_cancel"
  BY <1>2, <1>5 DEF Flying, AbortCause
<1>11. cause = "deadline" => aborted = "deadline"
  BY <1>2, <1>5 DEF Flying, AbortCause
<1>12. r.status = "error" /\ (r.eligible <=> FallbackEligible(f)) /\ r.category = f.category
       /\ r.code = PublicCode(Normalized(f.error))
  BY <1>5
<1>13. Operation = "complete" /\ r.eligible => Transient(b)
  <2> SUFFICES ASSUME Operation = "complete", FallbackEligible(f) PROVE Transient(b)
    BY <1>12
  <2>1. stage = IF a.pc = "asking" THEN "upstream_request" ELSE "response_parse"
    BY <1>5 DEF StageOf
  <2>2. cause \in {"refused", "reset", "deadline"}
        \/ (cause = "status" /\ status \in {404, 429} \cup 500..599)
    BY <1>2, <1>5, <1>9, <1>10, <2>1, CompletionEligible
  <2> QED BY <1>7, <2>2 DEF Transient
<1>14. cause \in {"deadline", "caller"} /\ r.code \notin MalformedCodes =>
         r.category = (IF cause = "deadline" THEN "timeout" ELSE "cancelled")
  <2>1. Operation \in Adapted
    BY <1>9 DEF Operation, Requests, OperationOf, Adapted
  <2> SUFFICES ASSUME cause \in {"deadline", "caller"}, r.code \notin MalformedCodes
               PROVE  r.category = (IF cause = "deadline" THEN "timeout" ELSE "cancelled")
    OBVIOUS
  <2>2. aborted = IF cause = "caller" THEN "local_cancel" ELSE "deadline"
    BY <1>10, <1>11
  <2> QED BY <1>2, <1>5, <1>9, <1>12, <2>1, <2>2, AbortNamed
<1>15. a.sample.status = "success" => request.op = "test" /\ ~configs[p].enabled
  BY <1>2 DEF Flying, NoResult, Result
<1>16. Truthful(b, configs[p], request.op)
  BY <1>3, <1>7, <1>9, <1>12, <1>13, <1>14, <1>15 DEF Truthful, Operation
<1> QED BY <1>1, <1>7, <1>8, <1>16, AskChanges

\* An answer, of whatever worth.
LEMMA AnsweredHolds ==
  ASSUME CallsTrue, Stays, NEW p \in Called, InFlight(p), NEW word \in {"success", "empty", "error"},
         word = "error" => request.op = "previewTest",
         SettleAsk(p, [asks[p] EXCEPT !.cause = "answered"], Result(word, "none"))
  PROVE  CallsTrue'
<1> DEFINE a == asks[p]
           r == Result(word, "none")
           pc == IF request.op \in Sampled THEN "sampling" ELSE "done"
           b == [[a EXCEPT !.cause = "answered"] EXCEPT !.result = r, !.pc = pc]
<1>1. asks' = [asks EXCEPT ![p] = b]
  BY DEF SettleAsk
<1>2. a \in AskState /\ Flying(a, configs[p], request.op)
  BY DEF CallsTrue, CallTyped
<1>3. r \in ResultState /\ r.status = word /\ r.eligible = FALSE
  BY DEF Result, ResultState, Codes, Categories
<1>4. pc \in {"sampling", "done"}
  OBVIOUS
<1> HIDE DEF a, r, pc
<1>5. /\ b \in AskState /\ b.cause = "answered" /\ b.result = r /\ b.pc = pc
      /\ b.fired = a.fired /\ b.cancelled = a.cancelled /\ b.first = a.first
  BY <1>2, <1>3, <1>4 DEF AskState, CallCauses
<1> HIDE DEF b
<1>6. Flying(b, configs[p], request.op)
  BY <1>2, <1>4, <1>5 DEF Flying
<1>7. Truthful(b, configs[p], request.op)
  BY <1>3, <1>5 DEF Truthful
<1> QED BY <1>1, <1>5, <1>6, <1>7, AskChanges

\* What is decided before a provider is asked.
LEMMA BeforeIs ==
  ASSUME NEW op \in Requests, NEW config \in Config
  PROVE  LET r == Before(op, config) IN
         /\ r \in ResultState /\ r.eligible = FALSE
         /\ r.status = "success" => op = "test" /\ ~config.enabled
         /\ r = NoResult => Capable(config.type, OperationOf[op])
<1> DEFINE r == Before(op, config)
<1>1. \/ r = Result("rejected", "none") \/ r = Result("error", "LLM_PROVIDER_CAPABILITY_UNSUPPORTED")
      \/ r = Result("error", "ADAPTER_UNAVAILABLE") \/ r = Result("skipped", "none")
      \/ r = Result("success", "none") /\ op = "test" /\ ~config.enabled
      \/ r = NoResult /\ Capable(config.type, OperationOf[op])
  BY DEF Before, Probes
<1>2. \A status \in {"none", "success", "empty", "error", "skipped", "rejected"}, code \in Codes :
        /\ Result(status, code) \in ResultState /\ Result(status, code).eligible = FALSE
        /\ Result(status, code).status = status
  BY DEF Result, ResultState, Categories
<1>3. {"none", "LLM_PROVIDER_CAPABILITY_UNSUPPORTED", "ADAPTER_UNAVAILABLE"} \subseteq Codes
  BY DEF Codes
<1> HIDE DEF r
<1>4. NoResult = Result("none", "none")
  BY DEF NoResult
<1>5. r = NoResult => Capable(config.type, OperationOf[op])
  <2>1. \A word \in {"success", "error", "skipped", "rejected"}, code \in Codes : Result(word, code) # NoResult
    BY <1>2, <1>3, <1>4
  <2> QED BY <1>1, <1>3, <2>1
<1> QED BY <1>1, <1>2, <1>3, <1>4, <1>5 DEF r

LEMMA UnaskedIs ==
  /\ Unasked \in AskState /\ Unasked.pc = "off" /\ Unasked.sample = NoResult
  /\ \A config, op : Flying(Unasked, config, op) /\ Truthful(Unasked, config, op)
<1>1. NoResult \in ResultState /\ NoResult.eligible = FALSE /\ NoResult.status = "none"
  BY DEF NoResult, Result, ResultState, Codes, Categories
<1>2. Unasked \in AskState /\ Unasked.pc = "off" /\ Unasked.first = "none" /\ Unasked.cause = "none"
      /\ Unasked.result = NoResult /\ Unasked.sample = NoResult
  BY <1>1 DEF Unasked, AskState, CallCauses
<1> QED BY <1>1, <1>2 DEF Flying, Truthful

LEMMA AskHolds ==
  ASSUME CallsTrue, NEW op \in Requests, NEW targets, Ask(op, targets)
  PROVE  CallsTrue'
<1>1. request' = [op |-> op, answered |-> FALSE] /\ UNCHANGED <<configs, adapters>>
      /\ configs \in [Called -> Config] /\ adapters \subseteq ProviderTypes
  BY DEF Ask, CallsTrue, CallTyped
<1> DEFINE after(p) == LET r == Before(op, configs[p])
                IN IF p \notin targets THEN Unasked
                   ELSE IF r = NoResult THEN [Unasked EXCEPT !.pc = "asking"]
                   ELSE [Unasked EXCEPT !.pc = IF op \in Sampled THEN "sampling" ELSE "done",
                                        !.result = r]
<1>2. asks' = [p \in Called |-> after(p)]
  BY DEF Ask
<1>3. ASSUME NEW p \in Called
      PROVE  after(p) \in AskState /\ Flying(after(p), configs[p], op) /\ Truthful(after(p), configs[p], op)
  <2> DEFINE r == Before(op, configs[p])
             pc == IF op \in Sampled THEN "sampling" ELSE "done"
             b == [Unasked EXCEPT !.pc = pc, !.result = r]
             c == [Unasked EXCEPT !.pc = "asking"]
  <2>1. /\ r \in ResultState /\ r.eligible = FALSE
        /\ r.status = "success" => op = "test" /\ ~configs[p].enabled
        /\ r = NoResult => Capable(configs[p].type, OperationOf[op])
    BY <1>1, BeforeIs
  <2>2. after(p) = Unasked \/ (after(p) = c /\ r = NoResult) \/ after(p) = b
    OBVIOUS
  <2>3. pc \in {"sampling", "done"}
    OBVIOUS
  <2>4. Unasked \in AskState /\ Unasked.first = "none" /\ Unasked.cause = "none"
        /\ Unasked.result = NoResult /\ Unasked.sample = NoResult
    BY UnaskedIs DEF Unasked
  <2>5. NoResult.eligible = FALSE /\ NoResult.status = "none"
    BY DEF NoResult, Result
  <2> HIDE DEF after, r, pc
  <2>6. b \in AskState /\ b.pc = pc /\ b.result = r /\ b.first = "none" /\ b.cause = "none" /\ b.sample = NoResult
    BY <2>1, <2>3, <2>4 DEF AskState
  <2>7. c \in AskState /\ c.pc = "asking" /\ c.first = "none" /\ c.cause = "none"
        /\ c.result = NoResult /\ c.sample = NoResult
    BY <2>4 DEF AskState
  <2> HIDE DEF b, c
  <2>8. Flying(b, configs[p], op) /\ Truthful(b, configs[p], op)
    BY <2>1, <2>3, <2>5, <2>6 DEF Flying, Truthful
  <2>9. r = NoResult => Flying(c, configs[p], op) /\ Truthful(c, configs[p], op)
    BY <2>1, <2>5, <2>7 DEF Flying, Truthful
  <2> QED BY <2>2, <2>6, <2>7, <2>8, <2>9, UnaskedIs
<1> HIDE DEF after
<1> QED BY <1>1, <1>2, <1>3 DEF CallsTrue, CallTyped

LEMMA FireHolds ==
  ASSUME CallsTrue, Stays, NEW p \in Called, InFlight(p), NEW signal \in {"deadline", "caller"},
         Fire(p, signal)
  PROVE  CallsTrue'
<1> DEFINE a == asks[p]
           first == IF a.first = "none" THEN signal ELSE a.first
           fired == a.fired \/ signal = "deadline"
           cancelled == a.cancelled \/ signal = "caller"
           b == [a EXCEPT !.first = first, !.fired = fired, !.cancelled = cancelled]
<1>0. asks \in [Called -> AskState]
  BY DEF CallsTrue, CallTyped
<1>1. asks' = [asks EXCEPT ![p] = b]
  BY <1>0 DEF Fire, AskState
<1>2. a \in AskState /\ Flying(a, configs[p], request.op) /\ Truthful(a, configs[p], request.op)
  BY <1>0 DEF CallsTrue
<1>3. first \in {"deadline", "caller"} /\ (first = "caller" => a.cancelled \/ signal = "caller")
      /\ fired \in BOOLEAN /\ cancelled \in BOOLEAN
  BY <1>2 DEF AskState, Flying
<1> HIDE DEF a, first
<1>4. b \in AskState /\ b.pc = a.pc /\ b.cause = a.cause /\ b.result = a.result /\ b.sample = a.sample
      /\ b.status = a.status /\ b.first = first /\ b.fired = fired /\ b.cancelled = cancelled
  BY <1>2, <1>3 DEF AskState
<1> HIDE DEF b
<1>5. Truthful(b, configs[p], request.op)
  BY <1>2, <1>4 DEF Truthful, Transient
<1>6. Flying(b, configs[p], request.op)
  BY <1>2, <1>3, <1>4 DEF Flying
<1> QED BY <1>1, <1>4, <1>5, <1>6, AskChanges

LEMMA CallsTrueStep ==
  ASSUME CallsTrue, [CallNext]_callVars
  PROVE  CallsTrue'
<1>0. /\ configs \in [Called -> Config] /\ asks \in [Called -> AskState]
      /\ request \in [op : Requests \cup {"none"}, answered : BOOLEAN]
  BY DEF CallsTrue, CallTyped
<1>1. CASE UNCHANGED callVars
  BY <1>1 DEF callVars, CallsTrue, CallTyped, Flying, Truthful, Transient
<1>2. CASE ListAll \/ AskOne
  <2>1. \E op \in Requests : \E targets \in SUBSET Called : Ask(op, targets)
    BY <1>2 DEF ListAll, AskOne, Requests, OperationOf
  <2> QED BY <2>1, AskHolds
<1>3. CASE AnswerCall
  <2>1. request' \in [op : Requests \cup {"none"}, answered : BOOLEAN] /\ request'.op = request.op
        /\ UNCHANGED <<configs, adapters, asks>>
    BY <1>0, <1>3 DEF AnswerCall
  <2> QED BY <2>1 DEF CallsTrue, CallTyped
<1>4. CASE Forget
  <2>1. request' = [op |-> "none", answered |-> FALSE] /\ asks' = [p \in Called |-> Unasked]
        /\ UNCHANGED <<configs, adapters>>
    BY <1>4 DEF Forget
  <2>2. CallTyped'
    BY <2>1, UnaskedIs DEF CallsTrue, CallTyped
  <2> QED BY <2>1, <2>2, UnaskedIs DEF CallsTrue
<1>5. ASSUME NEW p \in Called, Headers(p) PROVE CallsTrue'
  <2>1. InFlight(p) /\ Stays /\ asks[p].pc = "asking"
    BY <1>5 DEF Headers, InFlight
  <2>2. CASE asks' = [asks EXCEPT ![p].pc = "reading"]
    <3> DEFINE a == asks[p]
               b == [a EXCEPT !.pc = "reading"]
    <3>1. asks' = [asks EXCEPT ![p] = b]
      BY <1>0, <2>2
    <3>2. a \in AskState /\ Flying(a, configs[p], request.op) /\ Truthful(a, configs[p], request.op)
          /\ a.pc = "asking"
      BY <2>1 DEF CallsTrue, CallTyped
    <3> HIDE DEF a
    <3>3. b \in AskState /\ b.pc = "reading" /\ b.cause = a.cause /\ b.result = a.result
          /\ b.sample = a.sample /\ b.status = a.status /\ b.first = a.first /\ b.fired = a.fired
          /\ b.cancelled = a.cancelled
      BY <3>2 DEF AskState
    <3> HIDE DEF b
    <3>4. Flying(b, configs[p], request.op)
      BY <3>2, <3>3 DEF Flying
    <3>5. Truthful(b, configs[p], request.op)
      BY <3>2, <3>3 DEF Truthful, Transient
    <3> QED BY <2>1, <3>1, <3>3, <3>4, <3>5, AskChanges
  <2>3. CASE Succeeds(p)
    BY <2>1, <2>3, AnsweredHolds DEF Succeeds
  <2>4. ASSUME NEW s \in CallStatuses, Fails(p, HttpError(configs[p].type, Operation, s), "status", s)
        PROVE  CallsTrue'
    <3>1. Raised(configs[p].type, Operation, asks[p].pc, "status", s, HttpError(configs[p].type, Operation, s))
      BY <2>1 DEF Raised
    <3> QED BY <2>1, <2>4, <3>1, FailsHolds
  <2> QED BY <1>5, <2>2, <2>3, <2>4 DEF Headers
<1>6. ASSUME NEW p \in Called, CannotConnect(p) PROVE CallsTrue'
  <2>1. InFlight(p) /\ Stays /\ asks[p].pc = "asking"
    BY <1>6 DEF CannotConnect, InFlight
  <2>2. PICK system \in {"none", "ECONNREFUSED"} :
          Fails(p, Error("FetchError", "other", "none", NoStatus, system), "refused", NoStatus)
    BY <1>6 DEF CannotConnect
  <2>3. Raised(configs[p].type, Operation, asks[p].pc, "refused", NoStatus,
               Error("FetchError", "other", "none", NoStatus, system))
    BY <2>1 DEF Raised
  <2> QED BY <2>1, <2>2, <2>3, FailsHolds
<1>7. ASSUME NEW p \in Called, Body(p) PROVE CallsTrue'
  <2>1. InFlight(p) /\ Stays /\ asks[p].pc = "reading"
    BY <1>7 DEF Body, InFlight
  <2>2. CASE Succeeds(p)
    BY <2>1, <2>2, AnsweredHolds DEF Succeeds
  <2>3. CASE AnswersNothing(p)
    BY <2>1, <2>3, AnsweredHolds DEF AnswersNothing
  <2>4. ASSUME NEW e \in {FromJson(configs[p].type, Operation, Plain("SyntaxError")), Plain("TypeError"),
                          WrongShape(configs[p].type, Operation)},
               Fails(p, e, "body", NoStatus)
        PROVE  CallsTrue'
    <3>1. Raised(configs[p].type, Operation, asks[p].pc, "body", NoStatus, e)
      BY <2>1, <2>4 DEF Raised
    <3> QED BY <2>1, <2>4, <3>1, FailsHolds
  <2> QED BY <1>7, <2>2, <2>3, <2>4 DEF Body
<1>8. ASSUME NEW p \in Called, BreakOff(p) PROVE CallsTrue'
  <2>1. InFlight(p) /\ Stays /\ asks[p].pc = "reading"
    BY <1>8 DEF BreakOff, InFlight
  <2> DEFINE e == FromJson(configs[p].type, Operation,
                           Error("FetchError", "other", "none", NoStatus, "ECONNRESET"))
  <2>2. Raised(configs[p].type, Operation, asks[p].pc, "reset", NoStatus, e)
    BY <2>1 DEF Raised
  <2>3. Fails(p, e, "reset", NoStatus)
    BY <1>8 DEF BreakOff
  <2> HIDE DEF e
  <2> QED BY <2>1, <2>2, <2>3, FailsHolds
<1>9. ASSUME NEW p \in Called, TimeOut(p) \/ CancelTitle(p) PROVE CallsTrue'
  BY <1>9, FireHolds DEF TimeOut, CancelTitle
<1>10. ASSUME NEW p \in Called, AbortRaised(p) PROVE CallsTrue'
  <2> DEFINE abort == Error("other", "AbortError", "none", NoStatus, "none")
             e == IF asks[p].pc = "asking" THEN abort ELSE FromJson(configs[p].type, Operation, abort)
             cause == asks[p].first
  <2>1. InFlight(p) /\ Stays /\ cause \in {"deadline", "caller"} /\ asks[p].pc \in {"asking", "reading"}
    BY <1>0, <1>10 DEF AbortRaised, InFlight, AskState
  <2>2. Raised(configs[p].type, Operation, asks[p].pc, cause, NoStatus, e)
    BY <2>1 DEF Raised
  <2>3. Fails(p, e, cause, NoStatus)
    BY <1>10 DEF AbortRaised
  <2>4. cause = asks[p].first
    OBVIOUS
  <2> HIDE DEF e, cause
  <2> QED BY <2>1, <2>2, <2>3, <2>4, FailsHolds
<1>11. ASSUME NEW p \in Called, RecordSample(p) PROVE CallsTrue'
  <2>1. PICK written \in BOOLEAN :
          asks' = [asks EXCEPT ![p].pc = "done", ![p].sample = IF written THEN asks[p].result ELSE @]
    BY <1>11 DEF RecordSample
  <2> DEFINE a == asks[p]
             sample == IF written THEN a.result ELSE a.sample
             b == [a EXCEPT !.pc = "done", !.sample = sample]
  <2>2. asks' = [asks EXCEPT ![p] = b]
    BY <1>0, <2>1 DEF AskState
  <2>3. a \in AskState /\ Flying(a, configs[p], request.op) /\ Truthful(a, configs[p], request.op)
    BY DEF CallsTrue, CallTyped
  <2>4. sample \in {a.result, a.sample} /\ sample \in ResultState
    BY <2>3 DEF AskState
  <2> HIDE DEF a, sample
  <2>5. b \in AskState /\ b.pc = "done" /\ b.cause = a.cause /\ b.result = a.result
        /\ b.sample = sample /\ b.status = a.status /\ b.first = a.first /\ b.fired = a.fired
        /\ b.cancelled = a.cancelled
    BY <2>3, <2>4 DEF AskState
  <2> HIDE DEF b
  <2>6. Flying(b, configs[p], request.op)
    BY <2>3, <2>5 DEF Flying
  <2>7. Truthful(b, configs[p], request.op)
    BY <2>3, <2>4, <2>5 DEF Truthful, Transient
  <2>8. Stays
    BY <1>11 DEF RecordSample
  <2> QED BY <2>2, <2>5, <2>6, <2>7, <2>8, AskChanges
<1> QED BY <1>1, <1>2, <1>3, <1>4, <1>5, <1>6, <1>7, <1>8, <1>9, <1>10, <1>11 DEF CallNext

LEMMA CallsAreTrue == CallSpec => []CallsTrue
<1>1. CallInit => CallsTrue
  <2> SUFFICES ASSUME CallInit PROVE CallsTrue
    OBVIOUS
  <2>1. asks = [p \in Called |-> Unasked] /\ configs \in [Called -> Config]
        /\ request = [op |-> "none", answered |-> FALSE]
    BY DEF CallInit
  <2>2. adapters \subseteq ProviderTypes
    BY DEF CallInit, ProviderTypes
  <2>3. CallTyped
    BY <2>1, <2>2, UnaskedIs DEF CallTyped
  <2> QED BY <2>1, <2>3, UnaskedIs DEF CallsTrue
<1> QED BY <1>1, CallsTrueStep, PTL DEF CallSpec

\* Whatever a provider does, the code its caller is given is one that may be told.
THEOREM CallTypeCorrect == CallSpec => []CallTypeOK
<1>1. CallsTrue => CallTypeOK
  <2> SUFFICES ASSUME CallsTrue PROVE CallTypeOK
    OBVIOUS
  <2>1. ASSUME NEW r \in ResultState PROVE ResultOK(r)
    BY DEF ResultState, ResultOK, Codes, IsPublicCode
  <2>2. ASSUME NEW p \in Called
        PROVE  /\ asks[p].pc \in {"off", "asking", "reading", "sampling", "done"}
               /\ asks[p].first \in {"none", "deadline", "caller"}
               /\ ResultOK(asks[p].result) /\ ResultOK(asks[p].sample)
    <3>1. asks[p] \in AskState
      BY DEF CallsTrue, CallTyped
    <3> QED BY <2>1, <3>1 DEF AskState
  <2> QED BY <2>2 DEF CallTypeOK, CallsTrue, CallTyped
<1> QED BY <1>1, CallsAreTrue, PTL

\* A completion is asked of another provider only where this one had no chance to answer it.
THEOREM CallFallbackIsDeservedAlways == CallSpec => []CallFallbackIsDeserved
<1>1. CallsTrue => CallFallbackIsDeserved
  <2> SUFFICES ASSUME CallsTrue, NEW p \in Called, request.op # "none", Operation = "complete",
                      asks[p].result.eligible
               PROVE  Transient(asks[p])
    BY DEF CallFallbackIsDeserved
  <2>1. request.op \in Requests
    BY DEF CallsTrue, CallTyped
  <2> QED BY <2>1 DEF CallsTrue, Truthful, Operation
<1> QED BY <1>1, CallsAreTrue, PTL

\* Success, reported or sampled, is that of a provider that answered, and an answer is not
\* made an error by a signal that fires late.
THEOREM SuccessWasAnsweredAlways == CallSpec => []SuccessWasAnswered
<1>1. CallsTrue => SuccessWasAnswered
  BY DEF CallsTrue, Truthful, SuccessWasAnswered
<1> QED BY <1>1, CallsAreTrue, PTL

\* What the deadline or the caller aborted is called by that of the two that came first,
\* unless it was taken for malformed JSON.
THEOREM AbortIsNamedAlways == CallSpec => []AbortIsNamed
<1>1. CallsTrue => AbortIsNamed
  BY DEF CallsTrue, Truthful, AbortIsNamed
<1> QED BY <1>1, CallsAreTrue, PTL

\* Of streams and of calls, failures are what they are called, for what is done about them.
THEOREM FailuresAreAlwaysNamed == ProviderParts => []FailuresAreNamed
<1> QED BY StreamFallbackIsDeservedAlways, CallFallbackIsDeservedAlways, SuccessWasAnsweredAlways,
           AbortIsNamedAlways, PTL DEF ProviderParts, FailuresAreNamed

-----------------------------------------------------------------------------
(* A stream that is cut.                                                   *)

\* A set of numbers that is not empty has a smallest.
LEMMA HasSmallest ==
  ASSUME NEW S \in SUBSET Nat, S # {}
  PROVE  \E x \in S : \A y \in S : x <= y
<1>1. PICK x \in S : \A y \in S : <<y, x>> \notin OpToRel(<, Nat)
  BY NatLessThanWellFounded, WFMin, Zenon
<1>2. \A y \in S : ~(y < x)
  BY <1>1, Zenon DEF OpToRel
<1> QED BY <1>2

Shows(s, kind) == \E i \in DOMAIN s.out : s.out[i] = kind

\* The first place of one of these kinds is a place.
LEMMA FirstOfIs ==
  ASSUME NEW kinds \in Seq(Chunks), NEW S
  PROVE  FirstOf(kinds, S) # 0 <=> \E i \in DOMAIN kinds : kinds[i] \in S
<1> DEFINE I == {i \in 1..Len(kinds) : kinds[i] \in S}
<1>1. FirstOf(kinds, S) = IF I # {} THEN Min(I) ELSE 0
  BY DEF FirstOf, SelectInSeq
<1>2. I \in SUBSET Nat
  OBVIOUS
<1>3. I # {} => Min(I) \in I
  BY <1>2, HasSmallest DEF Min
<1>4. DOMAIN kinds = 1..Len(kinds) /\ 0 \notin I
  OBVIOUS
<1> QED BY <1>1, <1>3, <1>4

Completed(s) == Shows(s, "text") => Shows(s, "stop") \/ Shows(s, "end")

\* The generator remembers whether it has shown output and completion, and is logged once.
Shown(s) ==
  /\ DOMAIN s = DOMAIN Unused /\ s.out \in Seq(Chunks)
  /\ s.sawOutput \in BOOLEAN /\ s.sawCompletion \in BOOLEAN
  /\ Shows(s, "text") => s.sawOutput
  /\ s.sawCompletion => Shows(s, "stop")
  /\ s.pc \in {"idle", "fetch", "read", "yielded", "last", "over"}
  /\ s.pc = "last" => Shows(s, "end")
  /\ s.pc = "idle" => s.events = <<>>
  /\ s.pc \notin {"idle", "over"} => s.events = <<"started">>
  /\ s.events = <<"started", "success">> => Completed(s)

LEMMA OneEvent == <<"started">> # <<"started", "success">> /\ <<>> # <<"started", "success">>
<1> DEFINE two == <<"started", "success">>
<1>1. Len(<<"started">>) = 1 /\ Len(<<>>) = 0 /\ Len(two) = 2
  OBVIOUS
<1> HIDE DEF two
<1> QED BY <1>1 DEF two

LEMMA EventAdded ==
  ASSUME NEW S, NEW x \in S, NEW y \in S
  PROVE  Append(<<x>>, y) = <<x, y>>
<1> DEFINE one == <<x>>  two == <<x, y>>
<1>1. one \in Seq(S) /\ Len(one) = 1 /\ one[1] = x
  OBVIOUS
<1>2. two \in Seq(S) /\ Len(two) = 2 /\ two[1] = x /\ two[2] = y
  OBVIOUS
<1> HIDE DEF one, two
<1>3. Append(one, y) \in Seq(S) /\ Len(Append(one, y)) = 2 /\ Append(one, y)[1] = x /\ Append(one, y)[2] = y
  <2>1. /\ Append(one, y) \in Seq(S) /\ Len(Append(one, y)) = Len(one) + 1
        /\ \A i \in 1..Len(one) : Append(one, y)[i] = one[i]
        /\ Append(one, y)[Len(one) + 1] = y
    BY <1>1, AppendProperties
  <2> QED BY <1>1, <2>1
<1>4. Append(one, y) = two
  BY <1>2, <1>3, SeqEqual
<1> QED BY <1>4 DEF one, two

LEMMA ChunkShown ==
  ASSUME NEW out \in Seq(Chunks), NEW kind \in Chunks
  PROVE  /\ Append(out, kind) \in Seq(Chunks)
         /\ \A other : (\E i \in DOMAIN Append(out, kind) : Append(out, kind)[i] = other)
                        <=> other = kind \/ \E i \in DOMAIN out : out[i] = other
<1> DEFINE new == Append(out, kind)
<1>1. new \in Seq(Chunks) /\ Len(new) = Len(out) + 1 /\ DOMAIN new = 1..(Len(out) + 1)
      /\ DOMAIN out = 1..Len(out) /\ Len(out) \in Nat
      /\ new[Len(out) + 1] = kind /\ \A i \in 1..Len(out) : new[i] = out[i]
  BY AppendProperties
<1> HIDE DEF new
<1>2. ASSUME NEW other
      PROVE  (\E i \in DOMAIN new : new[i] = other) <=> other = kind \/ \E i \in DOMAIN out : out[i] = other
  <2>1. ASSUME NEW i \in DOMAIN new, new[i] = other PROVE other = kind \/ \E k \in DOMAIN out : out[k] = other
    <3>1. i = Len(out) + 1 \/ i \in 1..Len(out)
      BY <1>1
    <3> QED BY <1>1, <2>1, <3>1
  <2>2. ASSUME NEW i \in DOMAIN out, out[i] = other PROVE \E k \in DOMAIN new : new[k] = other
    <3>1. i \in DOMAIN new /\ new[i] = other
      BY <1>1, <2>2
    <3> QED BY <3>1
  <2>3. Len(out) + 1 \in DOMAIN new
    BY <1>1
  <2> QED BY <1>1, <2>1, <2>2, <2>3
<1> QED BY <1>1, <1>2 DEF new

\* What shows the same goes on to another point.
LEMMA ShownMoves ==
  ASSUME NEW s, Shown(s), NEW t, DOMAIN t = DOMAIN Unused, t.out = s.out, t.sawOutput = s.sawOutput,
         t.sawCompletion = s.sawCompletion,
         \/ t.events = s.events /\ t.pc = s.pc
         \/ t.events = s.events /\ s.pc \notin {"idle", "over"} /\ t.pc \in {"read", "yielded"}
         \/ t.events = s.events /\ s.pc = "idle" /\ t.pc = "over"
         \/ t.events = <<"started">> /\ t.pc = "fetch"
  PROVE  Shown(t)
<1>1. t.events = <<"started", "success">> => t.events = s.events
  OBVIOUS
<1> QED BY <1>1 DEF Shown, Shows, Completed

\* A generator is over with its one event.
LEMMA ShownCloses ==
  ASSUME NEW s, Shown(s), s.pc \notin {"idle", "over"}, NEW event \in {"success", "error", "aborted"},
         event = "success" => Completed(s), NEW t, DOMAIN t = DOMAIN Unused, t.out = s.out,
         t.sawOutput = s.sawOutput, t.sawCompletion = s.sawCompletion, t.pc = "over",
         t.events = Append(s.events, event)
  PROVE  Shown(t)
<1>0. s.events = <<"started">>
  BY DEF Shown
<1>00. Append(<<"started">>, event) = <<"started", event>>
  <2>1. "started" \in {"started", "success", "error", "aborted"}
        /\ event \in {"started", "success", "error", "aborted"}
    OBVIOUS
  <2> QED BY <2>1, EventAdded, Zenon
<1>1. t.events = <<"started", event>>
  BY <1>0, <1>00
<1>2. t.events = <<"started", "success">> => event = "success"
  BY <1>1
<1> QED BY <1>2 DEF Shown, Shows, Completed

LEMMA CloseIs ==
  ASSUME NEW s, DOMAIN s = DOMAIN Unused, NEW event
  PROVE  LET t == Close(s, event) IN
         /\ DOMAIN t = DOMAIN Unused /\ t.out = s.out /\ t.sawOutput = s.sawOutput
         /\ t.sawCompletion = s.sawCompletion /\ t.pc = "over" /\ t.events = Append(s.events, event)
<1> QED BY DEF Close, Unused

LEMMA ThrownShown ==
  ASSUME NEW s, Shown(s), s.pc \notin {"idle", "over"}, NEW e, NEW cause
  PROVE  Shown(Thrown(s, e, cause))
<1>1. LET t == Thrown(s, e, cause) IN
         /\ DOMAIN t = DOMAIN Unused /\ t.out = s.out /\ t.sawOutput = s.sawOutput
         /\ t.sawCompletion = s.sawCompletion /\ t.pc = "over" /\ t.events = Append(s.events, "error")
  BY DEF Thrown, Close, Unused, Shown
<1> QED BY <1>1, ShownCloses

LEMMA ClosedShown ==
  ASSUME NEW s, Shown(s), s.pc \notin {"idle", "over"}, NEW event \in {"success", "aborted"},
         event = "success" => Completed(s)
  PROVE  Shown(Close(s, event))
<1>1. DOMAIN s = DOMAIN Unused
  BY DEF Shown
<1> QED BY <1>1, CloseIs, ShownCloses

LEMMA HandledShown ==
  ASSUME NEW s, Shown(s), s.pc = "read", NEW kind
  PROVE  Shown(Handled(s, kind))
<1>0. DOMAIN s = DOMAIN Unused /\ s.out \in Seq(Chunks)
  BY DEF Shown
<1>1. CASE kind \in ChunkKinds
  <2> DEFINE t == [s EXCEPT !.pc = "yielded", !.out = Append(s.out, kind),
                     !.sawCompletion = s.sawCompletion \/ kind = "stop",
                     !.sawOutput = s.sawOutput \/ kind = "text"]
  <2>1. Handled(s, kind) = t
    BY <1>0, <1>1 DEF Handled, YieldChunk, Unused
  <2>2. DOMAIN t = DOMAIN Unused /\ t.pc = "yielded" /\ t.out = Append(s.out, kind) /\ t.events = s.events
    BY <1>0 DEF Unused
  <2>3. (t.sawCompletion <=> s.sawCompletion \/ kind = "stop") /\ t.sawCompletion \in BOOLEAN
    BY <1>0 DEF Unused
  <2>4. (t.sawOutput <=> s.sawOutput \/ kind = "text") /\ t.sawOutput \in BOOLEAN
    BY <1>0 DEF Unused
  <2> HIDE DEF t
  <2>5. kind \in Chunks
    BY <1>1 DEF ChunkKinds, Chunks
  <2>6. /\ t.out \in Seq(Chunks)
        /\ \A other : Shows(t, other) <=> other = kind \/ Shows(s, other)
    BY <1>0, <2>2, <2>5, ChunkShown DEF Shows
  <2>7. s.events = <<"started">> /\ s.events # <<"started", "success">>
    BY OneEvent DEF Shown
  <2> QED BY <2>1, <2>2, <2>3, <2>4, <2>6, <2>7 DEF Shown
<1>2. CASE kind = "DONE" /\ s.sawCompletion
  <2>1. Handled(s, kind) = Close(s, "success")
    BY <1>2 DEF Handled, ChunkKinds
  <2>2. Completed(s)
    BY <1>2 DEF Shown, Completed
  <2> QED BY <2>1, <2>2, ClosedShown
<1>3. CASE kind = "DONE" /\ ~s.sawCompletion
  <2> DEFINE t == [s EXCEPT !.pc = "last", !.out = Append(s.out, "end")]
  <2>1. Handled(s, kind) = t
    BY <1>0, <1>3 DEF Handled, ChunkKinds
  <2>2. DOMAIN t = DOMAIN Unused /\ t.pc = "last" /\ t.out = Append(s.out, "end") /\ t.events = s.events
        /\ t.sawCompletion = s.sawCompletion /\ t.sawOutput = s.sawOutput
    BY <1>0 DEF Unused
  <2> HIDE DEF t
  <2>3. /\ t.out \in Seq(Chunks)
        /\ \A other : Shows(t, other) <=> other = "end" \/ Shows(s, other)
    BY <1>0, <2>2, ChunkShown DEF Shows, Chunks
  <2>4. s.events = <<"started">> /\ s.events # <<"started", "success">>
    BY OneEvent DEF Shown
  <2> QED BY <2>1, <2>2, <2>3, <2>4 DEF Shown
<1>4. CASE kind = "bad"
  BY <1>4, ThrownShown DEF Handled, ChunkKinds
<1>5. CASE kind \notin ChunkKinds \cup {"DONE", "bad"}
  BY <1>5 DEF Handled
<1> QED BY <1>1, <1>2, <1>3, <1>4, <1>5

LEMMA ShownStep ==
  ASSUME Shown(stream), [StreamNext]_streamVars
  PROVE  Shown(stream')
<1>0. DOMAIN stream = DOMAIN Unused
  BY DEF Shown
<1>1. CASE Start
  <2>1. DOMAIN stream' = DOMAIN Unused /\ stream'.out = stream.out /\ stream'.sawOutput = stream.sawOutput
        /\ stream'.sawCompletion = stream.sawCompletion /\ stream'.events = <<"started">>
        /\ stream'.pc = "fetch"
    BY <1>0, <1>1 DEF Start, Becomes, Unused
  <2> QED BY <2>1, ShownMoves
<1>2. ASSUME NEW pc \in {"read", "over"}, stream' = [stream EXCEPT !.pc = pc],
             IF pc = "over" THEN stream.pc = "idle" ELSE stream.pc \notin {"idle", "over"}
      PROVE  Shown(stream')
  <2>1. DOMAIN stream' = DOMAIN Unused /\ stream'.out = stream.out /\ stream'.sawOutput = stream.sawOutput
        /\ stream'.sawCompletion = stream.sawCompletion /\ stream'.events = stream.events
        /\ stream'.pc = pc
    BY <1>0, <1>2 DEF Unused
  <2> QED BY <1>2, <2>1, ShownMoves
<1>3. CASE Pull
  <2>1. CASE stream.pc = "last"
    <3>1. Completed(stream)
      BY <2>1 DEF Shown, Completed
    <3>2. stream' = Close(stream, "success")
      BY <1>3, <2>1 DEF Pull, Becomes
    <3> QED BY <2>1, <3>1, <3>2, ClosedShown
  <2>2. CASE stream.pc = "yielded"
    BY <1>2, <1>3, <2>2 DEF Pull, Becomes
  <2> QED BY <1>3, <2>1, <2>2 DEF Pull
<1>4. CASE LeaveStream
  <2>1. CASE stream.pc = "idle"
    BY <1>2, <1>4, <2>1 DEF LeaveStream, Becomes
  <2>2. CASE stream.pc \in {"yielded", "last"}
    <3>1. stream' = Close(stream, "aborted")
      BY <1>4, <2>2 DEF LeaveStream, Becomes
    <3> QED BY <2>2, <3>1, ClosedShown
  <2> QED BY <1>4, <2>1, <2>2 DEF LeaveStream
<1>5. CASE Respond
  <2>1. CASE upstream.status = OK
    BY <1>2, <1>5, <2>1 DEF Respond, Becomes
  <2>2. CASE upstream.status # OK
    BY <1>5, <2>2, ThrownShown DEF Respond, Becomes
  <2> QED BY <2>1, <2>2
<1>6. CASE Unreachable \/ Break \/ Aborted
  <2>1. \E e, cause : stream' = Thrown(stream, e, cause)
    BY <1>6 DEF Unreachable, Break, Aborted, Becomes
  <2>2. stream.pc \notin {"idle", "over"}
    BY <1>6 DEF Unreachable, Break, Aborted, Reading
  <2> QED BY <2>1, <2>2, ThrownShown
<1>7. ASSUME DOMAIN stream' = DOMAIN Unused, stream'.out = stream.out,
             stream'.sawOutput = stream.sawOutput, stream'.sawCompletion = stream.sawCompletion,
             stream'.events = stream.events, stream'.pc = stream.pc
      PROVE  Shown(stream')
  BY <1>7, ShownMoves
<1>8. CASE ReceivePiece
  BY <1>0, <1>7, <1>8 DEF ReceivePiece, Unused
<1>9. CASE Deadline
  BY <1>0, <1>7, <1>9 DEF Deadline, Becomes, Unused
<1>10. ASSUME NEW buffer PROVE Shown([stream EXCEPT !.buffer = buffer])
                               /\ [stream EXCEPT !.buffer = buffer].pc = stream.pc
  <2> DEFINE t == [stream EXCEPT !.buffer = buffer]
  <2>1. DOMAIN t = DOMAIN Unused /\ t.out = stream.out /\ t.sawOutput = stream.sawOutput
        /\ t.sawCompletion = stream.sawCompletion /\ t.events = stream.events /\ t.pc = stream.pc
    BY <1>0 DEF Unused
  <2> HIDE DEF t
  <2>2. Shown(t)
    BY <2>1, ShownMoves
  <2> QED BY <2>1, <2>2 DEF t
<1>11. CASE TakeFrame
  <2>1. stream.pc = "read"
    BY <1>11 DEF TakeFrame
  <2>2. \E buffer, kind : stream' = Handled([stream EXCEPT !.buffer = buffer], kind)
    BY <1>11 DEF TakeFrame, Becomes
  <2> QED BY <1>10, <2>1, <2>2, HandledShown
<1>12. CASE EndOfBody
  <2>1. stream.pc = "read"
    BY <1>12 DEF EndOfBody, Reading
  <2>2. CASE stream.buffer = <<>>
    <3>1. stream' = AtEnd(stream)
      BY <1>12, <2>2 DEF EndOfBody, Becomes
    <3>2. CASE stream.sawOutput /\ ~stream.sawCompletion
      BY <2>1, <3>1, <3>2, ThrownShown DEF AtEnd
    <3>3. CASE ~(stream.sawOutput /\ ~stream.sawCompletion)
      <4>1. Completed(stream)
        BY <3>3 DEF Shown, Completed
      <4>2. stream' = Close(stream, "success")
        BY <3>1, <3>3 DEF AtEnd
      <4> QED BY <2>1, <4>1, <4>2, ClosedShown
    <3> QED BY <3>2, <3>3
  <2>3. CASE stream.buffer # <<>>
    <3>1. stream' = Handled([stream EXCEPT !.buffer = <<>>], Parsed(stream.buffer))
      BY <1>12, <2>3 DEF EndOfBody, Becomes
    <3> QED BY <1>10, <2>1, <3>1, HandledShown
  <2> QED BY <2>2, <2>3
<1>13. CASE UNCHANGED streamVars
  BY <1>13 DEF streamVars
<1> QED BY <1>1, <1>3, <1>4, <1>5, <1>6, <1>8, <1>9, <1>11, <1>12, <1>13 DEF StreamNext

\* A stream that showed output and no completion is never taken for a success, wherever the
\* network cuts the body.
THEOREM CutAnswerIsNeverSuccess == StreamSpec => []CutAnswerIsNoSuccess
<1>1. StreamInit => Shown(stream)
  <2>1. StreamInit => stream = Unused
    BY DEF StreamInit
  <2>2. Shown(Unused)
    <3>1. Unused.out = <<>> /\ Unused.events = <<>> /\ Unused.pc = "idle" /\ Unused.sawOutput = FALSE
          /\ Unused.sawCompletion = FALSE
      BY DEF Unused
    <3>2. Unused.out \in Seq(Chunks) /\ DOMAIN Unused.out = {} /\ Unused.events # <<"started", "success">>
      BY <3>1, OneEvent
    <3>3. Unused.sawOutput \in BOOLEAN /\ Unused.sawCompletion \in BOOLEAN /\ ~Unused.sawCompletion
      BY <3>1
    <3> QED BY <3>1, <3>2, <3>3 DEF Shown, Shows
  <2> QED BY <2>1, <2>2
<1>2. Shown(stream) => CutAnswerIsNoSuccess
  <2> SUFFICES ASSUME Shown(stream), Succeeded, FirstOf(stream.out, {"text"}) # 0
               PROVE  FirstOf(stream.out, {"stop", "end"}) # 0
    BY DEF CutAnswerIsNoSuccess
  <2>1. stream.out \in Seq(Chunks) /\ Completed(stream)
    BY DEF Shown, Succeeded
  <2>2. Shows(stream, "text")
    BY <2>1, FirstOfIs DEF Shows
  <2>3. \E i \in DOMAIN stream.out : stream.out[i] \in {"stop", "end"}
    BY <2>1, <2>2 DEF Completed, Shows
  <2> QED BY <2>1, <2>3, FirstOfIs
<1>3. Shown(stream) /\ [StreamNext]_streamVars => Shown(stream)'
  BY ShownStep
<1> QED BY <1>1, <1>2, <1>3, PTL DEF StreamSpec
=============================================================================
