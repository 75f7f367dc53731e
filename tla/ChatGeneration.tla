--------------------------- MODULE ChatGeneration ---------------------------
(***************************************************************************)
(* One chat reply, streaming or not, from the request to its last write:   *)
(* the asynchronous generator streamAssistantResponse and the function     *)
(* generateAssistantResponse (chat.service.ts), the controller that pulls  *)
(* events out of the generator and leaves when its client has gone         *)
(* (chat.controller.ts), and a provider that streams, fails or breaks off. *)
(*                                                                         *)
(* A generator answers next() and return() in the order of the calls.  It  *)
(* runs until it yields, where the first call is answered, and then goes   *)
(* on at once if another call waits: return() takes effect at a yield.     *)
(***************************************************************************)
EXTENDS Naturals, Sequences

CONSTANTS
  Providers,  \* number of active providers, the default first
  MaxFaults   \* bound on failing statements of the database

ASSUME ProvidersAssumption == Providers \in Nat \ {0}
ASSUME FaultsAssumption == MaxFaults \in Nat

VARIABLES
  gen,         \* the generator and its local variables
  iterator,    \* calls of next and return, and their answers
  controller,  \* where the controller is
  client,      \* what the client has been sent, and whether it has gone
  messages,    \* assistant messages, as stored
  usage,       \* rows of "generation_usages"
  promoted,    \* provider that promoteDefaultProvider was called for, or 0
  faults       \* statements that have failed

vars == <<gen, iterator, controller, client, messages, usage, promoted, faults>>
stored == <<messages, usage, promoted, faults>>

-----------------------------------------------------------------------------
Attempts == 1..Providers  \* the order in which providers are asked

Texts == {"", "blank", "text"}  \* nothing, white space only, anything else

Finishes == {"none", "stop", "length"}

Events == {"user_message", "delta", "provider_switch", "assistant_message", "done"}

Yields == {"yieldUser", "yieldDelta", "yieldRetrying", "yieldMessage", "yieldSwitched",
           "yieldDone", "yieldPartial"}

\* attempt: the provider of "prepared"; last: the last fallback id, 0 before
\* prepareGeneration; sources: providers whose text is in content or reasoning;
\* asked: providers that were asked; exit: how the generator is left.
Generator ==
  [pc : Yields \cup {"prepare", "reading", "fallback", "recordFallback", "persistSuccess",
                     "recordSuccess", "promote", "persistFailure", "recordFailure", "finally",
                     "persistAbort", "recordAbort", "complete", "persistReply",
                     "recordReplyFailure", "replyFallback", "ended"},
   streaming : BOOLEAN, attempt : Attempts, last : Attempts \cup {0},
   text : Texts, reasoning : BOOLEAN, finish : Finishes, sawCompletion : BOOLEAN,
   persisted : BOOLEAN, completed : BOOLEAN, failed : BOOLEAN,
   sources : SUBSET Attempts, asked : SUBSET Attempts, exit : {"end", "error", "retry"}]

Message == [provider : Attempts, sources : SUBSET Attempts, text : Texts, reasoning : BOOLEAN,
            finish : Finishes \cup {"error", "aborted"}, sawCompletion : BOOLEAN, eligible : BOOLEAN]

Usage == [provider : Attempts, outcome : {"SUCCEEDED", "FAILED", "ABORTED"}]

TypeOK ==
  /\ gen \in Generator
  /\ iterator \in [requests : {<<>>, <<"next">>, <<"return">>, <<"next", "return">>},
                   next : Events \cup {"pending", "end", "error", "reply"},
                   return : {"pending", "end", "error"}]
  /\ controller \in {"first", "iterate", "waiting", "leaving", "ended", "crashed"}
  /\ client \in [closed : BOOLEAN, shown : BOOLEAN,
                 last : Events \cup {"nothing", "error", "reply"}]
  /\ messages \in Seq(Message)
  /\ usage \in Seq(Usage)
  /\ promoted \in Attempts \cup {0}
  /\ faults \in 0..MaxFaults

Fresh(streaming) ==
  [pc |-> "prepare", streaming |-> streaming, attempt |-> 1, last |-> 0,
   text |-> "", reasoning |-> FALSE, finish |-> "none", sawCompletion |-> FALSE,
   persisted |-> FALSE, completed |-> FALSE, failed |-> FALSE,
   sources |-> {}, asked |-> {}, exit |-> "end"]

Init ==
  /\ \E streaming \in BOOLEAN : gen = Fresh(streaming)
  /\ iterator = [requests |-> <<"next">>, next |-> "pending", return |-> "pending"]
  /\ controller = "first"
  /\ client = [closed |-> FALSE, shown |-> FALSE, last |-> "nothing"]
  /\ messages = <<>> /\ usage = <<>> /\ promoted = 0 /\ faults = 0

-----------------------------------------------------------------------------
(* Calls of the generator and their answers.                               *)

Requested(kind) == iterator.requests # <<>> /\ Head(iterator.requests) = kind

Goto(pc) == gen' = [gen EXCEPT !.pc = pc]

\* yield: the next() that is being answered gets the event.
Answer(event) ==
  iterator' = [iterator EXCEPT !.requests = Tail(@), !.next = event]

Yield(event, pc) == Answer(event) /\ Goto(pc)

\* The generator is over: its call gets the result, a waiting return() just ends.
Settle(result) ==
  iterator' = IF Requested("next")
              THEN [requests |-> <<>>, next |-> result,
                    return |-> IF Len(iterator.requests) = 2 THEN "end" ELSE "pending"]
              ELSE [iterator EXCEPT !.requests = <<>>, !.return = result]

End(result) == Settle(result) /\ Goto("ended")

Leave(exit) == gen' = [gen EXCEPT !.pc = "finally", !.exit = exit]

-----------------------------------------------------------------------------
(* Writes.                                                                 *)

Fault == faults < MaxFaults /\ faults' = faults + 1

isEmpty == gen.text = "" /\ ~gen.reasoning

isIncompleteGeneration(g) == (g.reasoning /\ g.text # "text") \/ g.finish = "length"

isTitleEligibleReply(g) == g.text = "text" /\ ~isIncompleteGeneration(g)

AssistantMessage(finish, eligible) ==
  [provider |-> gen.attempt, sources |-> gen.sources, text |-> gen.text,
   reasoning |-> gen.reasoning, finish |-> finish, sawCompletion |-> gen.sawCompletion,
   eligible |-> eligible]

Reply == AssistantMessage(gen.finish, isTitleEligibleReply(gen))

Stored(message) == messages' = Append(messages, message) /\ UNCHANGED faults

\* The transaction fails, or its COMMIT is carried out and the answer lost.
StoreFails(message) == Fault /\ messages' \in {messages, Append(messages, message)}

\* recordGenerationUsageSafely
RecordUsage(outcome) ==
  \/ /\ usage' = Append(usage, [provider |-> gen.attempt, outcome |-> outcome])
     /\ UNCHANGED faults
  \/ Fault /\ UNCHANGED usage

-----------------------------------------------------------------------------
(* streamAssistantResponse up to the end of an attempt.                    *)

\* prepareGeneration, for both kinds of reply: without a default-mode request
\* there are no fallbacks.
Prepare ==
  /\ gen.pc = "prepare"
  /\ \/ \E last \in Attempts :
          /\ gen' = [gen EXCEPT !.last = last,
                                !.pc = IF gen.streaming THEN "yieldUser" ELSE "complete"]
          /\ IF gen.streaming THEN Answer("user_message") ELSE UNCHANGED iterator
     \/ End("error")
  /\ UNCHANGED <<controller, client, stored>>

\* The generator goes on after a yield of its loop.
Read ==
  /\ gen.pc \in {"yieldUser", "yieldDelta", "yieldRetrying"} /\ Requested("next")
  /\ gen' = [gen EXCEPT !.pc = "reading", !.asked = @ \cup {gen.attempt}]
  /\ UNCHANGED <<iterator, controller, client, stored>>

Longer(a, b) ==
  CASE "text" \in {a, b} -> "text" [] {a, b} = {""} -> "" [] OTHER -> "blank"

Chunk ==
  /\ gen.pc = "reading"
  /\ \E text \in Texts, reasoning \in BOOLEAN, finish \in Finishes, done \in BOOLEAN :
       LET output == text # "" \/ reasoning
       IN /\ gen' = [gen EXCEPT !.text = Longer(@, text),
                                !.reasoning = @ \/ reasoning,
                                !.finish = IF finish = "none" THEN @ ELSE finish,
                                !.sawCompletion = @ \/ done,
                                !.sources = IF output THEN @ \cup {gen.attempt} ELSE @,
                                !.pc = IF output THEN "yieldDelta" ELSE @]
          /\ IF output THEN Answer("delta") ELSE UNCHANGED iterator
  /\ UNCHANGED <<controller, client, stored>>

\* Mutant: a stream that breaks off counts as complete.
AttemptFailsLate(error) == error # "none" \/ isEmpty

\* The stream threw an error, was empty, or ended without its completion marker.
AttemptFails(error) == error # "none" \/ isEmpty \/ ~gen.sawCompletion

\* Mutant: another provider goes on where this one failed.
FallsBackMidway(error) == error = "eligible" \/ (error = "none" /\ isEmpty)

\* Nothing was shown yet, and the failure is one that another provider may not have.
FallsBack(error) == isEmpty /\ error \in {"none", "eligible"}

\* Mutant: one id too many.
FallbacksOffByOne == (gen.attempt + 1)..(gen.last + 1)

Fallbacks == (gen.attempt + 1)..gen.last

StreamEnds ==
  /\ gen.pc = "reading"
  /\ \E error \in {"none", "eligible", "fatal"} :
       Goto(CASE ~AttemptFails(error) -> "persistSuccess"
              [] AttemptFails(error) /\ FallsBack(error) -> "fallback"
              [] OTHER -> "persistFailure")
  /\ UNCHANGED <<iterator, controller, client, stored>>

\* nextFallback: ids that cannot be resolved are skipped.
Fallback ==
  /\ gen.pc = "fallback"
  /\ \/ Fallbacks # {} /\ Goto("recordFallback")
     \/ Goto("persistFailure")
  /\ UNCHANGED <<iterator, controller, client, stored>>

\* Mutant: the provider that failed is not measured.
RecordFallbackOnly ==
  /\ gen.pc = "recordFallback"
  /\ \E p \in Fallbacks :
       gen' = [gen EXCEPT !.pc = "yieldRetrying", !.attempt = p, !.finish = "none",
                          !.sawCompletion = FALSE]
  /\ Answer("provider_switch")
  /\ UNCHANGED <<controller, client, stored>>

RecordFallback ==
  /\ gen.pc = "recordFallback"
  /\ RecordUsage("FAILED")
  /\ \E p \in Fallbacks :
       gen' = [gen EXCEPT !.pc = "yieldRetrying", !.attempt = p, !.finish = "none",
                          !.sawCompletion = FALSE]
  /\ Answer("provider_switch")
  /\ UNCHANGED <<controller, client, messages, promoted>>

-----------------------------------------------------------------------------
(* The end of a stream that succeeded.                                     *)

\* Mutant: a reply that could not be stored counts as stored.
PersistSuccessSafely ==
  /\ gen.pc = "persistSuccess"
  /\ Stored(Reply) \/ StoreFails(Reply)
  /\ gen' = [gen EXCEPT !.persisted = TRUE, !.completed = TRUE, !.pc = "recordSuccess"]
  /\ UNCHANGED <<iterator, controller, client, usage, promoted>>

PersistSuccess ==
  /\ gen.pc = "persistSuccess"
  /\ \/ /\ Stored(Reply)
        /\ gen' = [gen EXCEPT !.persisted = TRUE, !.completed = TRUE, !.pc = "recordSuccess"]
     \/ /\ StoreFails(Reply)
        /\ gen' = [gen EXCEPT !.persisted = TRUE, !.pc = "persistFailure"]
  /\ UNCHANGED <<iterator, controller, client, usage, promoted>>

\* The reply is announced: an event of the stream, or the result of the function.
Announce ==
  IF gen.streaming THEN Yield("assistant_message", "yieldMessage") ELSE End("reply")

\* Of both kinds of reply.
RecordSuccess ==
  /\ gen.pc = "recordSuccess"
  /\ RecordUsage("SUCCEEDED")
  /\ IF gen.attempt = 1 THEN Announce ELSE (Goto("promote") /\ UNCHANGED iterator)
  /\ UNCHANGED <<controller, client, messages, promoted>>

Promote ==
  /\ gen.pc = "promote"
  /\ promoted' = gen.attempt
  /\ Announce
  /\ UNCHANGED <<controller, client, messages, usage, faults>>

AfterMessage ==
  /\ gen.pc = "yieldMessage" /\ Requested("next")
  /\ IF gen.attempt = 1 THEN Yield("done", "yieldDone")
     ELSE Yield("provider_switch", "yieldSwitched")
  /\ UNCHANGED <<controller, client, stored>>

AfterSwitched ==
  /\ gen.pc = "yieldSwitched" /\ Requested("next")
  /\ Yield("done", "yieldDone")
  /\ UNCHANGED <<controller, client, stored>>

AfterDone ==
  /\ gen.pc = "yieldDone" /\ Requested("next")
  /\ Leave("end")
  /\ UNCHANGED <<iterator, controller, client, stored>>

-----------------------------------------------------------------------------
(* The end of a stream that failed, or that its reader left.               *)

\* The catch block.  A reply whose write failed is not written again.
PersistFailure ==
  /\ gen.pc = "persistFailure"
  /\ LET partial == AssistantMessage("error", FALSE)
         failed == [gen EXCEPT !.failed = TRUE, !.persisted = @ \/ ~isEmpty]
     IN \/ /\ gen.persisted \/ isEmpty
           /\ gen' = [failed EXCEPT !.pc = "recordFailure"]
           /\ UNCHANGED <<iterator, messages, faults>>
        \/ /\ ~gen.persisted /\ ~isEmpty /\ Stored(partial)
           /\ gen' = [failed EXCEPT !.pc = "yieldPartial"]
           /\ Answer("assistant_message")
        \/ /\ ~gen.persisted /\ ~isEmpty /\ StoreFails(partial)
           /\ gen' = [failed EXCEPT !.pc = "finally", !.exit = "error"]
           /\ UNCHANGED iterator
  /\ UNCHANGED <<controller, client, usage, promoted>>

AfterPartial ==
  /\ gen.pc = "yieldPartial" /\ Requested("next")
  /\ Goto("recordFailure")
  /\ UNCHANGED <<iterator, controller, client, stored>>

\* Mutant: the failure is not thrown on.
RecordFailureQuietly ==
  /\ gen.pc = "recordFailure"
  /\ RecordUsage("FAILED")
  /\ Leave("end")
  /\ UNCHANGED <<iterator, controller, client, messages, promoted>>

RecordFailure ==
  /\ gen.pc = "recordFailure"
  /\ RecordUsage("FAILED")
  /\ Leave("error")
  /\ UNCHANGED <<iterator, controller, client, messages, promoted>>

\* return() at a yield; the first yield is outside the try statement.
Return ==
  /\ gen.pc \in Yields /\ Requested("return")
  /\ IF gen.pc = "yieldUser" THEN End("end") ELSE Leave("end") /\ UNCHANGED iterator
  /\ UNCHANGED <<controller, client, stored>>

\* Mutant: a failed stream is taken for an aborted one.
AbortsUnlessCompleted == ~gen.completed

Aborts == ~gen.completed /\ ~gen.failed

Finally ==
  /\ gen.pc = "finally"
  /\ IF Aborts THEN Goto("persistAbort") /\ UNCHANGED iterator ELSE End(gen.exit)
  /\ UNCHANGED <<controller, client, stored>>

\* Mutants: the write is repeated until it returns a message, which it never
\* does where nothing was said; what an aborted stream has said is dropped.
PersistAbortRepeatedly ==
  /\ gen.pc = "persistAbort" /\ ~isEmpty
  /\ Stored(AssistantMessage("aborted", FALSE))
  /\ gen' = [gen EXCEPT !.pc = "recordAbort", !.persisted = TRUE]
  /\ UNCHANGED <<iterator, controller, client, usage, promoted>>

DropAborted ==
  /\ gen.pc = "persistAbort"
  /\ Goto("recordAbort")
  /\ UNCHANGED <<iterator, controller, client, stored>>

PersistAbort ==
  /\ gen.pc = "persistAbort"
  /\ LET partial == AssistantMessage("aborted", FALSE)
     IN \/ /\ gen.persisted \/ isEmpty
           /\ Goto("recordAbort")
           /\ UNCHANGED <<iterator, messages, faults>>
        \/ /\ ~gen.persisted /\ ~isEmpty /\ Stored(partial)
           /\ gen' = [gen EXCEPT !.pc = "recordAbort", !.persisted = TRUE]
           /\ UNCHANGED iterator
        \/ /\ ~gen.persisted /\ ~isEmpty /\ StoreFails(partial)
           /\ End("error")
  /\ UNCHANGED <<controller, client, usage, promoted>>

RecordAbort ==
  /\ gen.pc = "recordAbort"
  /\ RecordUsage("ABORTED")
  /\ End(gen.exit)
  /\ UNCHANGED <<controller, client, messages, promoted>>

-----------------------------------------------------------------------------
(* generateAssistantResponse                                               *)

\* The provider completes, or fails: a reply of white space is no reply.
Complete ==
  /\ gen.pc = "complete"
  /\ \/ \E text \in Texts, reasoning \in BOOLEAN, finish \in Finishes :
          /\ text = "text" \/ reasoning
          /\ gen' = [gen EXCEPT !.pc = "persistReply", !.text = text, !.reasoning = reasoning,
                                !.finish = finish, !.sawCompletion = TRUE,
                                !.sources = {gen.attempt}, !.asked = @ \cup {gen.attempt}]
     \/ \E exit \in {"retry", "error"} :
          gen' = [gen EXCEPT !.pc = "recordReplyFailure", !.exit = exit,
                             !.asked = @ \cup {gen.attempt}]
  /\ UNCHANGED <<iterator, controller, client, stored>>

PersistReply ==
  /\ gen.pc = "persistReply"
  /\ \/ Stored(Reply) /\ Goto("recordSuccess")
     \/ StoreFails(Reply) /\ gen' = [gen EXCEPT !.pc = "recordReplyFailure", !.exit = "error"]
  /\ UNCHANGED <<iterator, controller, client, usage, promoted>>

RecordReplyFailure ==
  /\ gen.pc = "recordReplyFailure"
  /\ RecordUsage("FAILED")
  /\ IF gen.exit = "retry" THEN Goto("replyFallback") /\ UNCHANGED iterator ELSE End("error")
  /\ UNCHANGED <<controller, client, messages, promoted>>

ReplyFallback ==
  /\ gen.pc = "replyFallback"
  /\ \/ \E p \in Fallbacks :
          gen' = [gen EXCEPT !.pc = "complete", !.attempt = p] /\ UNCHANGED iterator
     \/ End("error")
  /\ UNCHANGED <<controller, client, stored>>

-----------------------------------------------------------------------------
(* The controller and its client.                                          *)

\* writeSseEvent: what is written to a connection that is gone is lost.
Write(event) ==
  client' = IF client.closed \/ event = "end" THEN client
            ELSE [client EXCEPT !.last = event, !.shown = @ \/ event = "delta"]

\* The first event, or the result of the function that does not stream.
ReceiveFirst ==
  /\ controller = "first" /\ iterator.next # "pending"
  /\ controller' = IF iterator.next = "user_message" THEN "iterate" ELSE "ended"
  /\ Write(iterator.next)
  /\ iterator' = [iterator EXCEPT !.next = "pending"]
  /\ UNCHANGED <<gen, stored>>

\* next() is called before the connection is looked at; return() queues behind it.
Iterate ==
  /\ controller = "iterate"
  /\ controller' = IF client.closed THEN "leaving" ELSE "waiting"
  /\ iterator' = [iterator EXCEPT !.requests = IF client.closed THEN <<"next", "return">>
                                               ELSE <<"next">>]
  /\ UNCHANGED <<gen, client, stored>>

Receive ==
  /\ controller = "waiting" /\ iterator.next # "pending"
  /\ controller' = IF iterator.next \in {"end", "error"} THEN "ended" ELSE "iterate"
  /\ Write(iterator.next)
  /\ iterator' = [iterator EXCEPT !.next = "pending"]
  /\ UNCHANGED <<gen, stored>>

\* After SSE_HEARTBEAT_INTERVAL_MS the connection is looked at again.
Heartbeat ==
  /\ controller = "waiting" /\ iterator.next = "pending" /\ client.closed
  /\ controller' = "leaving"
  /\ iterator' = [iterator EXCEPT !.requests = Append(@, "return")]
  /\ UNCHANGED <<gen, client, stored>>

Left ==
  /\ controller = "leaving" /\ iterator.return # "pending"
  /\ controller' = "ended"
  /\ UNCHANGED <<gen, iterator, client, stored>>

ClientCloses ==
  /\ ~client.closed /\ controller # "ended"
  /\ client' = [client EXCEPT !.closed = TRUE]
  /\ UNCHANGED <<gen, iterator, controller, stored>>

\* The API process dies.
Crash ==
  /\ controller \notin {"ended", "crashed"}
  /\ Goto("ended")
  /\ controller' = "crashed"
  /\ UNCHANGED <<iterator, client, stored>>

-----------------------------------------------------------------------------
Generate ==
  \/ Prepare \/ Read \/ StreamEnds \/ Fallback \/ RecordFallback
  \/ PersistSuccess \/ RecordSuccess \/ Promote \/ AfterMessage \/ AfterSwitched \/ AfterDone
  \/ PersistFailure \/ AfterPartial \/ RecordFailure
  \/ Return \/ Finally \/ PersistAbort \/ RecordAbort
  \/ Complete \/ PersistReply \/ RecordReplyFailure \/ ReplyFallback

Control == ReceiveFirst \/ Iterate \/ Receive \/ Heartbeat \/ Left

Next == Generate \/ Chunk \/ Control \/ ClientCloses \/ Crash

\* The event loop runs what can run; every database call and timer ends; no
\* provider streams for ever.
Fairness == WF_vars(Generate) /\ WF_vars(Control) /\ SF_vars(StreamEnds)

Spec == Init /\ [][Next]_vars /\ Fairness

-----------------------------------------------------------------------------
\* There is at most one reply, and all of it comes from the provider it is
\* attributed to, whatever failed before.
OneAnswerOfOneProvider ==
  /\ Len(messages) <= 1
  /\ \A i \in DOMAIN messages : messages[i].sources = {messages[i].provider}

\* No attempt is measured twice, although three blocks of code may measure it.
UsageOnce ==
  \A i, j \in DOMAIN usage : usage[i].provider = usage[j].provider => i = j

Successful(m) == m.finish \notin {"error", "aborted"}

\* Success is only recorded of a provider, and only a provider is made the
\* default, whose reply is stored.
SuccessHasAnswer ==
  \A p \in Attempts :
    (promoted = p) \/ (\E i \in DOMAIN usage : usage[i] = [provider |-> p, outcome |-> "SUCCEEDED"])
      => \E i \in DOMAIN messages : messages[i].provider = p /\ Successful(messages[i])

\* A title is only made of a reply with text that its provider has completed.
EligibleIsWhole ==
  \A i \in DOMAIN messages :
    messages[i].eligible => /\ messages[i].sawCompletion /\ messages[i].text = "text"
                            /\ messages[i].finish \in {"none", "stop"}

\* What a client was shown is there when it looks again, also if it left or the
\* provider failed.
ShownIsKept ==
  controller = "ended" /\ client.shown /\ faults = 0 =>
    /\ Len(messages) = 1
    /\ messages[1].text = gen.text /\ messages[1].reasoning = gen.reasoning

\* A client that stays is told how it ended, and told of success only if the
\* reply is stored, of failure only if it is not or a write failed.
ConnectedClientLearns ==
  controller = "ended" /\ ~client.closed =>
    /\ client.last \in {"done", "reply", "error"}
    /\ client.last # "error" => \E i \in DOMAIN messages : Successful(messages[i])
    /\ client.last = "error" /\ faults = 0 => ~\E i \in DOMAIN messages : Successful(messages[i])

\* Where nothing goes wrong with the database and the client stays, every
\* provider that was asked is measured.
AttemptsAreMeasured ==
  controller = "ended" /\ ~client.closed /\ faults = 0 =>
    gen.asked = {usage[i].provider : i \in DOMAIN usage}

\* A partial reply kept after a failure goes with a failed usage: stated in
\* provider-observability.md, and not so when the client has gone.
PartialIsMeasured ==
  controller = "ended" /\ faults = 0 =>
    \A i \in DOMAIN messages : messages[i].finish = "error" =>
      \E j \in DOMAIN usage : usage[j] = [provider |-> messages[i].provider, outcome |-> "FAILED"]

\* Every request ends, whoever leaves or fails in whatever order.
GenerationEnds == <>(controller \in {"ended", "crashed"})

\* The reply that is stored, promoted and titled is the whole answer of its provider.
ReplyIsOfItsProvider == OneAnswerOfOneProvider /\ SuccessHasAnswer /\ EligibleIsWhole

\* Every provider that was asked is measured once.
AttemptsAreMeasuredOnce == UsageOnce /\ AttemptsAreMeasured

\* What the client was shown is stored, and it learns how that ended.
ClientAndStoreAgree == ShownIsKept /\ ConnectedClientLearns
=============================================================================
