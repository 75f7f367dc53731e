---------------------------- MODULE ProviderCalls ----------------------------
(***************************************************************************)
(* One-answer calls to LLM providers: llmRuntime.service.ts, the registry  *)
(* of llm.service.ts, the probes of llmProvider.service.ts, and the        *)
(* adapters' own operations under runProviderOperation.                    *)
(***************************************************************************)
EXTENDS ProviderFailures, FiniteSets

CONSTANTS
  Called,        \* provider configurations
  CallStatuses   \* HTTP statuses an upstream may answer with, not OK

VARIABLES
  configs,   \* [Called -> Config]
  adapters,  \* provider types the composition has an adapter for
  request,   \* the runtime call in progress
  asks       \* what it does with each provider

callVars == <<configs, adapters, request, asks>>

Config == [type : ProviderTypes, enabled : BOOLEAN, timed : BOOLEAN]

\* The calls and the adapter operation each makes; title: complete with the worker's
\* signal and a fallback timeout.
OperationOf ==
  [listAll |-> "listModels", listOne |-> "listModels", test |-> "initialise",
   pull |-> "pullModel", embed |-> "embed", generate |-> "complete", title |-> "complete",
   preview |-> "listModels", previewTest |-> "complete"]

Requests == DOMAIN OperationOf
Operation == OperationOf[request.op]
Sampled == {"listAll", "listOne", "test"}
Probes == {"preview", "previewTest"}

\* eligible: for a generation's fallback. "rejected": the call throws, not the provider.
Result(status, code) == [status |-> status, code |-> code, category |-> "none", eligible |-> FALSE]
NoResult == Result("none", "none")

ResultOK(r) == /\ r.status \in {"none", "success", "empty", "error", "skipped", "rejected"}
               /\ r.code = "none" \/ IsPublicCode(r.code)
               /\ r.eligible \in BOOLEAN

\* pc: asking in fetch, reading the body, sampling in healthSamples.recordSample.
\* first: which of the deadline and the caller aborted first; cause, status: what ended it.
Unasked == [pc |-> "off", fired |-> FALSE, cancelled |-> FALSE, first |-> "none",
            cause |-> "none", status |-> NoStatus, result |-> NoResult, sample |-> NoResult]

\* Every code a caller is given is one isPublicLlmErrorCode knows: a code of the other list
\* would leave the sample's error out of the log.
CallTypeOK ==
  /\ configs \in [Called -> Config] /\ adapters \subseteq ProviderTypes
  /\ request \in [op : Requests \cup {"none"}, answered : BOOLEAN]
  /\ \A p \in Called :
       /\ asks[p].pc \in {"off", "asking", "reading", "sampling", "done"}
       /\ asks[p].first \in {"none", "deadline", "caller"}
       /\ ResultOK(asks[p].result) /\ ResultOK(asks[p].sample)

CallInit ==
  /\ configs \in [Called -> Config]
  /\ adapters \in {ProviderTypes, {"openai"}}
  /\ request = [op |-> "none", answered |-> FALSE]
  /\ asks = [p \in Called |-> Unasked]

-----------------------------------------------------------------------------
(* What is decided before a provider is asked.                             *)

Capable(type, op) == op # "pullModel" \/ type = "ollama"

\* "none": go and ask.  test: initialise returns at once when the provider is disabled.
Before(op, config) ==
  LET usable == config.enabled \/ op \in Probes
  IN IF op \in {"embed", "generate", "title"} /\ (~usable \/ config.type \notin adapters)
     THEN Result("rejected", "none")
     ELSE IF op = "listAll" /\ config.type \notin adapters
     THEN Result("error", "LLM_PROVIDER_CAPABILITY_UNSUPPORTED")
     ELSE IF config.type \notin adapters THEN Result("error", "ADAPTER_UNAVAILABLE")
     ELSE IF ~Capable(config.type, OperationOf[op])
     THEN Result("error", "LLM_PROVIDER_CAPABILITY_UNSUPPORTED")
     ELSE IF op = "listOne" /\ ~usable THEN Result("skipped", "none")
     ELSE IF op = "test" /\ ~usable THEN Result("success", "none")
     ELSE NoResult

TimedByConfig(op, config) == config.timed

\* buildAbortSignal and buildCompletionAbort; the probes cap every timeout.
Timed(op, config) == config.timed \/ op \in Probes \cup {"test", "title"}

\* Bodies are never read by these.
Bodiless(type, op) == type = "ollama" /\ op \in {"initialise", "pullModel"}

\* The embedding of Ollama never calls setStage.
StageOf(p) == IF asks[p].pc = "asking" \/ (configs[p].type = "ollama" /\ Operation = "embed")
              THEN "upstream_request" ELSE "response_parse"

MalformedCode == [initialise |-> "MALFORMED_MODEL_LIST", listModels |-> "MALFORMED_MODEL_LIST",
                  complete |-> "MALFORMED_RESPONSE", embed |-> "MALFORMED_EMBEDDING_RESPONSE"]

\* The catch around res.json(), where there is one: it takes every error for malformed JSON.
FromJson(type, op, e) ==
  IF type = "openai" \/ op = "embed" THEN Own("provider", MalformedCode[op]) ELSE e

\* What the adapter makes of JSON of the wrong shape; a completion of Ollama defaults to "".
WrongShape(type, op) ==
  IF type = "openai" \/ op = "embed" THEN Own("provider", MalformedCode[op]) ELSE Plain("TypeError")

-----------------------------------------------------------------------------
SettleAsk(p, a, result) ==
  asks' = [asks EXCEPT ![p] = [a EXCEPT !.result = result,
                                 !.pc = IF request.op \in Sampled THEN "sampling" ELSE "done"]]

\* The catch of runProviderOperation and what its caller makes of the error.
Fails(p, e, cause, status) ==
  LET a == asks[p]
      aborted == AbortCause(a.fired, a.cancelled, a.first)
      f == Classify(configs[p].type, Operation, StageOf(p), e, aborted)
  IN SettleAsk(p, [a EXCEPT !.cause = cause, !.status = status],
            [status |-> "error", code |-> PublicCode(Normalized(f.error)),
             category |-> f.category, eligible |-> FallbackEligible(f)])

Succeeds(p) ==
  SettleAsk(p, [asks[p] EXCEPT !.cause = "answered"], Result("success", "none"))

\* A completion without text: an error of the probe; a generation goes on to its own check.
AnswersNothing(p) ==
  SettleAsk(p, [asks[p] EXCEPT !.cause = "answered"],
         Result(IF request.op = "previewTest" THEN "error" ELSE "empty", "none"))

\* The service functions; listAvailableModels asks every active provider at once.
Ask(op, targets) ==
  /\ request.op = "none"
  /\ request' = [op |-> op, answered |-> FALSE]
  /\ asks' = [p \in Called |->
                LET r == Before(op, configs[p])
                IN IF p \notin targets THEN Unasked
                   ELSE IF r = NoResult THEN [Unasked EXCEPT !.pc = "asking"]
                   ELSE [Unasked EXCEPT !.pc = IF op \in Sampled THEN "sampling" ELSE "done",
                                        !.result = r]]
  /\ UNCHANGED <<configs, adapters>>

ListAll == Ask("listAll", {p \in Called : configs[p].enabled})

AskOne == \E op \in Requests \ {"listAll"}, p \in Called : Ask(op, {p})

Stays == UNCHANGED <<configs, adapters, request>>

\* The response's status and headers.
Headers(p) ==
  /\ asks[p].pc = "asking" /\ Stays
  /\ \/ ~Bodiless(configs[p].type, Operation) /\ asks' = [asks EXCEPT ![p].pc = "reading"]
     \/ Bodiless(configs[p].type, Operation) /\ Succeeds(p)
     \/ \E s \in CallStatuses : Fails(p, HttpError(configs[p].type, Operation, s), "status", s)

CannotConnect(p) ==
  /\ asks[p].pc = "asking" /\ Stays
  /\ \E system \in {"none", "ECONNREFUSED"} :
       Fails(p, Error("FetchError", "other", "none", NoStatus, system), "refused", NoStatus)

\* The response's body: an answer, something that is no JSON, null, or another shape.
Body(p) ==
  /\ asks[p].pc = "reading" /\ Stays
  /\ LET Op == Operation  type == configs[p].type
     IN \/ Succeeds(p)
        \/ Fails(p, FromJson(type, Op, Plain("SyntaxError")), "body", NoStatus)
        \/ Fails(p, Plain("TypeError"), "body", NoStatus)
        \/ IF type = "ollama" /\ Op = "complete" THEN AnswersNothing(p)
           ELSE Fails(p, WrongShape(type, Op), "body", NoStatus)

BreakOff(p) ==
  /\ asks[p].pc = "reading" /\ Stays
  /\ Fails(p, FromJson(configs[p].type, Operation,
                       Error("FetchError", "other", "none", NoStatus, "ECONNRESET")), "reset", NoStatus)

InFlight(p) == asks[p].pc \in {"asking", "reading"}

Fire(p, signal) ==
  asks' = [asks EXCEPT ![p].first = IF @ = "none" THEN signal ELSE @,
                       ![p].fired = @ \/ signal = "deadline",
                       ![p].cancelled = @ \/ signal = "caller"]

TimeOut(p) ==
  /\ InFlight(p) /\ Timed(request.op, configs[p]) /\ ~asks[p].fired /\ Stays
  /\ Fire(p, "deadline")

CancelTitle(p) ==
  /\ InFlight(p) /\ request.op = "title" /\ ~asks[p].cancelled /\ Stays
  /\ Fire(p, "caller")

\* fetch or res.json() rejects with AbortError once a signal has fired.
AbortRaised(p) ==
  LET abort == Error("other", "AbortError", "none", NoStatus, "none")
  IN /\ InFlight(p) /\ asks[p].first # "none" /\ Stays
     /\ Fails(p, IF asks[p].pc = "asking" THEN abort
                 ELSE FromJson(configs[p].type, Operation, abort), asks[p].first, NoStatus)

RecordUp(p) ==
  /\ asks[p].pc = "sampling" /\ Stays
  /\ asks' = [asks EXCEPT ![p].pc = "done", ![p].sample = Result("success", "none")]

\* recordProviderSampleSafely: a failed write is logged and forgotten.
RecordSample(p) ==
  /\ asks[p].pc = "sampling" /\ Stays
  /\ \E written \in BOOLEAN :
       asks' = [asks EXCEPT ![p].pc = "done",
                            ![p].sample = IF written THEN asks[p].result ELSE @]

\* Promise.all, or the end of a single call.
AnswerCall ==
  /\ request.op # "none" /\ ~request.answered
  /\ \A p \in Called : asks[p].pc \in {"off", "done"}
  /\ request' = [request EXCEPT !.answered = TRUE]
  /\ UNCHANGED <<configs, adapters, asks>>

Forget ==
  /\ request.answered
  /\ request' = [op |-> "none", answered |-> FALSE]
  /\ asks' = [p \in Called |-> Unasked]
  /\ UNCHANGED <<configs, adapters>>

CallNext ==
  \/ ListAll \/ AskOne \/ AnswerCall \/ Forget
  \/ \E p \in Called :
       \/ Headers(p) \/ CannotConnect(p) \/ Body(p) \/ BreakOff(p)
       \/ TimeOut(p) \/ CancelTitle(p) \/ AbortRaised(p) \/ RecordSample(p)

\* Timers, the event loop and the database go on; upstreams need not.
CallFairness ==
  /\ \A p \in Called : WF_callVars(TimeOut(p)) /\ WF_callVars(AbortRaised(p) \/ RecordSample(p))
  /\ WF_callVars(AnswerCall)

CallSpec == CallInit /\ [][CallNext]_callVars /\ CallFairness

-----------------------------------------------------------------------------
Transient(a) == \/ a.cause \in {"refused", "reset", "deadline"}
                \/ a.cause = "status" /\ a.status \in {404, 429} \cup 500..599

\* A completion goes to another provider only for what this one had no chance to answer:
\* an answer, good, malformed or refused, and a cancelled call never do, whichever of the
\* deadline, the caller and the body came first.
CallFallbackIsDeserved ==
  \A p \in Called :
    request.op # "none" /\ Operation = "complete" /\ asks[p].result.eligible => Transient(asks[p])

\* No provider is reported or sampled as working unless it answered, whatever signals fired
\* meanwhile, except that the test of a disabled provider never asks it; and an answer is
\* not made an error by a signal that fired late.
SuccessWasAnswered ==
  \A p \in Called :
    /\ "success" \in {asks[p].result.status, asks[p].sample.status} =>
         asks[p].cause = "answered" \/ (request.op = "test" /\ ~configs[p].enabled)
    /\ asks[p].cause = "answered" /\ request.op # "previewTest" => asks[p].result.status # "error"

\* A test, a probe, a title, and any call whose providers all have a timeout, is answered,
\* whatever other providers of the same listing do.
BoundedCallsEnd ==
  (request.op # "none" /\
   \A p \in Called : InFlight(p) =>
     configs[p].timed \/ request.op \in {"test", "title", "preview", "previewTest"})
    ~> (request.op = "none" \/ request.answered)

\* What the adapter's own deadline or the caller aborted is classified as such
\* (docs/provider-observability.md:42), also when both signals have fired, unless the catch
\* around res.json() has taken the abort for malformed JSON.
AbortIsNamed ==
  \A p \in Called :
    asks[p].cause \in {"deadline", "caller"} /\ asks[p].result.code \notin MalformedCodes =>
      asks[p].result.category = (IF asks[p].cause = "deadline" THEN "timeout" ELSE "cancelled")
=============================================================================
