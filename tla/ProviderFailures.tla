-------------------------- MODULE ProviderFailures --------------------------
(***************************************************************************)
(* What the adapters make of a failure: llm.failure.ts, llm.safeError.ts   *)
(* and the abort causes of llm.base.ts.  An error is what is thrown inside *)
(* an adapter; Classify gives the error the caller sees, its diagnosis and *)
(* whether a generation may go to another provider.                        *)
(***************************************************************************)
EXTENDS Naturals, Sequences

ProviderTypes == {"ollama", "openai"}
Operations == {"initialise", "listModels", "complete", "stream", "embed", "pullModel"}
Stages == {"upstream_request", "response_parse", "stream_read"}
NoStatus == 0

\* class: the constructor, as far as instanceof is asked; name: Error.name; system: a
\* network code that safeErrorDiagnostic found on the error or its cause.
Error(class, name, code, status, system) ==
  [class |-> class, name |-> name, code |-> code, status |-> status, system |-> system]

Plain(class) == Error(class, "other", "none", NoStatus, "none")
Own(class, code) == Error(class, "other", code, NoStatus, "none")

-----------------------------------------------------------------------------
(* Errors an adapter makes itself.                                         *)

\* providerHttpError; "HTTP" stands for HTTP_<status>.
HttpCode(type, op, status) ==
  IF type = "openai" /\ op # "stream" /\ status \in {401, 403} THEN "AUTHENTICATION_ERROR"
  ELSE IF type = "openai" /\ op # "stream" /\ status = 429 THEN "RATE_LIMITED"
  ELSE IF type = "openai" /\ op \in {"listModels", "initialise"} /\ status \in {404, 405}
       THEN "MODEL_LISTING_UNSUPPORTED"
  ELSE IF type = "ollama" /\ op = "initialise" THEN "HEALTH_CHECK_FAILED"
  ELSE "HTTP"

HttpError(type, op, status) ==
  Error(IF op = "stream" /\ HttpCode(type, op, status) = "HTTP" THEN "streaming" ELSE "provider",
        "other", HttpCode(type, op, status), status, "none")

\* genericError, for whatever the adapter did not make.
GenericCode(type, op, aborted) ==
  IF aborted THEN "REQUEST_TIMEOUT"
  ELSE [initialise |-> IF type = "ollama" THEN "CONNECTION_ERROR" ELSE "LIST_MODELS_FAILED",
        listModels |-> "LIST_MODELS_FAILED", pullModel |-> "PULL_MODEL_FAILED",
        embed |-> "EMBEDDINGS_FAILED", stream |-> "UPSTREAM_STREAM_ERROR",
        complete |-> "UPSTREAM_ERROR"][op]

MalformedCodes ==
  {"MALFORMED_RESPONSE", "MALFORMED_STREAM_CHUNK", "MALFORMED_MODEL_LIST", "MALFORMED_EMBEDDING_RESPONSE"}

AnyDeadline(timedOut, cancelled, first) ==
  IF timedOut THEN "deadline" ELSE IF cancelled THEN "local_cancel" ELSE "none"

\* The cause a completion may report: its own deadline, or the caller's signal.
\* timedOut, cancelled: the signals that have fired; first: the one that fired first.
AbortCause(timedOut, cancelled, first) ==
  IF ~timedOut /\ ~cancelled THEN "none"
  ELSE IF first = "caller" THEN "local_cancel" ELSE "deadline"

-----------------------------------------------------------------------------
(* classifyProviderFailure.                                                *)

Classify(type, op, stage, e, cause) ==
  LET aborted == e.name = "AbortError" \/ (cause = "deadline" /\ e.name = "TimeoutError")
      confirmed == IF aborted THEN cause ELSE "none"
      own == e.class \in {"provider", "streaming"}
      normal == IF e.class = "capability" THEN e
                ELSE IF own THEN [e EXCEPT !.class = IF op = "stream" THEN "streaming" ELSE @]
                ELSE Error(IF op = "stream" THEN "streaming" ELSE "provider", "other",
                           GenericCode(type, op, aborted), NoStatus, "none")
      status == IF normal.status \in 100..599 THEN normal.status ELSE NoStatus
      malformed == \/ normal.code \in MalformedCodes
                   \/ stage = "response_parse" /\ e.class \in {"SyntaxError", "TypeError"}
      at == IF ~malformed THEN stage ELSE IF op = "stream" THEN "stream_read" ELSE "response_parse"
      verdict ==
        IF confirmed = "local_cancel" THEN <<"cancelled", "no">>
        ELSE IF confirmed = "deadline" THEN <<"timeout", "yes">>
        ELSE IF malformed THEN <<"malformed_response", "no">>
        ELSE IF e.class = "capability" \/ normal.code = "MODEL_LISTING_UNSUPPORTED" THEN <<"capability", "no">>
        ELSE IF e.class = "input" \/ normal.code = "PROVIDER_INVALID_REQUEST" THEN <<"invalid_request", "no">>
        ELSE IF normal.code = "AUTHENTICATION_ERROR" \/ status \in {401, 403} THEN <<"authentication", "no">>
        ELSE IF normal.code = "RATE_LIMITED" \/ status = 429 THEN <<"rate_limit", "yes">>
        ELSE IF status # NoStatus THEN <<"http", IF status >= 500 THEN "yes" ELSE "unknown">>
        ELSE IF e.system # "none" \/ normal.code = "CONNECTION_ERROR" THEN <<"connection", "yes">>
        ELSE IF at = "upstream_request" /\ ~aborted /\ e.class \in {"TypeError", "FetchError"}
        THEN <<"connection", "yes">>
        ELSE <<IF at = "stream_read" /\ ~aborted THEN "stream" ELSE "unknown", "unknown">>
  IN [error |-> normal, status |-> status, stage |-> at, category |-> verdict[1],
      retryable |-> verdict[2],
      notFound |-> status = 404 /\ normal.code = "HTTP" /\ op \in {"complete", "stream"}]

EligibleUnlessRefused(f) == f.retryable # "no" \/ f.notFound

\* isGenerationFallbackEligible
FallbackEligible(f) == f.retryable = "yes" \/ f.notFound

-----------------------------------------------------------------------------
(* What the public is told: llm.safeError.ts.                              *)

PublicErrors ==
  {"AUTHENTICATION_ERROR", "RATE_LIMITED", "MODEL_LISTING_UNSUPPORTED", "REQUEST_TIMEOUT",
   "CONNECTION_ERROR", "UPSTREAM_ERROR", "UPSTREAM_STREAM_ERROR", "LIST_MODELS_FAILED",
   "PULL_MODEL_FAILED", "EMBEDDINGS_FAILED", "PROVIDER_INVALID_REQUEST"} \cup MalformedCodes

\* getPublicLlmErrorCode; HTTP_<status> only with a status that HTTP has.
PublicCode(e) ==
  IF e.class = "capability" THEN "LLM_PROVIDER_CAPABILITY_UNSUPPORTED"
  ELSE IF e.class \notin {"provider", "streaming"} THEN "none"
  ELSE IF e.code = "AUTHENTICATION_ERROR" THEN "PROVIDER_AUTHENTICATION_ERROR"
  ELSE IF e.code \in PublicErrors \cup {"HEALTH_CHECK_FAILED"} THEN e.code
  ELSE IF e.code = "HTTP" /\ e.status \in 100..599 THEN "HTTP" ELSE "none"

IsListedCode(code) ==
  code \in PublicErrors \cup {"PROVIDER_AUTHENTICATION_ERROR", "HTTP",
                              "LLM_PROVIDER_CAPABILITY_UNSUPPORTED", "ADAPTER_UNAVAILABLE"}

\* isPublicLlmErrorCode, the other list of the same codes.
IsPublicCode(code) ==
  code \in PublicErrors \cup {"PROVIDER_AUTHENTICATION_ERROR", "HEALTH_CHECK_FAILED", "HTTP",
                              "LLM_PROVIDER_CAPABILITY_UNSUPPORTED", "ADAPTER_UNAVAILABLE"}

\* normalizeAdapterError: an input error of an adapter is not the user's.
Normalized(e) == IF e.class = "input" THEN Own("provider", "PROVIDER_INVALID_REQUEST") ELSE e
=============================================================================
