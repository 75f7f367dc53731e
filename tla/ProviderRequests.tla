-------------------------- MODULE ProviderRequests --------------------------
(***************************************************************************)
(* What the API asks of LLM providers: the reply of a chat                 *)
(* (ChatGeneration), a streamed completion (ProviderStream), and the calls *)
(* with one answer (ProviderCalls).  They share how failures are named     *)
(* (ProviderFailures), and no state.                                       *)
(***************************************************************************)
EXTENDS ChatGeneration, ProviderStream, ProviderCalls

\* What each keeps is of its type.
TypesOK == TypeOK /\ StreamTypeOK /\ CallTypeOK

\* Every request of a provider comes to an end, if it is bounded.
RequestsEnd == GenerationEnds /\ TimedStreamEnds /\ BoundedCallsEnd

\* Failures are what they are called, for what is done about them: another provider, a
\* sample, an answer to the caller.
FailuresAreNamed ==
  StreamFallbackIsDeserved /\ CallFallbackIsDeserved /\ SuccessWasAnswered /\ AbortIsNamed

\* A streamed answer is its body, neither more nor less, and success is that of a whole one.
StreamIsTheBody == AnswerIsTheBody /\ CutAnswerIsNoSuccess

\* The three at once; none waits for another.
ProviderParts == Spec /\ StreamSpec /\ CallSpec
=============================================================================
