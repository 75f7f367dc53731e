----------------------------- MODULE MCProviders -----------------------------
(* Instances of what is asked of LLM providers for TLC: one reply of the   *)
(* chat, one streamed completion over every short body, or the one-answer  *)
(* calls to two providers.                                                 *)
EXTENDS ProviderRequests, TLC

CONSTANTS p1, p2

MCBodies ==
  SeqOf(FrameKinds, 2) \cup {<<"text">> \o s : s \in SeqOf({"text", "stop", "bad", "DONE"}, 2)}

NoChat ==
  /\ gen = [Fresh(FALSE) EXCEPT !.pc = "ended"] /\ controller = "ended"
  /\ iterator = [requests |-> <<>>, next |-> "end", return |-> "end"]
  /\ client = [closed |-> TRUE, shown |-> FALSE, last |-> "nothing"]
  /\ messages = <<>> /\ usage = <<>> /\ promoted = 0 /\ faults = 0

NoStream ==
  /\ upstream = [type |-> "openai", status |-> OK, kinds |-> <<>>, crlf |-> FALSE,
                 tail |-> "whole", timed |-> FALSE]
  /\ wire = <<>> /\ stream = [Unused EXCEPT !.pc = "over"]

NoCalls ==
  /\ configs = [p \in Called |-> [type |-> "ollama", enabled |-> FALSE, timed |-> FALSE]]
  /\ adapters = {} /\ asks = [p \in Called |-> Unasked]
  /\ request = [op |-> "none", answered |-> FALSE]

\* Without a timeout, and for the line ends of Ollama, the shortest bodies are enough; the
\* first provider is any, the second one of each type.
MCInit ==
  \/ Init /\ NoStream /\ NoCalls
  \/ /\ StreamInit /\ NoChat /\ NoCalls
     /\ \/ upstream.timed /\ (upstream.crlf => upstream.type = "openai")
        \/ Len(upstream.kinds) <= 1
  \/ /\ CallInit /\ NoChat /\ NoStream
     /\ configs[p2].enabled /\ configs[p2].timed = (configs[p2].type = "openai")
     /\ adapters = ProviderTypes \/ ~configs[p2].timed

MCNext ==
  \/ Next /\ UNCHANGED <<streamVars, callVars>>
  \/ StreamNext /\ UNCHANGED <<vars, callVars>>
  \/ adapters # {} /\ CallNext /\ UNCHANGED <<vars, streamVars>>

MCSpec ==
  MCInit /\ [][MCNext]_<<vars, streamVars, callVars>> /\ Fairness /\ StreamFairness
  /\ CallFairness
=============================================================================
