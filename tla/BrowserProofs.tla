---------------------------- MODULE BrowserProofs ----------------------------
(***************************************************************************)
(* Theorems about the browser's parts: the job-event client for any        *)
(* number of features, jobs, requests and frames; the chat page for any    *)
(* sessions, prompts and pieces; the provider page for any providers,      *)
(* details and models; each for any number of acts and faults.             *)
(***************************************************************************)
EXTENDS Browser, TLAPS, WellFoundedInduction, SequenceTheorems, FiniteSetTheorems

\* A set of numbers that is not empty has a smallest.
LEMMA HasSmallest ==
  ASSUME NEW S \in SUBSET Nat, S # {}
  PROVE  \E x \in S : \A y \in S : x <= y
<1>1. PICK x \in S : \A y \in S : <<y, x>> \notin OpToRel(<, Nat)
  BY NatLessThanWellFounded, WFMin, Zenon
<1>2. \A y \in S : ~(y < x)
  BY <1>1, Zenon DEF OpToRel
<1> QED BY <1>2

-----------------------------------------------------------------------------
(* What a client keeps, of any client: stop, connect and reconcile are     *)
(* functions of one.                                                       *)

\* A request that can be believed: its frames are of its workspace, and a 401 is about a
\* token the server has rejected.
Honest(q) ==
  /\ Len(q.frames) <= MaxFrames
  /\ \A k \in DOMAIN q.frames : q.frames[k] # "ready" => jobWorkspace[q.frames[k]] = q.workspace
  /\ q.answer = "unauthorized" => q.token \in expired

\* A request under way is the current one, for what the client follows, or aborted.
Follows(c, i) ==
  c.requests[i].state # "free" =>
    IF i = c.controller
    THEN ~c.requests[i].aborted /\ <<c.requests[i].workspace, c.requests[i].types>> = c.activeKey
    ELSE c.requests[i].aborted

Kept(c) == c \in Client /\ \A i \in Requests : Honest(c.requests[i]) /\ Follows(c, i)

\* The current request is under way, and no retry waits beside it.
Held(c) ==
  Kept(c) /\ (c.controller # 0 => c.requests[c.controller].state # "free" /\ ~c.retryTimer)

Wants(c) == c.workspaceId # 0 /\ c.registrations # {} /\ ~c.authFailed

Serves(c) ==
  /\ Wants(c) => c.activeKey = Wanted(c) /\ (c.controller # 0 \/ c.retryTimer \/ c.blocked)
  /\ ~Wants(c) => c.controller = 0 /\ ~c.retryTimer

SameFeatures(c, d) ==
  c.workspaceId = d.workspaceId /\ c.registrations = d.registrations /\ (d.authFailed => c.authFailed)

LEMMA FreeIsHonest == FreeRequest \in Request /\ Honest(FreeRequest) /\ FreeRequest.state = "free"
<1>1. <<>> \in Seq({"ready"} \cup Jobs) /\ Len(<<>>) = 0
  OBVIOUS
<1>2. FreeRequest \in Request
  BY <1>1, ClientTypes DEF FreeRequest, Request
<1>3. Honest(FreeRequest)
  BY <1>1, ClientTypes DEF FreeRequest, Honest
<1> QED BY <1>2, <1>3 DEF FreeRequest

LEMMA WantedIsKey ==
  ASSUME NEW c \in Client
  PROVE  Wanted(c) \in (Workspaces \cup {0}) \X SUBSET Types
<1> QED BY ClientTypes DEF Client, Wanted

\* A request that has returned leaves the rest as it was.
LEMMA Returned ==
  ASSUME NEW c, Kept(c), NEW i \in Requests
  PROVE  /\ Kept(Return(c, i)) /\ i \in Free(Return(c, i))
         /\ \A d \in {Return(c, i)} :
              /\ d.workspaceId = c.workspaceId /\ d.registrations = c.registrations
              /\ d.authFailed = c.authFailed /\ d.activeKey = c.activeKey
              /\ d.controller = c.controller /\ d.retryTimer = c.retryTimer
              /\ d.blocked = c.blocked /\ d.ready = c.ready
              /\ \A j \in Requests \ {i} : d.requests[j] = c.requests[j]
<1> DEFINE d == Return(c, i)
<1>1. c \in Client /\ c.requests \in [Requests -> Request]
  BY DEF Kept, Client
<1>2. d \in Client /\ d.requests = [c.requests EXCEPT ![i] = FreeRequest]
      /\ d.workspaceId = c.workspaceId /\ d.registrations = c.registrations
      /\ d.authFailed = c.authFailed /\ d.activeKey = c.activeKey
      /\ d.controller = c.controller /\ d.retryTimer = c.retryTimer
      /\ d.blocked = c.blocked /\ d.ready = c.ready
  BY <1>1, FreeIsHonest DEF Return, Client
<1> HIDE DEF d
<1>3. d.requests[i] = FreeRequest /\ \A j \in Requests \ {i} : d.requests[j] = c.requests[j]
  BY <1>1, <1>2
<1>4. ASSUME NEW j \in Requests PROVE Honest(d.requests[j]) /\ Follows(d, j)
  <2>1. CASE j = i
    BY <1>3, <2>1, FreeIsHonest DEF Follows
  <2>2. CASE j # i
    BY <1>2, <1>3, <2>2 DEF Kept, Follows
  <2> QED BY <2>1, <2>2
<1>5. i \in Free(d)
  BY <1>3, FreeIsHonest DEF Free
<1> QED BY <1>2, <1>3, <1>4, <1>5 DEF Kept, d

\* A client that has stopped waits for nothing, and what it had under way is aborted.
LEMMA Stopped ==
  ASSUME NEW c, Kept(c)
  PROVE  /\ Held(Stop(c)) /\ Free(Stop(c)) = Free(c)
         /\ \A d \in {Stop(c)} :
              /\ d.workspaceId = c.workspaceId /\ d.registrations = c.registrations
              /\ d.authFailed = c.authFailed /\ d.blocked = c.blocked
              /\ d.controller = 0 /\ ~d.retryTimer
<1> DEFINE d == Stop(c)
           rs == [i \in Requests |-> IF i = c.controller THEN [c.requests[i] EXCEPT !.aborted = TRUE]
                                     ELSE c.requests[i]]
<1>1. c \in Client /\ c.requests \in [Requests -> Request]
  BY DEF Kept, Client
<1>2. ASSUME NEW i \in Requests
      PROVE  /\ rs[i] \in Request /\ rs[i].state = c.requests[i].state /\ Honest(rs[i])
             /\ rs[i].aborted = (i = c.controller \/ c.requests[i].aborted)
  <2>1. c.requests[i] \in Request /\ Honest(c.requests[i])
    BY <1>1 DEF Kept
  <2>2. CASE i = c.controller
    <3>1. rs[i] = [c.requests[i] EXCEPT !.aborted = TRUE]
      BY <2>2
    <3>2. /\ rs[i] \in Request /\ rs[i].state = c.requests[i].state /\ rs[i].aborted = TRUE
          /\ rs[i].frames = c.requests[i].frames /\ rs[i].workspace = c.requests[i].workspace
          /\ rs[i].answer = c.requests[i].answer /\ rs[i].token = c.requests[i].token
      BY <2>1, <3>1 DEF Request
    <3> HIDE DEF rs
    <3>3. Honest(rs[i])
      BY <2>1, <3>2 DEF Honest
    <3> QED BY <2>2, <3>2, <3>3
  <2>3. CASE i # c.controller
    BY <2>1, <2>3 DEF Request
  <2> QED BY <2>2, <2>3
<1>3. rs \in [Requests -> Request]
  BY <1>2
<1>4. NoKey \in (Workspaces \cup {0}) \X SUBSET Types
  BY DEF NoKey
<1>5. d = [c EXCEPT !.ready = FALSE, !.activeKey = NoKey, !.retryTimer = FALSE, !.controller = 0,
                    !.requests = rs]
  BY DEF Stop
<1> HIDE DEF d, rs
<1>6. /\ d \in Client /\ d.requests = rs /\ d.controller = 0 /\ d.retryTimer = FALSE
      /\ d.workspaceId = c.workspaceId /\ d.registrations = c.registrations
      /\ d.authFailed = c.authFailed /\ d.blocked = c.blocked
  BY <1>1, <1>3, <1>4, <1>5 DEF Client
<1>7. ASSUME NEW i \in Requests PROVE Follows(d, i)
  <2>1. i # 0
    BY ClientTypes DEF Requests
  <2> QED BY <1>2, <1>6, <2>1 DEF Kept, Follows
<1>8. Free(d) = Free(c)
  BY <1>2, <1>6 DEF Free
<1> QED BY <1>2, <1>6, <1>7, <1>8 DEF Held, Kept, d

\* What follows from a client with no current request depends on its requests only.
LEMMA IdleHeld ==
  ASSUME NEW c, Held(c), c.controller = 0, NEW d \in Client, d.controller = 0, d.requests = c.requests
  PROVE  Held(d) /\ Free(d) = Free(c)
<1>1. c \in Client /\ \A i \in Requests : i # 0
  BY ClientTypes DEF Held, Kept, Requests
<1> QED BY <1>1 DEF Held, Kept, Follows, Free

LEMMA Rekeyed ==
  ASSUME NEW c, Held(c), c.controller = 0, NEW key \in (Workspaces \cup {0}) \X SUBSET Types
  PROVE  /\ Held([c EXCEPT !.activeKey = key, !.blocked = FALSE])
         /\ \A d \in {[c EXCEPT !.activeKey = key, !.blocked = FALSE]} :
              /\ d.activeKey = key /\ d.controller = 0 /\ d.retryTimer = c.retryTimer
              /\ d.workspaceId = c.workspaceId /\ d.registrations = c.registrations
              /\ d.authFailed = c.authFailed /\ Free(d) = Free(c)
<1> DEFINE d == [c EXCEPT !.activeKey = key, !.blocked = FALSE]
<1>1. c \in Client
  BY DEF Held, Kept
<1>2. /\ d \in Client /\ d.activeKey = key /\ d.controller = 0 /\ d.retryTimer = c.retryTimer
      /\ d.workspaceId = c.workspaceId /\ d.registrations = c.registrations
      /\ d.authFailed = c.authFailed /\ d.requests = c.requests
  BY <1>1 DEF Client
<1> HIDE DEF d
<1> QED BY <1>2, IdleHeld DEF d

LEMMA Moved ==
  ASSUME NEW c, Held(c), c.controller = 0, NEW w \in Workspaces \cup {0}
  PROVE  /\ Held([c EXCEPT !.workspaceId = w, !.blocked = FALSE])
         /\ \A d \in {[c EXCEPT !.workspaceId = w, !.blocked = FALSE]} :
              /\ d.workspaceId = w /\ d.registrations = c.registrations /\ d.authFailed = c.authFailed
              /\ Free(d) = Free(c)
<1> DEFINE d == [c EXCEPT !.workspaceId = w, !.blocked = FALSE]
<1>1. c \in Client
  BY DEF Held, Kept
<1>2. /\ d \in Client /\ d.controller = 0 /\ d.workspaceId = w
      /\ d.registrations = c.registrations /\ d.authFailed = c.authFailed /\ d.requests = c.requests
  BY <1>1 DEF Client
<1> HIDE DEF d
<1> QED BY <1>2, IdleHeld DEF d

LEMMA FailedToAuthenticate ==
  ASSUME NEW c, Held(c), c.controller = 0
  PROVE  /\ Held([c EXCEPT !.authFailed = TRUE])
         /\ \A d \in {[c EXCEPT !.authFailed = TRUE]} :
              /\ d.workspaceId = c.workspaceId /\ d.registrations = c.registrations /\ d.authFailed
              /\ d.controller = 0 /\ d.retryTimer = c.retryTimer
<1> DEFINE d == [c EXCEPT !.authFailed = TRUE]
<1>1. c \in Client
  BY DEF Held, Kept
<1>2. /\ d \in Client /\ d.controller = 0 /\ d.workspaceId = c.workspaceId /\ d.retryTimer = c.retryTimer
      /\ d.registrations = c.registrations /\ d.authFailed = TRUE /\ d.requests = c.requests
  BY <1>1 DEF Client
<1> HIDE DEF d
<1> QED BY <1>2, IdleHeld DEF d

\* A client that connects has one request more, which is the current one.
LEMMA Connected ==
  ASSUME NEW c, Held(c), c.controller = 0, ~c.retryTimer, Free(c) # {}, NEW tok \in Tokens
  PROVE  /\ Held(Connect(c, tok))
         /\ \A d \in {Connect(c, tok)} :
              /\ d.controller # 0 /\ d.activeKey = c.activeKey /\ ~d.retryTimer
              /\ d.workspaceId = c.workspaceId /\ d.registrations = c.registrations
              /\ d.authFailed = c.authFailed
<1>1. c \in Client /\ c.requests \in [Requests -> Request] /\ tok # 0 /\ Free(c) \in SUBSET Nat
      /\ c.activeKey \in (Workspaces \cup {0}) \X SUBSET Types
  BY ClientTypes DEF Held, Kept, Client, Tokens, Free, Requests
<1> DEFINE i == CHOOSE n \in Free(c) : \A m \in Free(c) : n <= m
           q == [FreeRequest EXCEPT !.state = "sent", !.token = tok,
                                    !.workspace = c.activeKey[1], !.types = c.activeKey[2]]
           d == Connect(c, tok)
<1>2. i \in Free(c)
  BY <1>1, HasSmallest
<1>3. d = [c EXCEPT !.controller = i, !.requests[i] = q]
  BY <1>1 DEF Connect
<1>4. /\ q \in Request /\ q.state = "sent" /\ q.aborted = FALSE /\ <<q.workspace, q.types>> = c.activeKey
      /\ q.frames = <<>> /\ q.answer = "none"
  <2>1. c.activeKey[1] \in Workspaces \cup {0} /\ c.activeKey[2] \in SUBSET Types
        /\ c.activeKey = <<c.activeKey[1], c.activeKey[2]>>
    BY <1>1
  <2>2. /\ q \in Request /\ q.state = "sent" /\ q.aborted = FALSE /\ q.workspace = c.activeKey[1]
        /\ q.types = c.activeKey[2]
    BY <1>1, <2>1, FreeIsHonest DEF Request, FreeRequest
  <2>3. q.frames = <<>> /\ q.answer = "none"
    BY DEF FreeRequest
  <2> QED BY <2>1, <2>2, <2>3
<1> HIDE DEF i, q, d
<1>5. Honest(q)
  BY <1>4, ClientTypes DEF Honest
<1>6. i \in Requests /\ i # 0
  BY <1>2, ClientTypes DEF Free, Requests
<1>7. /\ d \in Client /\ d.controller = i /\ d.requests = [c.requests EXCEPT ![i] = q]
      /\ d.activeKey = c.activeKey /\ d.retryTimer = c.retryTimer
      /\ d.workspaceId = c.workspaceId /\ d.registrations = c.registrations
      /\ d.authFailed = c.authFailed
  BY <1>1, <1>3, <1>4, <1>6 DEF Client
<1>8. d.requests[i] = q /\ \A j \in Requests \ {i} : d.requests[j] = c.requests[j]
  BY <1>1, <1>6, <1>7
<1>9. ASSUME NEW j \in Requests PROVE Honest(d.requests[j]) /\ Follows(d, j)
  <2>1. CASE j = i
    BY <1>4, <1>5, <1>7, <1>8, <2>1 DEF Follows
  <2>2. CASE j # i
    <3>1. j # c.controller
      BY ClientTypes DEF Requests
    <3> QED BY <1>7, <1>8, <2>2, <3>1 DEF Held, Kept, Follows
  <2> QED BY <2>1, <2>2
<1>10. Held(d)
  BY <1>4, <1>7, <1>8, <1>9 DEF Held, Kept
<1> QED BY <1>6, <1>7, <1>10 DEF d

\* A client that has reconciled serves the features that are there, for any client and
\* any token.
LEMMA Reconciles ==
  ASSUME NEW c, Held(c), Free(c) # {}, NEW tok \in Tokens \cup {0}
  PROVE  /\ Held(Reconcile(c, tok)) /\ Serves(Reconcile(c, tok))
         /\ SameFeatures(Reconcile(c, tok), c)
         /\ Reconcile(c, tok).authFailed => c.authFailed \/ tok = 0
<1> DEFINE d == Reconcile(c, tok)
<1>0. Kept(c) /\ c \in Client
  BY DEF Held, Kept
<1>1. CASE ~Wants(c)
  <2>1. d = Stop(c)
    BY <1>1 DEF Reconcile, Wants
  <2> HIDE DEF d
  <2>2. Held(d) /\ d.controller = 0 /\ ~d.retryTimer /\ d.authFailed = c.authFailed
        /\ d.workspaceId = c.workspaceId /\ d.registrations = c.registrations
    BY <1>0, <2>1, Stopped
  <2> QED BY <1>1, <2>2 DEF Serves, Wants, SameFeatures, d
<1>2. CASE Wants(c) /\ Wanted(c) = c.activeKey /\ (c.controller # 0 \/ c.retryTimer \/ c.blocked)
  <2>1. d = c
    BY <1>2 DEF Reconcile, Wants
  <2> QED BY <1>2, <2>1 DEF Serves, SameFeatures
<1>3. CASE Wants(c) /\ ~(Wanted(c) = c.activeKey /\ (c.controller # 0 \/ c.retryTimer \/ c.blocked))
  <2> DEFINE key == Wanted(c)
             s == Stop(c)
             e == [s EXCEPT !.activeKey = key, !.blocked = FALSE]
  <2>1. d = Connect(e, tok)
    BY <1>3 DEF Reconcile, Wants
  <2>2. key \in (Workspaces \cup {0}) \X SUBSET Types
    BY <1>0, WantedIsKey
  <2>3. /\ Held(s) /\ s.controller = 0 /\ ~s.retryTimer /\ Free(s) = Free(c)
        /\ s.workspaceId = c.workspaceId /\ s.registrations = c.registrations
        /\ s.authFailed = c.authFailed
    BY <1>0, Stopped
  <2> HIDE DEF s, d
  <2> HIDE DEF key
  <2>4. /\ Held(e) /\ e.controller = 0 /\ ~e.retryTimer /\ e.activeKey = key
        /\ e.workspaceId = c.workspaceId /\ e.registrations = c.registrations
        /\ e.authFailed = c.authFailed /\ Free(e) = Free(c)
    <3>1. /\ Held(e) /\ e.activeKey = key /\ e.controller = 0 /\ e.retryTimer = s.retryTimer
          /\ e.workspaceId = s.workspaceId /\ e.registrations = s.registrations
          /\ e.authFailed = s.authFailed /\ Free(e) = Free(s)
      BY <2>2, <2>3, Rekeyed
    <3> HIDE DEF e
    <3> QED BY <2>3, <3>1
  <2> HIDE DEF e
  <2>6. CASE tok = 0
    <3>1. d = [Stop(e) EXCEPT !.authFailed = TRUE]
      BY <2>1, <2>6 DEF Connect
    <3>2. /\ Held(Stop(e)) /\ Stop(e).controller = 0 /\ ~Stop(e).retryTimer
          /\ Stop(e).workspaceId = c.workspaceId /\ Stop(e).registrations = c.registrations
      BY <2>4, Stopped DEF Held
    <3>3. /\ Held(d) /\ d.controller = 0 /\ ~d.retryTimer /\ d.authFailed
          /\ d.workspaceId = c.workspaceId /\ d.registrations = c.registrations
      BY <3>1, <3>2, FailedToAuthenticate
    <3> QED BY <2>6, <3>3 DEF Serves, Wants, SameFeatures, d
  <2>7. CASE tok # 0
    <3>1. /\ Held(d) /\ d.controller # 0 /\ d.activeKey = key /\ d.authFailed = c.authFailed
          /\ d.workspaceId = c.workspaceId /\ d.registrations = c.registrations
      BY <1>3, <2>1, <2>4, <2>7, Connected
    <3>2. Wanted(d) = key
      BY <3>1 DEF Wanted, key
    <3> QED BY <1>3, <3>1, <3>2 DEF Serves, Wants, SameFeatures, d
  <2> QED BY <2>6, <2>7
<1> QED BY <1>1, <1>2, <1>3

-----------------------------------------------------------------------------
(* The client and the session of its user, together.                       *)

\* Who is logged in: a client without a token has failed to authenticate, and one that
\* has not has logged nobody out.
InSession ==
  /\ token \in Tokens \cup {0} /\ expired \subseteq Tokens /\ logouts \in 0..1
  /\ ~client.authFailed => logouts = 0
  /\ token = 0 => client.authFailed

ClientKept == Held(client) /\ Serves(client) /\ InSession /\ final \subseteq Jobs

\* A client with the same requests, followed for the same.
LEMMA SameRequests ==
  ASSUME NEW c, Held(c), NEW d \in Client, d.requests = c.requests, d.controller = c.controller,
         d.activeKey = c.activeKey, d.retryTimer => c.retryTimer
  PROVE  Held(d) /\ Free(d) = Free(c)
<1> QED BY DEF Held, Kept, Follows, Free

\* A request that goes on, for what it was sent for.
LEMMA Renewed ==
  ASSUME NEW c, Held(c), NEW i \in Requests, NEW q \in Request, Honest(q), q.state # "free",
         c.requests[i].state # "free", q.aborted = c.requests[i].aborted,
         q.workspace = c.requests[i].workspace, q.types = c.requests[i].types
  PROVE  /\ Held([c EXCEPT !.requests[i] = q])
         /\ \A d \in {[c EXCEPT !.requests[i] = q]} :
              /\ d.workspaceId = c.workspaceId /\ d.registrations = c.registrations
              /\ d.authFailed = c.authFailed /\ d.activeKey = c.activeKey
              /\ d.controller = c.controller /\ d.retryTimer = c.retryTimer
              /\ d.blocked = c.blocked /\ d.ready = c.ready
<1> DEFINE d == [c EXCEPT !.requests[i] = q]
<1>1. c \in Client /\ c.requests \in [Requests -> Request]
  BY DEF Held, Kept, Client
<1>2. /\ d \in Client /\ d.requests = [c.requests EXCEPT ![i] = q]
      /\ d.workspaceId = c.workspaceId /\ d.registrations = c.registrations
      /\ d.authFailed = c.authFailed /\ d.activeKey = c.activeKey
      /\ d.controller = c.controller /\ d.retryTimer = c.retryTimer
      /\ d.blocked = c.blocked /\ d.ready = c.ready
  BY <1>1 DEF Client
<1> HIDE DEF d
<1>3. d.requests[i] = q /\ \A j \in Requests \ {i} : d.requests[j] = c.requests[j]
  BY <1>1, <1>2
<1>4. ASSUME NEW j \in Requests PROVE Honest(d.requests[j]) /\ Follows(d, j)
  <2>1. Honest(c.requests[j]) /\ Follows(c, j) /\ Follows(c, i)
    BY DEF Held, Kept
  <2>2. CASE j = i
    BY <1>2, <1>3, <2>1, <2>2 DEF Follows
  <2>3. CASE j # i
    BY <1>2, <1>3, <2>1, <2>3 DEF Follows
  <2> QED BY <2>2, <2>3
<1>5. d.controller # 0 => d.requests[d.controller].state # "free" /\ ~d.retryTimer
  <2>1. CASE d.controller = i
    BY <1>2, <1>3, <2>1 DEF Held
  <2>2. CASE d.controller # i
    BY <1>1, <1>2, <1>3, <2>2 DEF Held, Client
  <2> QED BY <2>1, <2>2
<1> QED BY <1>2, <1>4, <1>5 DEF Held, Kept, d

\* The current request comes to its end.
LEMMA Ended ==
  ASSUME NEW c, Held(c), NEW i \in Requests, c.controller = i, NEW d \in Client, d.controller = 0,
         d.requests = Return(c, i).requests
  PROVE  Held(d)
<1>1. Kept(c) /\ c \in Client /\ c.requests \in [Requests -> Request] /\ i # 0 /\ \A j \in Requests : j # 0
  BY ClientTypes DEF Held, Kept, Client, Requests
<1>2. d.requests = [c.requests EXCEPT ![i] = FreeRequest]
  BY <1>1 DEF Return, Client
<1>3. d.requests[i] = FreeRequest /\ \A j \in Requests \ {i} : d.requests[j] = c.requests[j]
  BY <1>1, <1>2
<1>4. ASSUME NEW j \in Requests PROVE Honest(d.requests[j]) /\ Follows(d, j)
  <2>1. CASE j = i
    BY <1>3, <2>1, FreeIsHonest DEF Follows
  <2>2. CASE j # i
    BY <1>1, <1>3, <2>2 DEF Kept, Follows
  <2> QED BY <2>1, <2>2
<1> QED BY <1>4 DEF Held, Kept

\* Another one leaves the client as it was.
LEMMA ReturnedAside ==
  ASSUME NEW c, Held(c), NEW i \in Requests, c.controller # i
  PROVE  Held(Return(c, i))
<1> DEFINE d == Return(c, i)
<1>1. Kept(c) /\ c \in Client
  BY DEF Held, Kept
<1>2. /\ Kept(d) /\ d.controller = c.controller /\ d.retryTimer = c.retryTimer
      /\ \A j \in Requests \ {i} : d.requests[j] = c.requests[j]
  BY <1>1, Returned
<1> HIDE DEF d
<1>3. c.controller \in Requests \cup {0}
  BY <1>1 DEF Client
<1> QED BY <1>2, <1>3 DEF Held, d

\* What becomes of the session when a step leaves the client at c.
LEMMA Became ==
  ASSUME ClientKept, NEW c, Held(c), Serves(c), client.authFailed => c.authFailed, Becomes(c),
         UNCHANGED <<expired, final>>
  PROVE  /\ ClientKept' /\ client' = c
         /\ logouts' # logouts => c.authFailed /\ ~client.authFailed
<1>1. client' = c
  BY DEF Becomes
<1>2. Held(client)' /\ Serves(client)'
  BY <1>1 DEF Held, Kept, Honest, Follows, Free, Serves, Wants, Wanted
<1>3. c.authFailed \in BOOLEAN /\ client.authFailed \in BOOLEAN
  BY DEF ClientKept, Held, Kept, Client
<1>4. InSession'
  BY <1>1, <1>3 DEF ClientKept, InSession, Becomes
<1> QED BY <1>1, <1>2, <1>4 DEF ClientKept, Becomes

\* A client that is as it was, but for one request, still serves.
LEMMA StillServes ==
  ASSUME NEW c, Serves(c), NEW d, d.workspaceId = c.workspaceId, d.registrations = c.registrations,
         d.authFailed = c.authFailed, d.activeKey = c.activeKey, d.controller = c.controller,
         d.retryTimer = c.retryTimer, d.blocked = c.blocked
  PROVE  Serves(d)
<1> QED BY DEF Serves, Wants, Wanted

\* The server adds to a request, and to nothing else.
LEMMA ServerAdds ==
  ASSUME ClientKept, NEW i \in Requests, NEW q \in Request, Honest(q), q.state # "free",
         client.requests[i].state # "free", q.aborted = client.requests[i].aborted,
         q.workspace = client.requests[i].workspace, q.types = client.requests[i].types,
         SetRequest(i, q)
  PROVE  ClientKept'
<1> DEFINE d == [client EXCEPT !.requests[i] = q]
<1>1. Held(client) /\ Serves(client) /\ InSession
  BY DEF ClientKept
<1>2. /\ Held(d) /\ d.workspaceId = client.workspaceId /\ d.registrations = client.registrations
      /\ d.authFailed = client.authFailed /\ d.activeKey = client.activeKey
      /\ d.controller = client.controller /\ d.retryTimer = client.retryTimer
      /\ d.blocked = client.blocked
  BY <1>1, Renewed
<1>3. client' = d /\ UNCHANGED <<token, expired, final, logouts>>
  BY DEF SetRequest
<1> HIDE DEF d
<1>4. Serves(d)
  BY <1>1, <1>2, StillServes
<1>5. Held(client)' /\ Serves(client)'
  BY <1>2, <1>3, <1>4 DEF Held, Kept, Honest, Follows, Free, Serves, Wants, Wanted
<1>6. InSession'
  BY <1>1, <1>2, <1>3 DEF InSession
<1> QED BY <1>3, <1>5, <1>6 DEF ClientKept

LEMMA ClientKeptStart == Init => ClientKept
<1> SUFFICES ASSUME Init PROVE ClientKept
  OBVIOUS
<1>1. Fresh \in Client
  BY FreeIsHonest DEF Fresh, Client, NoKey
<1>2. \A i \in Requests : Fresh.requests[i] = FreeRequest
  BY DEF Fresh
<1>3. Fresh.controller = 0 /\ ~Fresh.retryTimer /\ Fresh.workspaceId = 0 /\ Fresh.authFailed = FALSE
  BY DEF Fresh
<1>4. Held(Fresh)
  BY <1>1, <1>2, <1>3, FreeIsHonest DEF Held, Kept, Follows
<1>5. Serves(Fresh)
  BY <1>3 DEF Serves, Wants
<1>6. InSession
  BY <1>3, ClientTypes DEF Init, InSession, Tokens
<1> QED BY <1>4, <1>5, <1>6 DEF Init, ClientKept

\* The session ends when the token that is rejected is the one the browser holds.
Justified == logouts' # logouts => token \in expired

\* What the user, the features and the session do.
LEMMA UsersKeep ==
  ASSUME ClientKept,
         \/ \E w \in Workspaces \cup {0} : SetWorkspaceId(w)
         \/ \E r \in Registrations : Register(r) \/ Unregister(r)
         \/ LogIn \/ \E t \in Tokens : Expire(t)
         \/ \E j \in Jobs : EndJob(j)
  PROVE  ClientKept' /\ Justified
<1>0. Held(client) /\ Serves(client) /\ InSession /\ client \in Client /\ token \in Tokens \cup {0}
      /\ final \subseteq Jobs
  BY DEF ClientKept, InSession, Held, Kept
<1>1. ASSUME NEW c, Held(c), Free(c) # {}, client.authFailed => c.authFailed, c.authFailed = client.authFailed,
             Becomes(Reconcile(c, token)), UNCHANGED <<expired, final>>
      PROVE  ClientKept' /\ Justified
  <2> DEFINE d == Reconcile(c, token)
  <2>1. Held(d) /\ Serves(d) /\ SameFeatures(d, c) /\ (d.authFailed => c.authFailed \/ token = 0)
    BY <1>0, <1>1, Reconciles
  <2>2. Becomes(d)
    BY <1>1
  <2> HIDE DEF d
  <2>3. ClientKept' /\ (logouts' # logouts => d.authFailed /\ ~client.authFailed)
    BY <1>1, <2>1, <2>2, Became DEF SameFeatures
  <2> QED BY <1>0, <1>1, <2>1, <2>3 DEF InSession, Justified
<1>2. ASSUME NEW w \in Workspaces \cup {0}, SetWorkspaceId(w) PROVE ClientKept' /\ Justified
  <2> DEFINE s == Stop(client)
             c == [s EXCEPT !.workspaceId = w, !.blocked = FALSE]
  <2>1. Held(s) /\ s.controller = 0 /\ Free(s) = Free(client) /\ s.authFailed = client.authFailed
    BY <1>0, Stopped DEF Held
  <2>2. Becomes(Reconcile(c, token)) /\ UNCHANGED <<expired, final>> /\ Free(client) # {}
    BY <1>2 DEF SetWorkspaceId, Room
  <2> HIDE DEF s
  <2>3. Held(c) /\ c.authFailed = s.authFailed /\ Free(c) = Free(s)
    BY <2>1, Moved
  <2> HIDE DEF c
  <2> QED BY <1>1, <2>1, <2>2, <2>3
<1>3. ASSUME NEW rs \in SUBSET Registrations, Room,
             Becomes(Reconcile([client EXCEPT !.registrations = rs], token)), UNCHANGED <<expired, final>>
      PROVE  ClientKept' /\ Justified
  <2> DEFINE c == [client EXCEPT !.registrations = rs]
  <2>1. /\ c \in Client /\ c.requests = client.requests /\ c.controller = client.controller
        /\ c.activeKey = client.activeKey /\ c.retryTimer = client.retryTimer
        /\ c.authFailed = client.authFailed
    BY <1>0 DEF Client
  <2>2. Becomes(Reconcile(c, token))
    BY <1>3
  <2> HIDE DEF c
  <2>3. Held(c) /\ Free(c) = Free(client)
    BY <1>0, <2>1, SameRequests
  <2> QED BY <1>1, <1>3, <2>1, <2>2, <2>3 DEF Room
<1>4. ASSUME NEW r \in Registrations, Register(r) PROVE ClientKept' /\ Justified
  <2>1. client.registrations \cup {r} \in SUBSET Registrations
    BY <1>0 DEF Client
  <2> QED BY <1>3, <1>4, <2>1 DEF Register
<1>5. ASSUME NEW r \in Registrations, Unregister(r) PROVE ClientKept' /\ Justified
  <2>1. client.registrations \ {r} \in SUBSET Registrations
    BY <1>0 DEF Client
  <2> QED BY <1>3, <1>5, <2>1 DEF Unregister
<1>6. ASSUME UNCHANGED <<client, logouts>>, token' \in Tokens \cup {0}, token' = 0 => token = 0,
             expired \subseteq expired', expired' \subseteq Tokens, final' \subseteq Jobs
      PROVE  ClientKept' /\ Justified
  <2>1. \A i \in Requests : Honest(client.requests[i]) => Honest(client.requests[i])'
    BY <1>6 DEF Honest
  <2>2. Held(client)' /\ Serves(client)'
    BY <1>0, <1>6, <2>1 DEF Held, Kept, Follows, Free, Serves, Wants, Wanted
  <2>3. InSession'
    BY <1>0, <1>6 DEF InSession
  <2> QED BY <1>6, <2>2, <2>3 DEF ClientKept, Justified
<1>7. CASE LogIn
  BY <1>0, <1>6, <1>7, ClientTypes DEF LogIn, Tokens, InSession
<1>8. ASSUME NEW t \in Tokens, Expire(t) PROVE ClientKept' /\ Justified
  BY <1>0, <1>6, <1>8 DEF Expire, InSession
<1>9. ASSUME NEW j \in Jobs, EndJob(j) PROVE ClientKept' /\ Justified
  BY <1>0, <1>6, <1>9 DEF EndJob, InSession
<1> QED BY <1>2, <1>4, <1>5, <1>7, <1>8, <1>9

\* What the server does.
LEMMA ServersKeep ==
  ASSUME ClientKept, NEW i \in Requests, Answer(i) \/ Send(i) \/ AnswerBadly(i) \/ Break(i)
  PROVE  ClientKept' /\ Justified
<1> DEFINE q == client.requests[i]
<1>0. q \in Request /\ Honest(q) /\ InSession /\ final \subseteq Jobs
  BY DEF ClientKept, Held, Kept, Client
<1>1. ASSUME NEW e \in Request, Honest(e), e.state # "free", q.state # "free", e.aborted = q.aborted,
             e.workspace = q.workspace, e.types = q.types, SetRequest(i, e)
      PROVE  ClientKept' /\ Justified
  <2>1. ClientKept'
    BY <1>1, ServerAdds
  <2> QED BY <1>1, <2>1 DEF SetRequest, Justified
<1>2. CASE Answer(i)
  <2>1. q.state # "free"
    BY <1>2 DEF Answer
  <2> DEFINE e == [q EXCEPT !.state = "answered", !.answer = "ok", !.fed = final, !.frames = <<"ready">>]
             u == [q EXCEPT !.state = "answered", !.answer = "unauthorized"]
  <2>2. ASSUME SetRequest(i, e) PROVE ClientKept' /\ Justified
    <3>1. <<"ready">> \in Seq({"ready"} \cup Jobs) /\ Len(<<"ready">>) = 1 /\ DOMAIN <<"ready">> = {1}
          /\ <<"ready">>[1] = "ready"
      OBVIOUS
    <3>2. /\ e \in Request /\ e.state = "answered" /\ e.aborted = q.aborted /\ e.answer = "ok"
          /\ e.workspace = q.workspace /\ e.types = q.types /\ e.frames = <<"ready">>
      BY <1>0, <2>2, <3>1 DEF Request
    <3> HIDE DEF e
    <3>3. Honest(e)
      BY <3>1, <3>2, ClientTypes DEF Honest
    <3> QED BY <1>1, <2>1, <2>2, <3>2, <3>3
  <2>3. ASSUME SetRequest(i, u), q.token \in expired PROVE ClientKept' /\ Justified
    <3>1. /\ u \in Request /\ u.state = "answered" /\ u.aborted = q.aborted /\ u.token = q.token
          /\ u.workspace = q.workspace /\ u.types = q.types /\ u.frames = q.frames
      BY <1>0 DEF Request
    <3> HIDE DEF u
    <3>2. Honest(u)
      BY <1>0, <2>3, <3>1 DEF Honest
    <3> QED BY <1>1, <2>1, <2>3, <3>1, <3>2
  <2> QED BY <1>2, <2>2, <2>3 DEF Answer
<1>3. CASE AnswerBadly(i)
  <2>1. PICK answer \in {"refused", "unavailable"} :
          SetRequest(i, [client.requests[i] EXCEPT !.state = "answered", !.answer = answer])
    BY <1>3 DEF AnswerBadly
  <2> DEFINE e == [q EXCEPT !.state = "answered", !.answer = answer]
  <2>2. /\ e \in Request /\ e.state = "answered" /\ e.aborted = q.aborted /\ e.answer = answer
        /\ e.workspace = q.workspace /\ e.types = q.types /\ e.frames = q.frames
    BY <1>0 DEF Request
  <2>3. SetRequest(i, e) /\ q.state # "free"
    BY <1>3, <2>1 DEF AnswerBadly
  <2> HIDE DEF e
  <2>4. Honest(e)
    BY <1>0, <2>2 DEF Honest
  <2> QED BY <1>1, <2>2, <2>3, <2>4
<1>4. CASE Send(i)
  <2>1. PICK j \in final \ q.fed :
          /\ jobWorkspace[j] = q.workspace /\ jobType[j] \in q.types
          /\ SetRequest(i, [q EXCEPT !.frames = Append(@, j), !.fed = @ \cup {j}])
    BY <1>4 DEF Send
  <2>2. j \in Jobs /\ q.state # "free" /\ q.answer = "ok" /\ Len(q.frames) < MaxFrames
    BY <1>0, <1>4 DEF Send
  <2> DEFINE e == [q EXCEPT !.frames = Append(q.frames, j), !.fed = @ \cup {j}]
             S == {"ready"} \cup Jobs
  <2>3. q.frames \in Seq(S) /\ j \in S /\ DOMAIN q.frames = 1..Len(q.frames) /\ Len(q.frames) \in Nat
    BY <1>0, <2>2 DEF Request
  <2> HIDE DEF S
  <2>4. /\ Append(q.frames, j) \in Seq(S) /\ Len(Append(q.frames, j)) = Len(q.frames) + 1
        /\ \A k \in 1..Len(q.frames) : Append(q.frames, j)[k] = q.frames[k]
        /\ Append(q.frames, j)[Len(q.frames) + 1] = j
        /\ DOMAIN Append(q.frames, j) = 1..(Len(q.frames) + 1)
    BY <2>3, AppendProperties
  <2>5. /\ e \in Request /\ e.state = q.state /\ e.aborted = q.aborted /\ e.answer = q.answer
        /\ e.workspace = q.workspace /\ e.types = q.types /\ e.frames = Append(q.frames, j)
    BY <1>0, <2>2, <2>4 DEF Request, S
  <2>6. SetRequest(i, e)
    BY <2>1
  <2> HIDE DEF e
  <2>7. Honest(e)
    <3>1. Len(e.frames) <= MaxFrames
      BY <2>2, <2>3, <2>4, <2>5, ClientTypes
    <3>2. ASSUME NEW k \in DOMAIN e.frames, e.frames[k] # "ready"
          PROVE  jobWorkspace[e.frames[k]] = e.workspace
      <4>1. CASE k \in 1..Len(q.frames)
        BY <1>0, <2>3, <2>4, <2>5, <3>2, <4>1 DEF Honest
      <4>2. CASE k = Len(q.frames) + 1
        BY <2>1, <2>4, <2>5, <4>2
      <4> QED BY <2>3, <2>4, <2>5, <4>1, <4>2
    <3> QED BY <2>2, <2>5, <3>1, <3>2 DEF Honest
  <2> QED BY <1>1, <2>2, <2>5, <2>6, <2>7
<1>5. CASE Break(i)
  <2> DEFINE e == [q EXCEPT !.state = "over", !.frames = <<>>]
  <2>1. <<>> \in Seq({"ready"} \cup Jobs) /\ Len(<<>>) = 0 /\ DOMAIN <<>> = {}
    OBVIOUS
  <2>2. /\ e \in Request /\ e.state = "over" /\ e.aborted = q.aborted /\ e.answer = q.answer
        /\ e.workspace = q.workspace /\ e.types = q.types /\ e.frames = <<>> /\ e.token = q.token
    BY <1>0, <2>1 DEF Request
  <2>3. SetRequest(i, e) /\ q.state # "free"
    BY <1>5 DEF Break
  <2> HIDE DEF e
  <2>4. Honest(e)
    BY <1>0, <2>1, <2>2, ClientTypes DEF Honest
  <2> QED BY <1>1, <2>2, <2>3, <2>4
<1> QED BY <1>2, <1>3, <1>4, <1>5

\* A request that the client leaves alone for another try, or for good.
LEMMA Retried ==
  ASSUME NEW c, Held(c), Serves(c), NEW i \in Requests, c.controller = i
  PROVE  /\ Held(Retry(c, i)) /\ Serves(Retry(c, i)) /\ Retry(c, i).authFailed = c.authFailed
         /\ \A d \in {[Return(c, i) EXCEPT !.controller = 0, !.blocked = TRUE]} :
              Held(d) /\ Serves(d) /\ d.authFailed = c.authFailed
<1> DEFINE e == Return(c, i)
           r == Retry(c, i)
           d == [e EXCEPT !.controller = 0, !.blocked = TRUE]
<1>1. Kept(c) /\ c.controller # 0 /\ c.controller \in Requests
  BY ClientTypes DEF Held, Requests
<1>2. /\ e \in Client /\ e.workspaceId = c.workspaceId /\ e.registrations = c.registrations
      /\ e.authFailed = c.authFailed /\ e.activeKey = c.activeKey /\ e.retryTimer = c.retryTimer
  BY <1>1, Returned DEF Kept
<1>3. r = [e EXCEPT !.controller = 0, !.ready = FALSE, !.retryTimer = TRUE]
  BY DEF Retry
<1> HIDE DEF r
<1>4. /\ r \in Client /\ r.requests = e.requests /\ r.controller = 0 /\ r.retryTimer = TRUE
      /\ r.workspaceId = c.workspaceId /\ r.registrations = c.registrations
      /\ r.authFailed = c.authFailed /\ r.activeKey = c.activeKey
  BY <1>2, <1>3 DEF Client
<1>5. /\ d \in Client /\ d.requests = e.requests /\ d.controller = 0 /\ d.retryTimer = c.retryTimer
      /\ d.workspaceId = c.workspaceId /\ d.registrations = c.registrations /\ d.blocked = TRUE
      /\ d.authFailed = c.authFailed /\ d.activeKey = c.activeKey
  BY <1>2 DEF Client
<1>6. Held(r) /\ Held(d)
  BY <1>1, <1>4, <1>5, Ended
<1> HIDE DEF d
<1>7. Wants(c) /\ c.activeKey = Wanted(c) /\ ~c.retryTimer
  BY <1>1 DEF Serves, Held
<1>8. Serves(r)
  BY <1>4, <1>7 DEF Serves, Wants, Wanted
<1>9. Serves(d)
  BY <1>5, <1>7 DEF Serves, Wants, Wanted
<1> QED BY <1>4, <1>5, <1>6, <1>8, <1>9 DEF r, d

\* What the client's promises and timers do.
LEMMA ClientsKeep ==
  ASSUME ClientKept, ClientStep
  PROVE  ClientKept' /\ Justified
<1>0. /\ Held(client) /\ Serves(client) /\ InSession /\ client \in Client /\ token \in Tokens \cup {0}
      /\ Kept(client)
  BY DEF ClientKept, InSession, Held, Kept
<1>1. ASSUME NEW c, Held(c), Serves(c), c.authFailed = client.authFailed, Becomes(c), UNCHANGED <<expired, final>>
      PROVE  ClientKept' /\ Justified
  BY <1>1, Became DEF Justified
<1>2. CASE RetryFires
  <2> DEFINE c == [client EXCEPT !.retryTimer = FALSE]
             d == Connect(c, token)
  <2>1. /\ c \in Client /\ c.requests = client.requests /\ c.controller = client.controller
        /\ c.activeKey = client.activeKey /\ c.retryTimer = FALSE
        /\ c.workspaceId = client.workspaceId /\ c.registrations = client.registrations
        /\ c.authFailed = client.authFailed
    BY <1>0 DEF Client
  <2>2. client.retryTimer /\ Free(client) # {} /\ Becomes(d) /\ UNCHANGED <<expired, final>>
    BY <1>2 DEF RetryFires, Room
  <2>3. client.controller = 0 /\ Wants(client) /\ client.activeKey = Wanted(client)
    BY <1>0, <2>2 DEF Held, Serves
  <2>4. token \in Tokens
    BY <1>0, <2>3 DEF InSession, Wants
  <2> HIDE DEF c
  <2>5. Held(c) /\ Free(c) = Free(client)
    BY <1>0, <2>1, SameRequests
  <2>6. /\ Held(d) /\ d.controller # 0 /\ d.activeKey = c.activeKey /\ ~d.retryTimer
        /\ d.workspaceId = c.workspaceId /\ d.registrations = c.registrations
        /\ d.authFailed = c.authFailed
    BY <2>1, <2>2, <2>3, <2>4, <2>5, Connected
  <2> HIDE DEF d
  <2>7. Serves(d)
    BY <2>1, <2>3, <2>6 DEF Serves, Wants, Wanted
  <2> QED BY <1>1, <2>1, <2>2, <2>6, <2>7
<1>3. ASSUME NEW i \in Requests, ~Current(i), client.requests[i].state # "free",
             Becomes(Return(client, i)), UNCHANGED <<expired, final>>
      PROVE  ClientKept' /\ Justified
  <2> DEFINE c == Return(client, i)
  <2>1. client.controller # i
    BY <1>0, <1>3 DEF Kept, Follows, Current
  <2>2. /\ c.workspaceId = client.workspaceId /\ c.registrations = client.registrations
        /\ c.authFailed = client.authFailed /\ c.activeKey = client.activeKey
        /\ c.controller = client.controller /\ c.retryTimer = client.retryTimer
        /\ c.blocked = client.blocked
    BY <1>0, Returned
  <2>3. Held(c)
    BY <1>0, <2>1, ReturnedAside
  <2>4. Becomes(c)
    BY <1>3
  <2> HIDE DEF c
  <2>5. Serves(c)
    BY <1>0, <2>2, StillServes
  <2> QED BY <1>1, <1>3, <2>2, <2>3, <2>4, <2>5
<1>4. ASSUME NEW i \in Requests, Continue(i) PROVE ClientKept' /\ Justified
  <2> DEFINE q == client.requests[i]
  <2>0. q \in Request /\ Honest(q) /\ q.state # "free" /\ UNCHANGED <<expired, final>>
    BY <1>0, <1>4 DEF Continue, Kept, Client
  <2>1. ASSUME Current(i), q.answer = "unauthorized", HandleUnauthorized(i)
        PROVE  ClientKept' /\ Justified
    <3> DEFINE e == Return(client, i)
               s == Stop(e)
    <3>1. Kept(e) /\ i \in Free(e) /\ e.authFailed = client.authFailed
      BY <1>0, Returned
    <3> HIDE DEF e
    <3>2. Held(s) /\ s.controller = 0 /\ ~s.retryTimer /\ Free(s) = Free(e) /\ s.authFailed = e.authFailed
      BY <3>1, Stopped
    <3>3. q.token \in expired
      BY <2>0, <2>1 DEF Honest
    <3>4. CASE token # 0 /\ token # q.token
      <4> DEFINE d == Reconcile(s, token)
      <4>1. Becomes(d)
        BY <2>1, <3>4 DEF HandleUnauthorized, e
      <4> HIDE DEF s
      <4>2. Held(d) /\ Serves(d) /\ SameFeatures(d, s) /\ (d.authFailed => s.authFailed \/ token = 0)
        BY <1>0, <3>1, <3>2, Reconciles
      <4> HIDE DEF d
      <4>3. d.authFailed = client.authFailed
        <5>1. d.authFailed \in BOOLEAN /\ client.authFailed \in BOOLEAN /\ s.authFailed = client.authFailed
          BY <1>0, <3>1, <3>2, <4>2 DEF Held, Kept, Client
        <5> QED BY <3>4, <4>2, <5>1 DEF SameFeatures
      <4> QED BY <1>1, <2>0, <4>1, <4>2, <4>3
    <3>5. CASE token = 0 \/ token = q.token
      <4> DEFINE d == [s EXCEPT !.authFailed = TRUE]
      <4>1. Becomes(d)
        BY <2>1, <3>5 DEF HandleUnauthorized, e
      <4> HIDE DEF s
      <4>2. Held(d) /\ d.authFailed /\ d.controller = 0 /\ d.retryTimer = s.retryTimer
        BY <3>2, FailedToAuthenticate
      <4> HIDE DEF d
      <4>3. Serves(d)
        BY <3>2, <4>2 DEF Serves, Wants
      <4>4. ClientKept' /\ (logouts' # logouts => ~client.authFailed)
        BY <2>0, <4>1, <4>2, <4>3, Became
      <4> QED BY <1>0, <3>3, <3>5, <4>4 DEF InSession, Justified
    <3> QED BY <3>4, <3>5
  <2>2. CASE Current(i) /\ Becomes([Return(client, i) EXCEPT !.controller = 0, !.blocked = TRUE])
    <3> DEFINE d == [Return(client, i) EXCEPT !.controller = 0, !.blocked = TRUE]
    <3>1. Held(d) /\ Serves(d) /\ d.authFailed = client.authFailed
      BY <1>0, <2>2, Retried DEF Current
    <3>2. Becomes(d)
      BY <2>2
    <3> HIDE DEF d
    <3> QED BY <1>1, <2>0, <3>1, <3>2
  <2>3. CASE Current(i) /\ Becomes(Retry(client, i))
    <3>1. Held(Retry(client, i)) /\ Serves(Retry(client, i)) /\ Retry(client, i).authFailed = client.authFailed
      BY <1>0, <2>3, Retried DEF Current
    <3> QED BY <1>1, <2>0, <2>3, <3>1
  <2>4. CASE Becomes([client EXCEPT !.requests[i].state = "open"])
    <3> DEFINE e == [q EXCEPT !.state = "open"]
               d == [client EXCEPT !.requests[i] = e]
    <3>1. /\ e \in Request /\ e.state = "open" /\ e.aborted = q.aborted /\ e.token = q.token
          /\ e.workspace = q.workspace /\ e.types = q.types /\ e.frames = q.frames /\ e.answer = q.answer
      BY <2>0 DEF Request
    <3>2. Becomes(d)
      BY <2>4
    <3> HIDE DEF e
    <3>3. Honest(e)
      BY <2>0, <3>1 DEF Honest
    <3>4. /\ Held(d) /\ d.workspaceId = client.workspaceId /\ d.registrations = client.registrations
          /\ d.authFailed = client.authFailed /\ d.activeKey = client.activeKey
          /\ d.controller = client.controller /\ d.retryTimer = client.retryTimer
          /\ d.blocked = client.blocked
      BY <1>0, <2>0, <3>1, <3>3, Renewed
    <3> HIDE DEF d
    <3>5. Serves(d)
      BY <1>0, <3>4, StillServes
    <3> QED BY <1>1, <2>0, <3>2, <3>4, <3>5
  <2> QED BY <1>3, <1>4, <2>0, <2>1, <2>2, <2>3, <2>4 DEF Continue
<1>5. ASSUME NEW i \in Requests, Dispatch(i) PROVE ClientKept' /\ Justified
  <2> DEFINE q == client.requests[i]
             e == [q EXCEPT !.frames = Tail(q.frames)]
             d == [client EXCEPT !.requests[i] = e]
  <2>0. q \in Request /\ Honest(q) /\ q.state = "open" /\ q.frames # <<>> /\ UNCHANGED <<expired, final>>
    BY <1>0, <1>5 DEF Dispatch, Kept, Client
  <2>1. Becomes(d) \/ Becomes([d EXCEPT !.ready = TRUE])
    BY <1>5 DEF Dispatch
  <2> DEFINE S == {"ready"} \cup Jobs
  <2>2. q.frames \in Seq(S) /\ DOMAIN q.frames = 1..Len(q.frames) /\ Len(q.frames) \in Nat
    BY <2>0 DEF Request
  <2> HIDE DEF S
  <2>3. /\ Tail(q.frames) \in Seq(S) /\ Len(Tail(q.frames)) = Len(q.frames) - 1
        /\ \A k \in 1..Len(Tail(q.frames)) : Tail(q.frames)[k] = q.frames[k + 1]
        /\ DOMAIN Tail(q.frames) = 1..Len(Tail(q.frames))
    BY <2>0, <2>2, HeadTailProperties
  <2>4. /\ e \in Request /\ e.state = "open" /\ e.aborted = q.aborted /\ e.token = q.token
        /\ e.workspace = q.workspace /\ e.types = q.types /\ e.frames = Tail(q.frames) /\ e.answer = q.answer
    BY <2>0, <2>3 DEF Request, S
  <2> HIDE DEF e
  <2>5. Honest(e)
    <3>1. Len(e.frames) <= MaxFrames
      BY <2>0, <2>2, <2>3, <2>4, ClientTypes DEF Honest
    <3>2. ASSUME NEW k \in DOMAIN e.frames, e.frames[k] # "ready"
          PROVE  jobWorkspace[e.frames[k]] = e.workspace
      <4>1. k + 1 \in DOMAIN q.frames /\ e.frames[k] = q.frames[k + 1]
        BY <2>2, <2>3, <2>4
      <4> QED BY <2>0, <2>4, <3>2, <4>1 DEF Honest
    <3> QED BY <2>0, <2>4, <3>1, <3>2 DEF Honest
  <2>6. /\ Held(d) /\ d.workspaceId = client.workspaceId /\ d.registrations = client.registrations
        /\ d.authFailed = client.authFailed /\ d.activeKey = client.activeKey
        /\ d.controller = client.controller /\ d.retryTimer = client.retryTimer
        /\ d.blocked = client.blocked
    BY <1>0, <2>0, <2>4, <2>5, Renewed
  <2> HIDE DEF d
  <2>7. Serves(d)
    BY <1>0, <2>6, StillServes
  <2> DEFINE r == [d EXCEPT !.ready = TRUE]
  <2>8. d \in Client
    BY <2>6 DEF Held, Kept
  <2>9. /\ r \in Client /\ r.workspaceId = d.workspaceId /\ r.registrations = d.registrations
        /\ r.authFailed = d.authFailed /\ r.activeKey = d.activeKey /\ r.requests = d.requests
        /\ r.controller = d.controller /\ r.retryTimer = d.retryTimer /\ r.blocked = d.blocked
    BY <2>8 DEF Client
  <2>10. Becomes(d) \/ Becomes(r)
    BY <2>1
  <2> HIDE DEF r
  <2>11. Held(r) /\ Serves(r)
    BY <2>6, <2>7, <2>9, SameRequests, StillServes
  <2> QED BY <1>1, <2>0, <2>6, <2>7, <2>9, <2>10, <2>11
<1>6. ASSUME NEW i \in Requests, LeaveStream(i) PROVE ClientKept' /\ Justified
  <2>1. UNCHANGED <<expired, final>> /\ client.requests[i].state # "free"
    BY <1>6 DEF LeaveStream
  <2>2. CASE Current(i)
    <3>1. Held(Retry(client, i)) /\ Serves(Retry(client, i)) /\ Retry(client, i).authFailed = client.authFailed
      BY <1>0, <2>2, Retried DEF Current
    <3> QED BY <1>1, <1>6, <2>1, <2>2, <3>1 DEF LeaveStream
  <2>3. CASE ~Current(i)
    BY <1>3, <1>6, <2>1, <2>3 DEF LeaveStream
  <2> QED BY <2>2, <2>3
<1> QED BY <1>2, <1>4, <1>5, <1>6 DEF ClientStep

LEMMA ClientKeptStep == ClientKept /\ [Next]_vars => ClientKept' /\ Justified
<1> SUFFICES ASSUME ClientKept, [Next]_vars PROVE ClientKept' /\ Justified
  OBVIOUS
<1>1. CASE UNCHANGED vars
  <2>1. Held(client)' /\ Serves(client)'
    BY <1>1 DEF ClientKept, vars, Held, Kept, Honest, Follows, Serves, Wants, Wanted
  <2> QED BY <1>1, <2>1 DEF ClientKept, vars, InSession, Justified
<1> QED BY <1>1, UsersKeep, ServersKeep, ClientsKeep DEF Next, ServerStep

-----------------------------------------------------------------------------
(* What the features are told.                                             *)

FeedTyped ==
  /\ learned \in [Registrations -> SUBSET Jobs] /\ told \subseteq Registrations \X Jobs
  /\ acts \in 0..MaxActs /\ faults \in 0..MaxFaults

\* Between the user's acts the features and their workspace stay.
LEMMA FeaturesStay ==
  ASSUME ClientKept, NEW i \in Requests, Continue(i) \/ LeaveStream(i) \/ RetryFires
  PROVE  client'.workspaceId = client.workspaceId /\ client'.registrations = client.registrations
<1> DEFINE Stays(c) == c.workspaceId = client.workspaceId /\ c.registrations = client.registrations
<1>0. Held(client) /\ Kept(client) /\ client \in Client /\ token \in Tokens \cup {0} /\ i # 0
  BY ClientTypes DEF ClientKept, InSession, Held, Kept, Requests
<1>1. Kept(Return(client, i)) /\ i \in Free(Return(client, i)) /\ Stays(Return(client, i))
  BY <1>0, Returned
<1>2. Stays(Retry(client, i))
  <2>1. Return(client, i) \in Client
    BY <1>1 DEF Kept
  <2> QED BY <1>1, <2>1 DEF Retry, Client
<1>3. Stays([Return(client, i) EXCEPT !.controller = 0, !.blocked = TRUE])
  <2>1. Return(client, i) \in Client
    BY <1>1 DEF Kept
  <2> QED BY <1>1, <2>1 DEF Client
<1>4. Stays([client EXCEPT !.requests[i].state = "open"])
  BY <1>0 DEF Client
<1>5. HandleUnauthorized(i) => Stays(client')
  <2> DEFINE s == Stop(Return(client, i))
  <2>1. Held(s) /\ s.controller = 0 /\ Free(s) # {} /\ Stays(s)
    BY <1>1, Stopped
  <2>2. HandleUnauthorized(i) => client' = Reconcile(s, token) \/ client' = [s EXCEPT !.authFailed = TRUE]
    BY DEF HandleUnauthorized, Becomes
  <2> HIDE DEF s
  <2>3. Stays(Reconcile(s, token))
    BY <1>0, <2>1, Reconciles DEF SameFeatures
  <2>4. Stays([s EXCEPT !.authFailed = TRUE])
    BY <2>1, FailedToAuthenticate
  <2> QED BY <2>2, <2>3, <2>4
<1>6. CASE Continue(i)
  BY <1>1, <1>2, <1>3, <1>4, <1>5, <1>6 DEF Continue, Becomes
<1>7. CASE LeaveStream(i)
  BY <1>1, <1>2, <1>7 DEF LeaveStream, Becomes
<1>8. CASE RetryFires
  <2> DEFINE c == [client EXCEPT !.retryTimer = FALSE]
  <2>1. c \in Client /\ Stays(c)
    BY <1>0 DEF Client
  <2>2. client' = Connect(c, token)
    BY <1>8 DEF RetryFires, Becomes
  <2> HIDE DEF c
  <2>3. Stop(c).workspaceId = c.workspaceId /\ Stop(c).registrations = c.registrations
    BY <2>1 DEF Stop, Client
  <2> QED BY <2>1, <2>2, <2>3 DEF Connect, Client, Stop
<1> QED BY <1>6, <1>7, <1>8

\* The features that are told are those of the frame's type; and what is told of is theirs.
LEMMA ToldOfTheirs ==
  ASSUME ClientKept, FeedTyped, ToldOwnJobs, NEW i \in Requests, Dispatch(i)
  PROVE  FeedTyped' /\ ToldOwnJobs'
<1> DEFINE q == client.requests[i]
           frame == Head(q.frames)
           called == {r \in client.registrations : frame = "ready" \/ jobType[frame] = typeOf[r]}
<1>0. /\ Kept(client) /\ Serves(client) /\ q \in Request /\ Honest(q) /\ Follows(client, i)
      /\ client \in Client /\ i # 0 /\ final \subseteq Jobs
  BY ClientTypes DEF ClientKept, Held, Kept, Client, Requests
<1>1. q.state = "open" /\ q.frames # <<>> /\ client.controller = i
  BY <1>0 DEF Dispatch, Current
<1>2. /\ q.frames \in Seq({"ready"} \cup Jobs) /\ 1 \in DOMAIN q.frames /\ frame = q.frames[1]
      /\ frame \in {"ready"} \cup Jobs
  BY <1>0, <1>1 DEF Request
<1>3. frame # "ready" => jobWorkspace[frame] = q.workspace
  BY <1>0, <1>2 DEF Honest
<1>4. q.workspace = client.workspaceId
  <2>1. <<q.workspace, q.types>> = client.activeKey /\ client.activeKey = Wanted(client)
    BY <1>0, <1>1 DEF Follows, Serves
  <2> QED BY <2>1 DEF Wanted
<1>5. /\ learned' = [r \in Registrations |->
                IF r \in called THEN {j \in final : jobWorkspace[j] = client.workspaceId} ELSE learned[r]]
      /\ told' = told \cup {<<r, frame>> : r \in IF frame = "ready" THEN {} ELSE called}
      /\ UNCHANGED <<acts, faults>>
  BY DEF Dispatch, Refetch
<1>6. client'.workspaceId = client.workspaceId /\ client'.registrations = client.registrations
  BY <1>0 DEF Dispatch, Becomes, Client
<1>7. called \subseteq client.registrations /\ client.registrations \subseteq Registrations
  BY <1>0 DEF Client
<1> HIDE DEF q, frame
<1>8. ASSUME NEW one \in told'
      PROVE  /\ one \in Registrations \X Jobs /\ one[1] \in client.registrations
             /\ jobWorkspace[one[2]] = client.workspaceId /\ jobType[one[2]] = typeOf[one[1]]
  <2>1. CASE one \in told
    BY <2>1 DEF FeedTyped, ToldOwnJobs
  <2>2. CASE one \notin told
    <3>1. frame # "ready" /\ \E r \in called : one = <<r, frame>>
      BY <1>5, <1>8, <2>2
    <3> QED BY <1>2, <1>3, <1>4, <1>7, <3>1
  <2> QED BY <2>1, <2>2
<1>9. ToldOwnJobs'
  BY <1>6, <1>8 DEF ToldOwnJobs
<1>10. FeedTyped'
  BY <1>0, <1>5, <1>8 DEF FeedTyped
<1> QED BY <1>9, <1>10

LEMMA FeedStart == Init => FeedTyped /\ ToldOwnJobs
<1> QED BY ClientTypes DEF Init, FeedTyped, ToldOwnJobs

LEMMA FeedStep == ClientKept /\ FeedTyped /\ ToldOwnJobs /\ [Next]_vars => FeedTyped' /\ ToldOwnJobs'
<1> SUFFICES ASSUME ClientKept, FeedTyped, ToldOwnJobs, [Next]_vars PROVE FeedTyped' /\ ToldOwnJobs'
  OBVIOUS
<1> USE ClientTypes
<1>0. /\ Held(client) /\ client \in Client /\ token \in Tokens \cup {0} /\ final \subseteq Jobs
      /\ Kept(client) /\ client.registrations \subseteq Registrations
  BY DEF ClientKept, InSession, Held, Kept, Client
<1>1. ASSUME UNCHANGED <<told, learned>>, client'.workspaceId = client.workspaceId,
             client.registrations \subseteq client'.registrations
      PROVE  ToldOwnJobs'
  BY <1>1 DEF ToldOwnJobs
<1>2. Act \/ UNCHANGED acts => acts' \in 0..MaxActs
  BY DEF FeedTyped, Act
<1>3. Fault \/ UNCHANGED faults => faults' \in 0..MaxFaults
  BY DEF FeedTyped, Fault
<1>4. CASE UNCHANGED vars
  BY <1>4 DEF vars, FeedTyped, ToldOwnJobs
<1>5. ASSUME NEW w \in Workspaces \cup {0}, SetWorkspaceId(w) PROVE FeedTyped' /\ ToldOwnJobs'
  BY <1>2, <1>3, <1>5 DEF SetWorkspaceId, FeedTyped, ToldOwnJobs
<1>6. ASSUME NEW r \in Registrations, Register(r) PROVE FeedTyped' /\ ToldOwnJobs'
  <2> DEFINE c == [client EXCEPT !.registrations = @ \cup {r}]
  <2>1. /\ c \in Client /\ c.requests = client.requests /\ c.controller = client.controller
        /\ c.activeKey = client.activeKey /\ c.retryTimer = client.retryTimer
        /\ c.registrations = client.registrations \cup {r} /\ c.workspaceId = client.workspaceId
    BY <1>0 DEF Client
  <2>2. client' = Reconcile(c, token) /\ Free(client) # {}
    BY <1>6 DEF Register, Becomes, Room
  <2> HIDE DEF c
  <2>3. SameFeatures(client', c)
    BY <1>0, <2>1, <2>2, SameRequests, Reconciles
  <2>4. learned' \in [Registrations -> SUBSET Jobs]
    BY <1>0, <1>6 DEF Register, Refetch, FeedTyped
  <2>5. told' = told
    BY <1>6 DEF Register
  <2>6. ToldOwnJobs'
    BY <2>1, <2>3, <2>5 DEF SameFeatures, ToldOwnJobs
  <2> QED BY <1>2, <1>3, <1>6, <2>4, <2>5, <2>6 DEF Register, FeedTyped
<1>7. ASSUME NEW r \in Registrations, Unregister(r) PROVE FeedTyped' /\ ToldOwnJobs'
  <2> DEFINE c == [client EXCEPT !.registrations = @ \ {r}]
  <2>1. /\ c \in Client /\ c.requests = client.requests /\ c.controller = client.controller
        /\ c.activeKey = client.activeKey /\ c.retryTimer = client.retryTimer
        /\ c.registrations = client.registrations \ {r} /\ c.workspaceId = client.workspaceId
    BY <1>0 DEF Client
  <2>2. client' = Reconcile(c, token) /\ Free(client) # {}
    BY <1>7 DEF Unregister, Becomes, Room
  <2> HIDE DEF c
  <2>3. SameFeatures(client', c)
    BY <1>0, <2>1, <2>2, SameRequests, Reconciles
  <2>4. told' = {one \in told : one[1] # r}
    BY <1>7 DEF Unregister
  <2>5. ToldOwnJobs'
    BY <2>1, <2>3, <2>4 DEF SameFeatures, ToldOwnJobs
  <2> QED BY <1>2, <1>3, <1>7, <2>4, <2>5 DEF Unregister, FeedTyped
<1>8. ASSUME LogIn \/ (\E t \in Tokens : Expire(t)) \/ \E j \in Jobs : EndJob(j)
      PROVE  FeedTyped' /\ ToldOwnJobs'
  BY <1>1, <1>2, <1>3, <1>8 DEF LogIn, Expire, EndJob, FeedTyped
<1>9. ASSUME NEW i \in Requests, Answer(i) \/ Send(i) \/ AnswerBadly(i) \/ Break(i)
      PROVE  FeedTyped' /\ ToldOwnJobs'
  <2>1. \E q : SetRequest(i, q)
    BY <1>9 DEF Answer, Send, AnswerBadly, Break
  <2>2. client'.workspaceId = client.workspaceId /\ client'.registrations = client.registrations
    BY <1>0, <2>1 DEF SetRequest, Client
  <2>3. UNCHANGED <<told, learned, acts>> /\ (Fault \/ UNCHANGED faults)
    BY <1>9 DEF Answer, Send, AnswerBadly, Break, SetRequest
  <2> QED BY <1>1, <1>2, <1>3, <2>2, <2>3 DEF FeedTyped
<1>10. ASSUME NEW i \in Requests, Continue(i) \/ LeaveStream(i) \/ RetryFires
       PROVE  FeedTyped' /\ ToldOwnJobs'
  <2>1. client'.workspaceId = client.workspaceId /\ client'.registrations = client.registrations
    BY <1>10, FeaturesStay
  <2>2. UNCHANGED <<told, learned, acts, faults>>
    BY <1>10 DEF Continue, LeaveStream, RetryFires
  <2> QED BY <1>1, <2>1, <2>2 DEF FeedTyped
<1>11. 1 \in Requests
  BY DEF Requests
<1> QED BY <1>4, <1>5, <1>6, <1>7, <1>8, <1>9, <1>10, <1>11, ToldOfTheirs DEF Next, ServerStep, ClientStep

-----------------------------------------------------------------------------
\* Type correctness of the job-event client.
THEOREM ClientTypeCorrect == Spec => []TypeOK
<1>1. ClientKept /\ FeedTyped => TypeOK
  BY DEF ClientKept, FeedTyped, TypeOK, InSession, Held, Kept, Honest
<1>2. Spec => [](ClientKept /\ FeedTyped /\ ToldOwnJobs)
  BY ClientKeptStart, ClientKeptStep, FeedStart, FeedStep, PTL DEF Spec
<1> QED BY <1>1, <1>2, PTL

\* Whichever workspaces are opened, features mounted and tokens issued, and whatever the
\* network does to the streams: the client serves what is there, no feature is told of
\* another's job, and only a token that is rejected ends its session.
THEOREM ClientStaysWithItsUser == Spec => StaysWithItsUser
<1>1. ClientKept => FollowsRegistrations
  BY DEF ClientKept, Held, Kept, Follows, Serves, Wants, FollowsRegistrations
<1>2. ClientKept /\ [Next]_vars => [logouts' # logouts => token \in expired]_vars
  BY ClientKeptStep DEF Justified
<1>3. Spec => [](ClientKept /\ FeedTyped /\ ToldOwnJobs)
  BY ClientKeptStart, ClientKeptStep, FeedStart, FeedStep, PTL DEF Spec
<1> QED BY <1>1, <1>2, <1>3, PTL DEF Spec, StaysWithItsUser, LogoutIsJustified

\* A row that is saved has details and a model.
LEMMA SavedRows ==
  ASSUME NEW row \in Rows, row.state = "saved"
  PROVE  row.details \in Details /\ row.model \in Models
<1> QED BY DEF Rows, Unsaved, Saved, Removed

LEMMA RowsAre ==
  /\ Unsaved \in Rows /\ Removed \in Rows
  /\ \A d \in Details, m \in Models : Saved(d, m) \in Rows
<1>1. Unsaved \in Rows /\ Removed \in Rows
  BY DEF Rows
<1>2. \A d \in Details, m \in Models : Saved(d, m) \in {Saved(x, y) : x \in Details, y \in Models}
  OBVIOUS
<1> QED BY <1>1, <1>2 DEF Rows

\* What a request may change keeps the shape of the API's state.
LEMMA ChangesAreStates ==
  ASSUME server \in ApiState, NEW k \in Kinds, NEW p \in Providers \cup {Nobody}, NEW row \in Rows,
         NEW s \in Changes(k, p, row)
  PROVE  s \in ApiState
<1> DEFINE rows == CASE k = "save" -> {[server.rows EXCEPT ![q] = row] : q \in
                     IF p # Nobody THEN {p} ELSE {x \in Providers : server.rows[x] = Unsaved}}
                [] k = "delete" -> {[server.rows EXCEPT ![p] = row]}
                [] OTHER -> {server.rows}
           defaults == CASE k = "default" -> {p}
                    [] k = "pull" -> {server.default}
                    [] OTHER -> Providers \cup {Nobody}
<1>1. server.rows \in [Providers -> Rows] /\ server.default \in Providers \cup {Nobody}
  BY DEF ApiState
<1>2. rows \subseteq [Providers -> Rows]
  <2>1. CASE k = "save"
    <3>1. rows = {[server.rows EXCEPT ![q] = row] : q \in
                     IF p # Nobody THEN {p} ELSE {x \in Providers : server.rows[x] = Unsaved}}
      BY <2>1
    <3> QED BY <3>1, <1>1
  <2>2. CASE k = "delete"
    <3>1. rows = {[server.rows EXCEPT ![p] = row]}
      BY <2>2
    <3> QED BY <3>1, <1>1
  <2>3. CASE k # "save" /\ k # "delete"
    BY <2>3, <1>1
  <2> QED BY <2>1, <2>2, <2>3
<1>3. defaults \subseteq Providers \cup {Nobody}
  BY <1>1 DEF Kinds
<1>4. s \in [rows : rows, default : defaults]
  BY DEF Changes
<1> HIDE DEF rows, defaults
<1> QED BY <1>2, <1>3, <1>4 DEF ApiState

-----------------------------------------------------------------------------
(* The records of the page, and what its helpers make of them.             *)

LEMMA BlankRecords ==
  /\ NoVerdict \in Verdict /\ ClosedForm \in Form /\ NoProbe \in Probe /\ NoMutation \in Mutation
  /\ ClosedView \in View /\ NotListed \in ApiState /\ ListingAsked \in Fetch /\ ListingIdle \in Fetch
<1> USE ProviderPageConstants
<1>1. NoVerdict \in Verdict
  BY DEF NoVerdict, Verdict
<1>2. ClosedForm \in Form
  BY <1>1 DEF ClosedForm, Form
<1>3. NoProbe \in Probe /\ ClosedView \in View
  BY DEF NoProbe, Probe, ClosedView, View
<1>4. NoMutation \in Mutation
  BY RowsAre DEF NoMutation, Mutation
<1>5. NotListed \in ApiState
  BY RowsAre DEF NotListed, ApiState
<1>6. ListingAsked \in Fetch /\ ListingIdle \in Fetch
  BY <1>5 DEF ListingAsked, ListingIdle, Fetch
<1> QED BY <1>1, <1>2, <1>3, <1>4, <1>5, <1>6

\* What the form becomes when its details are looked up again.
LEMMA ArmedForm ==
  ASSUME NEW f \in Form
  PROVE  /\ ListingArmed(f) \in Form
         /\ ListingArmed(f).details = f.details /\ ListingArmed(f).model = f.model
         /\ ListingArmed(f).models = {} /\ ListingArmed(f).tested = f.tested
         /\ ListingArmed(f).testing = f.testing
         /\ ListingArmed(f).loading <=> (ListingArmed(f).armed # Nobody)
         /\ ListingArmed(f).armed # Nobody => ListingArmed(f).armed = f.details
<1> USE ProviderPageConstants
<1>1. Nobody \notin ProbeDetails
  OBVIOUS
<1>2. f.details \in Details \cup {Nobody} /\ f.model \in Models \cup {Nobody} /\ f.tested \in Verdict
      /\ f.testing \in BOOLEAN
  BY DEF Form
<1> DEFINE armed == IF f.details \in ProbeDetails THEN f.details ELSE Nobody
<1>3. armed \in ProbeDetails \cup {Nobody} /\ (armed # Nobody => armed = f.details)
      /\ (f.details \in ProbeDetails) = (armed # Nobody)
  BY <1>1
<1>4. ListingArmed(f) = [f EXCEPT !.models = {}, !.listedFor = Nobody, !.armed = armed,
                                  !.loading = (armed # Nobody)]
  BY <1>3, Zenon DEF ListingArmed
<1> HIDE DEF armed
<1>5. [f EXCEPT !.models = {}, !.listedFor = Nobody, !.armed = armed, !.loading = (armed # Nobody)] \in Form
  BY <1>3 DEF Form
<1> QED BY <1>3, <1>4, <1>5 DEF Form

\* And when its verdict is dropped.
LEMMA UntestedForm ==
  ASSUME NEW f \in Form
  PROVE  /\ Untested(f) \in Form
         /\ Untested(f).tested = NoVerdict /\ Untested(f).testing = FALSE
         /\ Untested(f).details = f.details /\ Untested(f).model = f.model
         /\ Untested(f).models = f.models /\ Untested(f).listedFor = f.listedFor
         /\ Untested(f).armed = f.armed /\ Untested(f).loading = f.loading
<1> QED BY BlankRecords DEF Untested, Form

\* A form whose details have changed starts over.
LEMMA StartedOver ==
  ASSUME NEW f \in Form
  PROVE  LET h == Untested(ListingArmed(f)) IN
         /\ h.models = {} /\ h.tested = NoVerdict /\ h.testing = FALSE
         /\ h.loading <=> (h.armed # Nobody)
         /\ h.armed # Nobody => h.armed = h.details
<1> DEFINE g == ListingArmed(f)
           h == Untested(g)
<1>1. g \in Form
  BY ArmedForm
<1>2. g.models = {}
  BY ArmedForm
<1>3. g.loading <=> (g.armed # Nobody)
  BY ArmedForm
<1>4. g.armed # Nobody => g.armed = g.details
  BY ArmedForm
<1> HIDE DEF g
<1>5. h.tested = NoVerdict /\ h.testing = FALSE
  BY <1>1, UntestedForm
<1>6. h.models = g.models /\ h.loading = g.loading /\ h.armed = g.armed /\ h.details = g.details
  BY <1>1, UntestedForm
<1> HIDE DEF h
<1>7. h.models = {}
  BY <1>2, <1>6
<1>8. h.loading <=> (h.armed # Nobody)
  BY <1>3, <1>6
<1>9. h.armed # Nobody => h.armed = h.details
  BY <1>4, <1>6
<1> QED BY <1>5, <1>7, <1>8, <1>9 DEF h, g

LEMMA TypedForm ==
  ASSUME NEW f \in Form, NEW d \in Details, NEW m \in Models
  PROVE  /\ [f EXCEPT !.details = d] \in Form /\ [f EXCEPT !.details = d].details = d
         /\ [f EXCEPT !.model = m] \in Form /\ [f EXCEPT !.model = m].model = m
         /\ \A g \in {[f EXCEPT !.model = m]} :
              /\ g.details = f.details /\ g.models = f.models /\ g.listedFor = f.listedFor
              /\ g.armed = f.armed /\ g.loading = f.loading
<1> QED BY DEF Form

\* A form that is opened starts to look its details up.
LEMMA FormOpens ==
  ASSUME NEW d \in Details, NEW m \in Models \cup {Nobody}
  PROVE  /\ OpenedForm(d, m) \in Form /\ OpenedForm(d, m).details = d
         /\ OpenedForm(d, m).models = {} /\ OpenedForm(d, m).tested = NoVerdict
         /\ OpenedForm(d, m).testing = FALSE
<1> DEFINE f == [ClosedForm EXCEPT !.details = d, !.model = m]
<1>1. f \in Form /\ f.details = d /\ f.tested = NoVerdict /\ f.testing = FALSE
  BY BlankRecords DEF ClosedForm, Form
<1>2. OpenedForm(d, m) = ListingArmed(f)
  BY DEF OpenedForm
<1> HIDE DEF f
<1> QED BY <1>1, <1>2, ArmedForm

LEMMA FormLooksUp ==
  ASSUME NEW d \in Details, NEW m \in Models \cup {Nobody}
  PROVE  /\ OpenedForm(d, m).loading <=> (OpenedForm(d, m).armed # Nobody)
         /\ OpenedForm(d, m).armed # Nobody => OpenedForm(d, m).armed = d
<1> DEFINE f == [ClosedForm EXCEPT !.details = d, !.model = m]
<1>1. f \in Form /\ f.details = d
  BY BlankRecords DEF ClosedForm, Form
<1>2. OpenedForm(d, m) = ListingArmed(f)
  BY DEF OpenedForm
<1> HIDE DEF f
<1> QED BY <1>1, <1>2, ArmedForm

\* Aborting the probes of a kind changes nothing else of any probe.
LEMMA ProbesAborted ==
  ASSUME NEW ps \in [Probes -> Probe], NEW kind
  PROVE  /\ Abort(ps, kind) \in [Probes -> Probe]
         /\ \A i \in Probes :
              /\ Abort(ps, kind)[i].pc = ps[i].pc /\ Abort(ps, kind)[i].kind = ps[i].kind
              /\ Abort(ps, kind)[i].details = ps[i].details
              /\ Abort(ps, kind)[i].model = ps[i].model
              /\ Abort(ps, kind)[i].aborted = (ps[i].aborted \/ (ps[i].pc # "none" /\ ps[i].kind = kind))
<1> SUFFICES ASSUME NEW i \in Probes
             PROVE  /\ Abort(ps, kind)[i] \in Probe
                    /\ Abort(ps, kind)[i].pc = ps[i].pc /\ Abort(ps, kind)[i].kind = ps[i].kind
                    /\ Abort(ps, kind)[i].details = ps[i].details
                    /\ Abort(ps, kind)[i].model = ps[i].model
                    /\ Abort(ps, kind)[i].aborted
                         = (ps[i].aborted \/ (ps[i].pc # "none" /\ ps[i].kind = kind))
  BY DEF Abort
<1>1. Abort(ps, kind)[i] = [ps[i] EXCEPT !.aborted = @ \/ (ps[i].pc # "none" /\ ps[i].kind = kind)]
  BY DEF Abort
<1>2. ps[i] \in Probe
  OBVIOUS
<1> QED BY <1>1, <1>2 DEF Probe

LEMMA BothAborted ==
  ASSUME NEW ps \in [Probes -> Probe]
  PROVE  /\ Abort(Abort(ps, "list"), "test") \in [Probes -> Probe]
         /\ \A i \in Probes :
              /\ Abort(Abort(ps, "list"), "test")[i].pc = ps[i].pc
              /\ Abort(Abort(ps, "list"), "test")[i].details = ps[i].details
              /\ ps[i].pc # "none" => Abort(Abort(ps, "list"), "test")[i].aborted
<1> DEFINE qs == Abort(ps, "list")
<1>1. qs \in [Probes -> Probe] /\ \A i \in Probes :
        /\ qs[i].pc = ps[i].pc /\ qs[i].kind = ps[i].kind /\ qs[i].details = ps[i].details
        /\ qs[i].aborted = (ps[i].aborted \/ (ps[i].pc # "none" /\ ps[i].kind = "list"))
  BY ProbesAborted
<1> HIDE DEF qs
<1>2. Abort(qs, "test") \in [Probes -> Probe] /\ \A i \in Probes :
        /\ Abort(qs, "test")[i].pc = qs[i].pc /\ Abort(qs, "test")[i].details = qs[i].details
        /\ Abort(qs, "test")[i].aborted = (qs[i].aborted \/ (qs[i].pc # "none" /\ qs[i].kind = "test"))
  BY <1>1, ProbesAborted
<1>3. \A i \in Probes : ps[i].kind \in {"list", "test"}
  BY DEF Probe
<1> QED BY <1>1, <1>2, <1>3 DEF qs

\* The query goes on, or is asked again; its data stay.
LEMMA ListedAgain ==
  ASSUME listing \in Listing
  PROVE  /\ ListingShared \in Listing /\ ListingAgain \in Listing
         /\ \A l \in {ListingShared, ListingAgain} :
              l.data = listing.data /\ l.loaded = listing.loaded /\ l.failed = listing.failed
         /\ ListingShared = listing \/ (ListingShared.fetch = ListingAsked
                                        /\ ListingShared.doubtful = listing.doubtful)
         /\ \/ ListingAgain.fetch = ListingAsked /\ ListingAgain.doubtful = listing.doubtful
            \/ ~ListingAgain.loaded /\ ~ListingAgain.fetch.sure /\ ListingAgain.doubtful
<1>1. ListingAsked \in Fetch
  BY BlankRecords
<1>2. /\ ListingShared \in Listing /\ ListingShared.data = listing.data
      /\ ListingShared.loaded = listing.loaded /\ ListingShared.failed = listing.failed
      /\ ListingShared = listing \/ (ListingShared.fetch = ListingAsked
                                     /\ ListingShared.doubtful = listing.doubtful)
  BY <1>1 DEF ListingShared, Listing
<1>3. CASE listing.loaded
  <2>1. ListingAgain = [listing EXCEPT !.fetch = ListingAsked]
    BY <1>3 DEF ListingAgain
  <2> QED BY <1>1, <1>2, <2>1 DEF Listing
<1>4. CASE ~listing.loaded
  <2>1. ListingAgain = [ListingShared EXCEPT !.fetch.sure = FALSE, !.doubtful = TRUE]
    BY <1>4 DEF ListingAgain
  <2> QED BY <1>2, <1>4, <2>1 DEF Listing, Fetch
<1> QED BY <1>3, <1>4

\* A request that is asked, and one that is answered.
LEMMA AskedIs ==
  ASSUME asked \in [Kinds -> Mutation], NEW k \in Kinds, NEW p \in Providers \cup {Nobody},
         NEW row \in Rows, Ask(k, p, row)
  PROVE  /\ asked' \in [Kinds -> Mutation] /\ asked'[k].pc = "sent" /\ asked'[k].provider = p
         /\ \A l \in Kinds \ {k} : asked'[l] = asked[l]
<1> QED BY DEF Ask, Mutation

LEMMA AskedAnswered ==
  ASSUME asked \in [Kinds -> Mutation], NEW k \in Kinds, NEW pc \in {"accepted", "refused"},
         asked' = [asked EXCEPT ![k].pc = pc]
  PROVE  /\ asked' \in [Kinds -> Mutation] /\ asked'[k].pc = pc
         /\ asked'[k].provider = asked[k].provider
         /\ \A l \in Kinds \ {k} : asked'[l] = asked[l]
<1>1. asked[k] \in Mutation
  OBVIOUS
<1>2. [asked[k] EXCEPT !.pc = pc] \in Mutation /\ [asked[k] EXCEPT !.pc = pc].pc = pc
      /\ [asked[k] EXCEPT !.pc = pc].provider = asked[k].provider
  BY <1>1 DEF Mutation
<1>3. asked' = [asked EXCEPT ![k] = [asked[k] EXCEPT !.pc = pc]]
  OBVIOUS
<1> HIDE DEF Mutation
<1> QED BY <1>2, <1>3

LEMMA AskedEnds ==
  ASSUME asked \in [Kinds -> Mutation], NEW k \in Kinds, asked' = [asked EXCEPT ![k] = NoMutation]
  PROVE  /\ asked' \in [Kinds -> Mutation] /\ asked'[k].pc = "none"
         /\ \A l \in Kinds \ {k} : asked'[l] = asked[l]
<1> QED BY BlankRecords DEF NoMutation
-----------------------------------------------------------------------------
(* Type correctness of the page, a conjunct for each thing it keeps.       *)

FormTyped == view \in View /\ form \in Form /\ (view.formOpen => form.details # Nobody)
ProbesTyped ==
  probes \in [Probes -> Probe] /\ \A i \in Probes : probes[i].pc = "sent" => probes[i].details # Nobody
AskedTyped == asked \in [Kinds -> Mutation]
ActsTyped == adminActs \in 0..MaxAdminActs /\ adminFaults \in 0..MaxAdminFaults
\* A test costs the administrator an act.
TestsTyped == testing \in [Providers -> Nat] /\ \A p \in Providers : testing[p] <= adminActs
ListingTyped == listing \in Listing
ServerTyped == server \in ApiState

AdminTypes ==
  /\ FormTyped /\ ProbesTyped /\ AskedTyped /\ ActsTyped /\ TestsTyped /\ ListingTyped /\ ServerTyped

\* The counters only grow, up to their bounds.
Counted == AdminAct \/ AdminFault \/ NoAct

LEMMA ActsGrow == ActsTyped /\ Counted => ActsTyped' /\ adminActs <= adminActs'
<1> QED BY ProviderPageConstants DEF ActsTyped, Counted, AdminAct, AdminFault, NoAct

LEMMA TypedStay ==
  ASSUME AdminTypes, Counted
  PROVE  /\ UNCHANGED <<view, form>> => FormTyped'
         /\ UNCHANGED probes => ProbesTyped'
         /\ UNCHANGED asked => AskedTyped'
         /\ ActsTyped'
         /\ UNCHANGED testing => TestsTyped'
         /\ UNCHANGED listing => ListingTyped'
         /\ UNCHANGED server => ServerTyped'
<1>1. ActsTyped' /\ adminActs <= adminActs' /\ adminActs \in Nat /\ adminActs' \in Nat
  BY ActsGrow DEF AdminTypes, ActsTyped
<1>2. UNCHANGED testing => TestsTyped'
  BY <1>1 DEF AdminTypes, TestsTyped
<1>3. UNCHANGED <<view, form>> => FormTyped'
  BY DEF AdminTypes, FormTyped
<1>4. UNCHANGED probes => ProbesTyped'
  BY DEF AdminTypes, ProbesTyped
<1> QED BY <1>1, <1>2, <1>3, <1>4 DEF AdminTypes, AskedTyped, ListingTyped, ServerTyped

LEMMA AdminTypesAreTypes == AdminTypes => AdminTypeOK
<1> SUFFICES ASSUME AdminTypes PROVE AdminTypeOK
  OBVIOUS
<1>1. testing \in [Providers -> 0..MaxAdminActs]
  BY ProviderPageConstants DEF AdminTypes, TestsTyped, ActsTyped
<1> QED BY <1>1 DEF AdminTypes, AdminTypeOK, FormTyped, ProbesTyped, AskedTyped, ActsTyped, ListingTyped, ServerTyped

LEMMA AdminTypesStart == AdminInit => AdminTypes
<1> SUFFICES ASSUME AdminInit PROVE AdminTypes
  OBVIOUS
<1>1. FormTyped
  BY BlankRecords DEF AdminInit, FormTyped, ClosedView
<1>2. ProbesTyped
  BY BlankRecords DEF AdminInit, ProbesTyped, NoProbe
<1>3. AskedTyped
  BY BlankRecords DEF AdminInit, AskedTyped
<1>4. ActsTyped /\ TestsTyped
  BY ProviderPageConstants DEF AdminInit, ActsTyped, TestsTyped
<1>5. ListingTyped
  BY BlankRecords DEF AdminInit, ListingTyped, Listing
<1>6. ServerTyped
  BY DEF AdminInit, ServerTyped, ApiState
<1> QED BY <1>1, <1>2, <1>3, <1>4, <1>5, <1>6 DEF AdminTypes

LEMMA AdminTypesStep == AdminTypes /\ [AdminNext]_adminVars => AdminTypes'
<1> SUFFICES ASSUME AdminTypes, [AdminNext]_adminVars PROVE AdminTypes'
  OBVIOUS
<1>a. view \in View /\ form \in Form /\ probes \in [Probes -> Probe] /\ asked \in [Kinds -> Mutation]
      /\ listing \in Listing /\ server \in ApiState
  BY DEF AdminTypes, FormTyped, ProbesTyped, AskedTyped, ListingTyped, ServerTyped
<1>b. view.formOpen => form.details \in Details
  BY <1>a DEF AdminTypes, FormTyped, Form
<1> USE ProviderPageConstants
<1> USE <1>a, <1>b
<1>0. CASE UNCHANGED adminVars
  BY <1>0, TypedStay DEF adminVars, AdminTypes, Counted, NoAct
<1>1. ASSUME NEW d \in Details, ChangeDetails(d) PROVE AdminTypes'
  <2> DEFINE f == [form EXCEPT !.details = d]
  <2>1. f \in Form /\ f.details = d
    BY DEF Form
  <2>2. form' = Untested(ListingArmed(f))
    BY <1>1 DEF ChangeDetails
  <2> HIDE DEF f
  <2>3. form' \in Form /\ form'.details = d
    BY <2>1, <2>2, ArmedForm, UntestedForm
  <2>4. FormTyped'
    BY <1>1, <2>3 DEF ChangeDetails, FormTyped
  <2>5. ProbesTyped'
    BY <1>1, BothAborted DEF ChangeDetails, AdminTypes, ProbesTyped
  <2> QED BY <1>1, <2>4, <2>5, TypedStay DEF ChangeDetails, Counted, AdminTypes
<1>2. ASSUME NEW m \in Models, ChangeModel(m) PROVE AdminTypes'
  <2> DEFINE f == [form EXCEPT !.model = m]
  <2>1. f \in Form /\ f.details = form.details
    BY DEF Form
  <2>2. form' = Untested(f)
    BY <1>2 DEF ChangeModel
  <2> HIDE DEF f
  <2>3. form' \in Form /\ form'.details = form.details
    BY <2>1, <2>2, UntestedForm
  <2>4. FormTyped'
    BY <1>2, <2>3 DEF ChangeModel, FormTyped
  <2>5. ProbesTyped'
    BY <1>2, ProbesAborted DEF ChangeModel, AdminTypes, ProbesTyped
  <2> QED BY <1>2, <2>4, <2>5, TypedStay DEF ChangeModel, Counted, AdminTypes
<1>3. ASSUME NEW i \in Probes, TestModel(i) PROVE AdminTypes'
  <2>1. form' = [Untested(form) EXCEPT !.testing = TRUE] /\ Untested(form) \in Form
        /\ Untested(form).details = form.details
    BY <1>3, UntestedForm DEF TestModel
  <2>2. form' \in Form /\ form'.details = form.details
    BY <2>1 DEF Form
  <2>3. FormTyped'
    BY <1>3, <2>2 DEF TestModel, FormTyped, CanType
  <2> DEFINE sent == [NoProbe EXCEPT !.pc = "sent", !.kind = "test", !.details = form.details,
                                     !.model = form.model]
  <2>4. sent \in Probe /\ sent.details # Nobody
    BY <1>3 DEF TestModel, NoProbe, Probe, Form
  <2>5. probes' = [Abort(probes, "test") EXCEPT ![i] = sent]
    BY <1>3 DEF TestModel
  <2> HIDE DEF sent
  <2>6. ProbesTyped'
    BY <2>4, <2>5, ProbesAborted DEF AdminTypes, ProbesTyped
  <2> QED BY <1>3, <2>3, <2>6, TypedStay DEF TestModel, Counted, AdminTypes
<1>4. ASSUME NEW p \in Providers, OpenEditForm(p) PROVE AdminTypes'
  <2>1. listing.data.rows[p] \in Rows /\ listing.data.rows[p].state = "saved"
    BY <1>4 DEF OpenEditForm, Shown, IsSaved, Listing, ApiState
  <2> DEFINE d == listing.data.rows[p].details
             m == listing.data.rows[p].model
  <2>2. d \in Details /\ m \in Models
    BY <2>1, SavedRows
  <2>3. form' = OpenedForm(d, m)
    BY <1>4 DEF OpenEditForm
  <2> HIDE DEF d, m
  <2>4. form' \in Form /\ form'.details = d
    BY <2>2, <2>3, FormOpens
  <2>5. form'.details # Nobody
    BY <2>2, <2>4
  <2>6. FormTyped'
    BY <1>4, <2>4, <2>5 DEF OpenEditForm, View, FormTyped
  <2> QED BY <1>4, <2>6, TypedStay DEF OpenEditForm, Counted, AdminTypes
<1>5. ASSUME NEW p \in Providers, OpenDeleteConfirm(p) PROVE AdminTypes'
  <2>1. FormTyped'
    BY <1>5 DEF OpenDeleteConfirm, View, FormTyped
  <2> QED BY <1>5, <2>1, TypedStay DEF OpenDeleteConfirm, Counted, AdminTypes
<1>6. ASSUME NEW p \in Providers, OpenPullPanel(p) PROVE AdminTypes'
  <2>1. FormTyped'
    BY <1>6 DEF OpenPullPanel, View, FormTyped
  <2> QED BY <1>6, <2>1, TypedStay DEF OpenPullPanel, Counted, AdminTypes
<1>7. ASSUME NEW p \in Providers, HandleSetDefaultProvider(p) PROVE AdminTypes'
  <2>1. AskedTyped'
    BY <1>7, RowsAre, AskedIs DEF HandleSetDefaultProvider, AskedTyped, Kinds
  <2> QED BY <1>7, <2>1, TypedStay DEF HandleSetDefaultProvider, Counted, AdminTypes
<1>8. ASSUME NEW p \in Providers, HandleTestProvider(p) PROVE AdminTypes'
  <2>1. FormTyped'
    BY <1>8 DEF HandleTestProvider, View, FormTyped
  <2>2. TestsTyped'
    BY <1>8 DEF HandleTestProvider, AdminAct, AdminTypes, TestsTyped, ActsTyped
  <2> QED BY <1>8, <2>1, <2>2, TypedStay DEF HandleTestProvider, Counted, AdminTypes
<1>9. CASE RefreshModels
  <2>1. FormTyped'
    BY <1>9, ArmedForm DEF RefreshModels, CanType, FormTyped
  <2>2. ProbesTyped'
    BY <1>9, ProbesAborted DEF RefreshModels, AdminTypes, ProbesTyped
  <2> QED BY <1>9, <2>1, <2>2, TypedStay DEF RefreshModels, Counted, AdminTypes
<1>10. CASE RefreshProviders
  BY <1>10, ListedAgain, TypedStay DEF RefreshProviders, ListingTyped, Counted, AdminTypes
<1>11. CASE FocusWindow
  BY <1>11, ListedAgain, TypedStay DEF FocusWindow, ListingTyped, Counted, AdminTypes
<1>12. CASE OpenCreateForm
  <2>0. NewDetails \in Details /\ NewDetails # Nobody /\ Nobody \in Models \cup {Nobody}
    OBVIOUS
  <2>1. form' \in Form /\ form'.details # Nobody
    BY <1>12, <2>0, FormOpens DEF OpenCreateForm
  <2>2. FormTyped'
    BY <1>12, <2>1 DEF OpenCreateForm, View, FormTyped
  <2> QED BY <1>12, <2>2, TypedStay DEF OpenCreateForm, Counted, AdminTypes
<1>13. CASE CloseForm
  <2>1. FormTyped'
    BY <1>13, BlankRecords DEF CloseForm, UnmountForm, View, FormTyped
  <2>2. ProbesTyped'
    BY <1>13, BothAborted DEF CloseForm, UnmountForm, AdminTypes, ProbesTyped
  <2> QED BY <1>13, <2>1, <2>2, TypedStay DEF CloseForm, Counted, AdminTypes
<1>14. CASE HandleSubmit
  <2>1. form.details \in Details /\ form.model \in Models /\ view.editing \in Providers \cup {Nobody}
    BY <1>14 DEF HandleSubmit, CanType, Form, View
  <2>2. AskedTyped'
    BY <1>14, <2>1, RowsAre, AskedIs DEF HandleSubmit, AskedTyped, Kinds
  <2> QED BY <1>14, <2>2, TypedStay DEF HandleSubmit, Counted, AdminTypes
<1>15. CASE CancelDelete
  <2>1. FormTyped'
    BY <1>15 DEF CancelDelete, View, FormTyped
  <2> QED BY <1>15, <2>1, TypedStay DEF CancelDelete, Counted, AdminTypes
<1>16. CASE ConfirmDelete
  <2>1. view.deleting \in Providers \cup {Nobody}
    BY DEF View
  <2>2. AskedTyped'
    BY <1>16, <2>1, RowsAre, AskedIs DEF ConfirmDelete, AskedTyped, Kinds
  <2> QED BY <1>16, <2>2, TypedStay DEF ConfirmDelete, Counted, AdminTypes
<1>17. CASE ClosePullPanel
  <2>1. FormTyped'
    BY <1>17 DEF ClosePullPanel, View, FormTyped
  <2> QED BY <1>17, <2>1, TypedStay DEF ClosePullPanel, Counted, AdminTypes
<1>18. CASE HandlePullModel
  <2>1. view.pulling \in Providers \cup {Nobody}
    BY DEF View
  <2>2. AskedTyped'
    BY <1>18, <2>1, RowsAre, AskedIs DEF HandlePullModel, AskedTyped, Kinds
  <2>3. FormTyped'
    BY <1>18 DEF HandlePullModel, View, FormTyped
  <2> QED BY <1>18, <2>2, <2>3, TypedStay DEF HandlePullModel, Counted, AdminTypes
<1>19. ASSUME NEW i \in Probes, LoadModels(i) PROVE AdminTypes'
  <2>1. FormTyped'
    BY <1>19 DEF LoadModels, Form, AdminTypes, FormTyped
  <2> DEFINE sent == [NoProbe EXCEPT !.pc = "sent", !.details = form.armed]
  <2>2. sent \in Probe /\ sent.details # Nobody
    BY <1>19 DEF LoadModels, NoProbe, Probe, Form
  <2>3. probes' = [probes EXCEPT ![i] = sent]
    BY <1>19 DEF LoadModels
  <2> HIDE DEF sent
  <2>4. ProbesTyped'
    BY <2>2, <2>3 DEF AdminTypes, ProbesTyped
  <2> QED BY <1>19, <2>1, <2>4, TypedStay DEF LoadModels, Counted, AdminTypes
<1>20. ASSUME NEW i \in Probes, ModelsLoaded(i) PROVE AdminTypes'
  <2>1. probes[i].details \in ProbeDetails
    BY <1>20 DEF ModelsLoaded, AdminTypes, ProbesTyped, Probe
  <2>2. modelsOf[probes[i].details] \subseteq Models
    BY <2>1
  <2>3. form' = form \/ \E ids \in SUBSET Models :
                  form' = [form EXCEPT !.models = ids, !.listedFor = probes[i].details, !.loading = FALSE]
    <3>1. CASE probes[i].aborted
      BY <1>20, <3>1 DEF ModelsLoaded
    <3>2. CASE ~probes[i].aborted
      <4>1. \E ids \in {{}, modelsOf[probes[i].details]} :
              form' = [form EXCEPT !.models = ids, !.listedFor = probes[i].details, !.loading = FALSE]
        BY <1>20, <3>2 DEF ModelsLoaded
      <4> QED BY <4>1, <2>2
    <3> QED BY <3>1, <3>2
  <2>4. FormTyped'
    BY <1>20, <2>1, <2>3 DEF ModelsLoaded, Form, AdminTypes, FormTyped
  <2>5. ProbesTyped'
    BY <1>20, BlankRecords DEF ModelsLoaded, NoProbe, AdminTypes, ProbesTyped
  <2> QED BY <1>20, <2>4, <2>5, TypedStay DEF ModelsLoaded, Counted, AdminTypes
<1>21. ASSUME NEW i \in Probes, ModelTested(i) PROVE AdminTypes'
  <2> DEFINE verdict == [details |-> probes[i].details, model |-> probes[i].model]
  <2>1. verdict \in Verdict
    BY DEF Probe, Verdict
  <2>2. form' = IF probes[i].aborted THEN form ELSE [form EXCEPT !.testing = FALSE, !.tested = verdict]
    BY <1>21 DEF ModelTested
  <2> HIDE DEF verdict
  <2>3. FormTyped'
    BY <1>21, <2>1, <2>2 DEF ModelTested, Form, AdminTypes, FormTyped
  <2>4. ProbesTyped'
    BY <1>21, BlankRecords DEF ModelTested, NoProbe, AdminTypes, ProbesTyped
  <2> QED BY <1>21, <2>3, <2>4, TypedStay DEF ModelTested, Counted, AdminTypes
<1>22. ASSUME NEW p \in Providers, TestProviderEnds(p) PROVE AdminTypes'
  <2>1. FormTyped'
    BY <1>22 DEF TestProviderEnds, View, AdminTypes, FormTyped
  <2>2. TestsTyped'
    BY <1>22 DEF TestProviderEnds, NoAct, AdminTypes, TestsTyped, ActsTyped
  <2> QED BY <1>22, <2>1, <2>2, TypedStay DEF TestProviderEnds, Counted, AdminTypes
<1>23. CASE SaveEnds
  <2>1. AskedTyped'
    BY <1>23, AskedEnds DEF SaveEnds, AskedTyped, Kinds
  <2>2. FormTyped'
    <3>1. \/ form' = form /\ view' = view
          \/ form' = ClosedForm /\ view' = [view EXCEPT !.formOpen = FALSE, !.editing = Nobody]
      BY <1>23 DEF SaveEnds, UnmountForm
    <3> QED BY <3>1, BlankRecords DEF ClosedForm, View, AdminTypes, FormTyped
  <2>3. ProbesTyped'
    <3>1. probes \in [Probes -> Probe] /\ \A i \in Probes : probes[i].pc = "sent" => probes[i].details # Nobody
      BY DEF AdminTypes, ProbesTyped
    <3>2. probes' = probes \/ probes' = Abort(Abort(probes, "list"), "test")
      BY <1>23 DEF SaveEnds, UnmountForm
    <3> QED BY <3>1, <3>2, BothAborted DEF ProbesTyped
  <2>4. ListingTyped'
    BY <1>23, ListedAgain DEF SaveEnds, ListingTyped
  <2> QED BY <1>23, <2>1, <2>2, <2>3, <2>4, TypedStay DEF SaveEnds, Counted, AdminTypes
<1>24. CASE DeleteEnds
  <2>1. AskedTyped'
    BY <1>24, AskedEnds DEF DeleteEnds, AskedTyped, Kinds
  <2>2. FormTyped'
    BY <1>24 DEF DeleteEnds, View, AdminTypes, FormTyped
  <2>3. ListingTyped'
    BY <1>24, ListedAgain DEF DeleteEnds, ListingTyped
  <2> QED BY <1>24, <2>1, <2>2, <2>3, TypedStay DEF DeleteEnds, Counted, AdminTypes
<1>25. CASE PullEnds
  <2>1. AskedTyped'
    BY <1>25, AskedEnds DEF PullEnds, AskedTyped, Kinds
  <2>2. FormTyped'
    BY <1>25 DEF PullEnds, View, AdminTypes, FormTyped
  <2> QED BY <1>25, <2>1, <2>2, TypedStay DEF PullEnds, Counted, AdminTypes
<1>26. CASE DefaultEnds
  <2>1. AskedTyped'
    BY <1>26, AskedEnds DEF DefaultEnds, AskedTyped, Kinds
  <2>2. ListingTyped'
    BY <1>26, ListedAgain DEF DefaultEnds, ListingTyped
  <2> QED BY <1>26, <2>1, <2>2, TypedStay DEF DefaultEnds, Counted, AdminTypes
<1>27. CASE ReceiveListing
  <2>1. [ListingAsked EXCEPT !.retried = TRUE] \in Fetch /\ ListingIdle \in Fetch
    BY BlankRecords DEF Fetch
  <2>2. ASSUME listing' = [fetch |-> ListingIdle, data |-> listing.fetch.answer, loaded |-> TRUE,
                           failed |-> FALSE, doubtful |-> listing.doubtful /\ ~listing.fetch.sure]
        PROVE  ListingTyped'
    BY <2>1, <2>2 DEF Listing, Fetch, ListingTyped
  <2>3. ASSUME listing' = [listing EXCEPT !.fetch = [ListingAsked EXCEPT !.retried = TRUE]]
        PROVE  ListingTyped'
    BY <2>1, <2>3 DEF Listing, ListingTyped
  <2>4. ASSUME listing' = [listing EXCEPT !.fetch = ListingIdle, !.failed = TRUE]
        PROVE  ListingTyped'
    BY <2>1, <2>4 DEF Listing, ListingTyped
  <2>5. ListingTyped'
    BY <1>27, <2>2, <2>3, <2>4 DEF ReceiveListing
  <2> QED BY <1>27, <2>5, TypedStay DEF ReceiveListing, Counted, AdminTypes
<1>28. ASSUME NEW k \in Kinds, Serve(k) PROVE AdminTypes'
  <2>1. asked[k].provider \in Providers \cup {Nobody} /\ asked[k].row \in Rows
    BY DEF Mutation
  <2>2. AskedTyped'
    BY <1>28, AskedAnswered DEF Serve, AskedTyped
  <2>3. ServerTyped'
    BY <1>28, <2>1, ChangesAreStates DEF Serve, ServerTyped
  <2> QED BY <1>28, <2>2, <2>3, TypedStay DEF Serve, Counted, AdminTypes
<1>29. ASSUME NEW k \in Kinds, LoseAnswer(k) PROVE AdminTypes'
  <2>1. asked[k].provider \in Providers \cup {Nobody} /\ asked[k].row \in Rows
    BY DEF Mutation
  <2>2. AskedTyped'
    BY <1>29, AskedAnswered DEF LoseAnswer, AskedTyped
  <2>3. ServerTyped'
    BY <1>29, <2>1, ChangesAreStates DEF LoseAnswer, ServerTyped
  <2>4. ListingTyped'
    BY <1>29 DEF LoseAnswer, Listing, Fetch, ListingTyped
  <2> QED BY <1>29, <2>2, <2>3, <2>4, TypedStay DEF LoseAnswer, Counted, AdminTypes
<1>30. CASE ChangeByOther
  <2>1. ServerTyped'
    <3>1. PICK k \in {"save", "delete", "default"}, p \in Providers, d \in Details, m \in Models :
            server' \in Changes(k, p, IF k = "delete" THEN Removed ELSE Saved(d, m))
      BY <1>30 DEF ChangeByOther
    <3>2. (IF k = "delete" THEN Removed ELSE Saved(d, m)) \in Rows
      BY RowsAre
    <3>3. k \in Kinds
      BY DEF Kinds
    <3> QED BY <3>1, <3>2, <3>3, ChangesAreStates DEF ServerTyped
  <2>2. ListingTyped'
    BY <1>30 DEF ChangeByOther, Listing, Fetch, ListingTyped
  <2> QED BY <1>30, <2>1, <2>2, TypedStay DEF ChangeByOther, Counted, AdminTypes
<1>31. CASE AnswerListing
  <2>1. ListingTyped'
    BY <1>31 DEF AnswerListing, Listing, Fetch, ListingTyped
  <2> QED BY <1>31, <2>1, TypedStay DEF AnswerListing, Counted, AdminTypes
<1>32. CASE LoseListing
  <2>1. ListingTyped'
    BY <1>32 DEF LoseListing, Listing, Fetch, ListingTyped
  <2> QED BY <1>32, <2>1, TypedStay DEF LoseListing, Counted, AdminTypes
<1> QED BY <1>0, <1>1, <1>2, <1>3, <1>4, <1>5, <1>6, <1>7, <1>8, <1>9, <1>10, <1>11, <1>12, <1>13, <1>14, <1>15, <1>16, <1>17, <1>18, <1>19, <1>20, <1>21, <1>22, <1>23, <1>24, <1>25, <1>26, <1>27, <1>28, <1>29, <1>30, <1>31, <1>32 DEF AdminNext, AdminStep, AnswerStep, ServerAnswers

\* Type correctness of the provider page.
THEOREM AdminTypeCorrect == AdminSpec => []AdminTypeOK
<1>1. AdminSpec => []AdminTypes
  BY AdminTypesStart, AdminTypesStep, PTL DEF AdminSpec
<1> QED BY <1>1, AdminTypesAreTypes, PTL
-----------------------------------------------------------------------------
(* The form is of its draft: at most one probe of a kind is waited for,    *)
(* and it is for the draft that is in the form.                            *)

Live(i, kind) == probes[i].pc # "none" /\ probes[i].kind = kind /\ ~probes[i].aborted
AnyLive(kind) == \E i \in Probes : Live(i, kind)

FormFollows ==
  /\ ~view.formOpen => form = ClosedForm
  /\ form.models # {} => form.listedFor = form.details
  /\ form.tested # NoVerdict => form.tested = [details |-> form.details, model |-> form.model]
  /\ form.loading <=> form.armed # Nobody \/ AnyLive("list")
  /\ form.testing <=> AnyLive("test")
  /\ form.armed # Nobody => form.armed = form.details /\ ~AnyLive("list")
  /\ \A i \in Probes : Live(i, "list") \/ Live(i, "test") => view.formOpen /\ probes[i].details = form.details
  /\ \A i \in Probes : Live(i, "test") => probes[i].model = form.model
  /\ \A i, j \in Probes : Live(i, "list") /\ Live(j, "list") => i = j
  /\ \A i, j \in Probes : Live(i, "test") /\ Live(j, "test") => i = j

\* A form that has just been opened, changed or closed waits for no probe.
LEMMA FreshFormFollows ==
  ASSUME view'.formOpen \/ form' = ClosedForm,
         form'.models = {}, form'.tested = NoVerdict, form'.testing = FALSE,
         form'.loading <=> (form'.armed # Nobody), form'.armed # Nobody => form'.armed = form'.details,
         \A i \in Probes : ~Live(i, "list")' /\ ~Live(i, "test")'
  PROVE  FormFollows'
<1> QED BY DEF FormFollows, AnyLive

\* A closed form waits for nothing.
LEMMA ClosedWaitsForNothing ==
  ASSUME FormFollows, ~view.formOpen
  PROVE  \A i \in Probes : ~Live(i, "list") /\ ~Live(i, "test")
<1> QED BY DEF FormFollows, AnyLive, ClosedForm

LEMMA LiveAfterAbort ==
  ASSUME probes \in [Probes -> Probe]
  PROVE  /\ \A kind, other \in {"list", "test"} : probes' = Abort(probes, kind) =>
              /\ probes' \in [Probes -> Probe]
              /\ \A i \in Probes : ~Live(i, kind)' /\ (other # kind => Live(i, other)' = Live(i, other))
              /\ \A i \in Probes : probes'[i].details = probes[i].details
                                   /\ probes'[i].model = probes[i].model
         /\ probes' = Abort(Abort(probes, "list"), "test") =>
              \A i \in Probes : ~Live(i, "list")' /\ ~Live(i, "test")'
<1>1. ASSUME NEW kind \in {"list", "test"}, NEW other \in {"list", "test"}, probes' = Abort(probes, kind)
      PROVE  /\ probes' \in [Probes -> Probe]
             /\ \A i \in Probes : ~Live(i, kind)' /\ (other # kind => Live(i, other)' = Live(i, other))
             /\ \A i \in Probes : probes'[i].details = probes[i].details
                                   /\ probes'[i].model = probes[i].model
  <2>1. probes' \in [Probes -> Probe] /\ \A i \in Probes :
          /\ probes'[i].pc = probes[i].pc /\ probes'[i].kind = probes[i].kind
          /\ probes'[i].details = probes[i].details /\ probes'[i].model = probes[i].model
          /\ probes'[i].aborted = (probes[i].aborted \/ (probes[i].pc # "none" /\ probes[i].kind = kind))
    BY <1>1, ProbesAborted
  <2>2. ASSUME NEW i \in Probes
        PROVE  ~Live(i, kind)' /\ (other # kind => Live(i, other)' = Live(i, other))
    BY <2>1 DEF Live
  <2> QED BY <2>1, <2>2
<1>2. probes' = Abort(Abort(probes, "list"), "test") =>
        \A i \in Probes : ~Live(i, "list")' /\ ~Live(i, "test")'
  BY BothAborted DEF Live
<1> QED BY <1>1, <1>2

LEMMA FormFollowsStays ==
  ASSUME FormFollows, UNCHANGED <<form, probes>>, view'.formOpen = view.formOpen
  PROVE  FormFollows'
<1> QED BY DEF FormFollows, AnyLive, Live

LEMMA FormFollowsStart == AdminInit => FormFollows
<1> QED BY DEF AdminInit, FormFollows, AnyLive, Live, ClosedForm, NoProbe, NoVerdict

LEMMA FormFollowsStep == AdminTypes /\ FormFollows /\ [AdminNext]_adminVars => FormFollows'
<1> SUFFICES ASSUME AdminTypes, FormFollows, [AdminNext]_adminVars PROVE FormFollows'
  OBVIOUS
<1>a. view \in View /\ form \in Form /\ probes \in [Probes -> Probe]
  BY DEF AdminTypes, FormTyped, ProbesTyped
<1> USE ProviderPageConstants
<1> USE <1>a
<1>0. CASE UNCHANGED <<form, probes>> /\ view'.formOpen = view.formOpen
  BY <1>0, FormFollowsStays
<1>1. ASSUME NEW d \in Details, ChangeDetails(d) PROVE FormFollows'
  <2> DEFINE f == [form EXCEPT !.details = d]
             h == Untested(ListingArmed(f))
  <2>1. f \in Form
    BY TypedForm DEF Form
  <2>2. form' = h
    BY <1>1 DEF ChangeDetails
  <2> HIDE DEF f
  <2>3. /\ h.models = {} /\ h.tested = NoVerdict /\ h.testing = FALSE
        /\ (h.loading <=> (h.armed # Nobody)) /\ (h.armed # Nobody => h.armed = h.details)
    BY <2>1, StartedOver
  <2> HIDE DEF h
  <2>4. /\ form'.models = {} /\ form'.tested = NoVerdict /\ form'.testing = FALSE
        /\ (form'.loading <=> (form'.armed # Nobody)) /\ (form'.armed # Nobody => form'.armed = form'.details)
    BY <2>2, <2>3
  <2>5. view'.formOpen
    BY <1>1 DEF ChangeDetails, CanType
  <2>6. \A i \in Probes : ~Live(i, "list")' /\ ~Live(i, "test")'
    BY <1>1, LiveAfterAbort DEF ChangeDetails
  <2> QED BY <2>4, <2>5, <2>6, FreshFormFollows
<1>2. ASSUME NEW m \in Models, ChangeModel(m) PROVE FormFollows'
  <2> DEFINE f == [form EXCEPT !.model = m]
  <2>1. /\ f \in Form /\ f.details = form.details /\ f.models = form.models
        /\ f.listedFor = form.listedFor /\ f.armed = form.armed /\ f.loading = form.loading
    BY DEF Form
  <2>2. form' = Untested(f)
    BY <1>2 DEF ChangeModel
  <2> HIDE DEF f
  <2>3. /\ form'.tested = NoVerdict /\ form'.testing = FALSE /\ form'.details = form.details
        /\ form'.models = form.models /\ form'.listedFor = form.listedFor
        /\ form'.armed = form.armed /\ form'.loading = form.loading
    BY <2>1, <2>2, UntestedForm
  <2>4. \A i \in Probes : /\ Live(i, "list")' = Live(i, "list") /\ ~Live(i, "test")'
                          /\ probes'[i].details = probes[i].details
    BY <1>2, LiveAfterAbort DEF ChangeModel
  <2>5. view'.formOpen /\ view.formOpen
    BY <1>2 DEF ChangeModel, CanType
  <2> QED BY <2>3, <2>4, <2>5 DEF FormFollows, AnyLive
<1>3. ASSUME NEW i \in Probes, TestModel(i) PROVE FormFollows'
  <2>1. /\ Untested(form) \in Form /\ form' = [Untested(form) EXCEPT !.testing = TRUE]
    BY <1>3, UntestedForm DEF TestModel
  <2>2. /\ form'.tested = NoVerdict /\ form'.testing = TRUE /\ form'.details = form.details
        /\ form'.model = form.model
        /\ form'.models = form.models /\ form'.listedFor = form.listedFor
        /\ form'.armed = form.armed /\ form'.loading = form.loading
    BY <2>1, UntestedForm DEF Form
  <2> DEFINE sent == [NoProbe EXCEPT !.pc = "sent", !.kind = "test", !.details = form.details,
                                     !.model = form.model]
             ps == Abort(probes, "test")
  <2>3. /\ sent.pc = "sent" /\ sent.kind = "test" /\ sent.details = form.details
        /\ sent.model = form.model /\ sent.aborted = FALSE
    BY DEF NoProbe
  <2>4. probes' = [ps EXCEPT ![i] = sent]
    BY <1>3 DEF TestModel
  <2>5. ps \in [Probes -> Probe] /\ \A j \in Probes :
          /\ ps[j].pc = probes[j].pc /\ ps[j].kind = probes[j].kind
          /\ ps[j].details = probes[j].details
          /\ ps[j].aborted = (probes[j].aborted \/ (probes[j].pc # "none" /\ probes[j].kind = "test"))
    BY ProbesAborted
  <2>6. probes[i].pc = "none"
    BY <1>3 DEF TestModel, FreeProbe
  <2> HIDE DEF sent, ps
  <2>7. probes'[i] = sent /\ \A j \in Probes \ {i} : probes'[j] = ps[j]
    BY <2>4, <2>5
  <2>8. \A j \in Probes : /\ Live(j, "list")' <=> Live(j, "list")
                          /\ Live(j, "test")' <=> j = i
                          /\ Live(j, "list") => probes'[j].details = probes[j].details
    <3>1. Live(i, "test")' /\ ~Live(i, "list")' /\ ~Live(i, "list")
      BY <2>3, <2>6, <2>7 DEF Live
    <3>2. ASSUME NEW j \in Probes \ {i}
          PROVE  /\ Live(j, "list")' <=> Live(j, "list")
                 /\ ~Live(j, "test")' /\ probes'[j].details = probes[j].details
      BY <2>5, <2>7 DEF Live
    <3> QED BY <3>1, <3>2
  <2>9. probes'[i].details = form.details /\ probes'[i].model = form.model
    BY <2>3, <2>7
  <2>10. view'.formOpen /\ view.formOpen
    BY <1>3 DEF TestModel, CanType
  <2> QED BY <2>2, <2>8, <2>9, <2>10 DEF FormFollows, AnyLive
<1>4. ASSUME NEW p \in Providers, OpenEditForm(p) PROVE FormFollows'
  <2>1. listing.data.rows[p] \in Rows /\ listing.data.rows[p].state = "saved"
    BY <1>4 DEF OpenEditForm, Shown, IsSaved, Listing, ApiState, AdminTypes, ListingTyped
  <2>2. PICK at \in Details, name \in Models : form' = OpenedForm(at, name)
    BY <1>4, <2>1, SavedRows DEF OpenEditForm
  <2>3. UNCHANGED probes /\ ~view.formOpen /\ view'.formOpen
    BY <1>4 DEF OpenEditForm, DialogOpen, View
  <2>4. \A i \in Probes : ~Live(i, "list")' /\ ~Live(i, "test")'
    BY <2>3, ClosedWaitsForNothing DEF Live
  <2> DEFINE o == OpenedForm(at, name)
  <2>5. /\ o.details = at /\ o.models = {} /\ o.tested = NoVerdict /\ o.testing = FALSE
        /\ (o.loading <=> (o.armed # Nobody)) /\ (o.armed # Nobody => o.armed = at)
    <3>1. o.details = at /\ o.models = {} /\ o.tested = NoVerdict /\ o.testing = FALSE
      BY FormOpens
    <3>2. (o.loading <=> (o.armed # Nobody)) /\ (o.armed # Nobody => o.armed = at)
      BY FormLooksUp
    <3> QED BY <3>1, <3>2
  <2>6. form' = o
    BY <2>2
  <2> HIDE DEF o
  <2>7. /\ form'.models = {} /\ form'.tested = NoVerdict /\ form'.testing = FALSE
        /\ (form'.loading <=> (form'.armed # Nobody)) /\ (form'.armed # Nobody => form'.armed = form'.details)
    BY <2>5, <2>6
  <2> QED BY <2>3, <2>4, <2>7, FreshFormFollows
<1>5. ASSUME NEW p \in Providers, OpenDeleteConfirm(p) \/ OpenPullPanel(p) PROVE FormFollows'
  <2>1. UNCHANGED <<form, probes>> /\ ~view.formOpen /\ ~view'.formOpen
    BY <1>5 DEF OpenDeleteConfirm, OpenPullPanel, DialogOpen, View
  <2>2. view'.formOpen = view.formOpen
    BY <1>5 DEF OpenDeleteConfirm, OpenPullPanel, DialogOpen, View
  <2> QED BY <2>1, <2>2, FormFollowsStays
<1>6. CASE RefreshModels
  <2>1. form' = ListingArmed(form) /\ ~form.loading /\ probes' = Abort(probes, "list")
        /\ view'.formOpen /\ view.formOpen
    BY <1>6 DEF RefreshModels, CanType
  <2>2. \A i \in Probes : /\ ~Live(i, "list")' /\ Live(i, "test")' = Live(i, "test")
                          /\ probes'[i].details = probes[i].details
                          /\ probes'[i].model = probes[i].model
    BY <2>1, LiveAfterAbort
  <2>3. /\ form'.details = form.details /\ form'.model = form.model /\ form'.models = {}
        /\ form'.tested = form.tested /\ form'.testing = form.testing
        /\ (form'.loading <=> (form'.armed # Nobody)) /\ (form'.armed # Nobody => form'.armed = form'.details)
    BY <2>1, ArmedForm
  <2> QED BY <2>1, <2>2, <2>3 DEF FormFollows, AnyLive
<1>7. CASE OpenCreateForm
  <2>0. NewDetails \in Details /\ NewDetails # Nobody /\ Nobody \in Models \cup {Nobody}
    OBVIOUS
  <2>1. form' = OpenedForm(NewDetails, Nobody) /\ UNCHANGED probes /\ ~view.formOpen /\ view'.formOpen
    BY <1>7 DEF OpenCreateForm, DialogOpen, View
  <2>2. \A i \in Probes : ~Live(i, "list")' /\ ~Live(i, "test")'
    BY <2>1, ClosedWaitsForNothing DEF Live
  <2> DEFINE o == OpenedForm(NewDetails, Nobody)
  <2>3. /\ o.details = NewDetails /\ o.models = {} /\ o.tested = NoVerdict /\ o.testing = FALSE
        /\ (o.loading <=> (o.armed # Nobody)) /\ (o.armed # Nobody => o.armed = NewDetails)
    <3>1. o.details = NewDetails /\ o.models = {} /\ o.tested = NoVerdict /\ o.testing = FALSE
      BY <2>0, FormOpens
    <3>2. (o.loading <=> (o.armed # Nobody)) /\ (o.armed # Nobody => o.armed = NewDetails)
      BY <2>0, FormLooksUp
    <3> QED BY <3>1, <3>2
  <2>4. form' = o
    BY <2>0, <2>1
  <2> HIDE DEF o
  <2>5. /\ form'.models = {} /\ form'.tested = NoVerdict /\ form'.testing = FALSE
        /\ (form'.loading <=> (form'.armed # Nobody)) /\ (form'.armed # Nobody => form'.armed = form'.details)
    BY <2>3, <2>4
  <2> QED BY <2>0, <2>1, <2>2, <2>5, FreshFormFollows
<1>8. ASSUME UnmountForm, ~view'.formOpen PROVE FormFollows'
  <2>1. form' = ClosedForm /\ probes' = Abort(Abort(probes, "list"), "test")
    BY <1>8 DEF UnmountForm
  <2>2. \A i \in Probes : ~Live(i, "list")' /\ ~Live(i, "test")'
    BY <2>1, LiveAfterAbort
  <2>3. /\ form'.models = {} /\ form'.tested = NoVerdict /\ form'.testing = FALSE
        /\ form'.loading = FALSE /\ form'.armed = Nobody
    BY <2>1 DEF ClosedForm
  <2> QED BY <2>1, <2>2, <2>3, FreshFormFollows
<1>9. CASE CloseForm
  BY <1>8, <1>9 DEF CloseForm, View
<1>10. CASE SaveEnds
  <2>1. CASE asked["save"].pc = "accepted"
    BY <1>8, <1>10, <2>1 DEF SaveEnds, View
  <2>2. CASE asked["save"].pc # "accepted"
    BY <1>0, <1>10, <2>2 DEF SaveEnds
  <2> QED BY <2>1, <2>2
<1>11. ASSUME NEW i \in Probes, LoadModels(i) PROVE FormFollows'
  <2>1. form.armed # Nobody /\ form' = [form EXCEPT !.armed = Nobody] /\ UNCHANGED view
        /\ probes[i].pc = "none"
    BY <1>11 DEF LoadModels, FreeProbe
  <2>2. /\ form'.details = form.details /\ form'.model = form.model /\ form'.models = form.models
        /\ form'.tested = form.tested /\ form'.testing = form.testing
        /\ form'.listedFor = form.listedFor /\ form'.loading = form.loading /\ form'.armed = Nobody
    BY <2>1 DEF Form
  <2> DEFINE sent == [NoProbe EXCEPT !.pc = "sent", !.details = form.armed]
  <2>3. /\ sent.pc = "sent" /\ sent.kind = "list" /\ sent.details = form.armed /\ sent.aborted = FALSE
    BY DEF NoProbe
  <2>4. probes' = [probes EXCEPT ![i] = sent]
    BY <1>11 DEF LoadModels
  <2> HIDE DEF sent
  <2>5. probes'[i] = sent /\ \A j \in Probes \ {i} : probes'[j] = probes[j]
    BY <2>4
  <2>6. ~AnyLive("list") /\ form.armed = form.details /\ form.loading
    BY <2>1 DEF FormFollows
  <2>7. \A j \in Probes : /\ Live(j, "list")' <=> j = i
                          /\ Live(j, "test")' = Live(j, "test")
                          /\ Live(j, "test") => probes'[j] = probes[j]
    BY <2>1, <2>3, <2>5, <2>6 DEF Live, AnyLive
  <2>8. view.formOpen
    BY <2>1 DEF FormFollows, ClosedForm
  <2> QED BY <2>1, <2>2, <2>3, <2>5, <2>6, <2>7, <2>8 DEF FormFollows, AnyLive
<1>12. ASSUME NEW i \in Probes, ModelsLoaded(i) PROVE FormFollows'
  <2>1. probes[i].pc = "sent" /\ probes[i].kind = "list" /\ UNCHANGED view
        /\ probes'[i].pc = "none" /\ \A j \in Probes \ {i} : probes'[j] = probes[j]
    BY <1>12 DEF ModelsLoaded, NoProbe
  <2>2. \A j \in Probes : /\ Live(j, "list")' <=> Live(j, "list") /\ j # i
                          /\ Live(j, "test")' = Live(j, "test")
                          /\ Live(j, "list")' \/ Live(j, "test")' => probes'[j] = probes[j]
    BY <2>1 DEF Live
  <2>3. CASE probes[i].aborted
    <3>1. UNCHANGED form
      BY <1>12, <2>3 DEF ModelsLoaded
    <3>2. \A j \in Probes : Live(j, "list")' = Live(j, "list")
      BY <2>2, <2>3 DEF Live
    <3> QED BY <2>1, <2>2, <3>1, <3>2 DEF FormFollows, AnyLive
  <2>4. CASE ~probes[i].aborted
    <3>1. PICK ids \in {{}, modelsOf[probes[i].details]} :
            form' = [form EXCEPT !.models = ids, !.listedFor = probes[i].details, !.loading = FALSE]
      BY <1>12, <2>4 DEF ModelsLoaded
    <3>2. /\ form'.details = form.details /\ form'.model = form.model /\ form'.tested = form.tested
          /\ form'.testing = form.testing /\ form'.armed = form.armed
          /\ form'.listedFor = probes[i].details /\ form'.loading = FALSE
      BY <3>1 DEF Form
    <3>3. Live(i, "list")
      BY <2>1, <2>4 DEF Live
    <3>4. view.formOpen /\ probes[i].details = form.details /\ form.armed = Nobody
      BY <3>3 DEF FormFollows, AnyLive
    <3>5. \A j \in Probes : ~Live(j, "list")'
      BY <2>2, <3>3 DEF FormFollows
    <3> QED BY <2>1, <2>2, <3>2, <3>4, <3>5 DEF FormFollows, AnyLive
  <2> QED BY <2>3, <2>4
<1>13. ASSUME NEW i \in Probes, ModelTested(i) PROVE FormFollows'
  <2>1. probes[i].pc = "sent" /\ probes[i].kind = "test" /\ UNCHANGED view
        /\ probes'[i].pc = "none" /\ \A j \in Probes \ {i} : probes'[j] = probes[j]
    BY <1>13 DEF ModelTested, NoProbe
  <2>2. \A j \in Probes : /\ Live(j, "test")' <=> Live(j, "test") /\ j # i
                          /\ Live(j, "list")' = Live(j, "list")
                          /\ Live(j, "list")' \/ Live(j, "test")' => probes'[j] = probes[j]
    BY <2>1 DEF Live
  <2>3. CASE probes[i].aborted
    <3>1. UNCHANGED form
      BY <1>13, <2>3 DEF ModelTested
    <3>2. \A j \in Probes : Live(j, "test")' = Live(j, "test")
      BY <2>2, <2>3 DEF Live
    <3> QED BY <2>1, <2>2, <3>1, <3>2 DEF FormFollows, AnyLive
  <2>4. CASE ~probes[i].aborted
    <3>1. form' = [form EXCEPT !.testing = FALSE,
                               !.tested = [details |-> probes[i].details, model |-> probes[i].model]]
      BY <1>13, <2>4 DEF ModelTested
    <3>2. /\ form'.details = form.details /\ form'.model = form.model /\ form'.models = form.models
          /\ form'.tested = [details |-> probes[i].details, model |-> probes[i].model]
          /\ form'.testing = FALSE /\ form'.armed = form.armed
          /\ form'.listedFor = form.listedFor /\ form'.loading = form.loading
      BY <3>1 DEF Form
    <3>3. Live(i, "test")
      BY <2>1, <2>4 DEF Live
    <3>4. view.formOpen /\ probes[i].details = form.details /\ probes[i].model = form.model
      BY <3>3 DEF FormFollows
    <3>5. \A j \in Probes : ~Live(j, "test")'
      BY <2>2, <3>3 DEF FormFollows
    <3> QED BY <2>1, <2>2, <3>2, <3>4, <3>5 DEF FormFollows, AnyLive
  <2> QED BY <2>3, <2>4
<1>14. CASE UNCHANGED adminVars
  BY <1>0, <1>14 DEF adminVars
<1>15. ASSUME NEW p \in Providers, HandleSetDefaultProvider(p) \/ HandleTestProvider(p) \/ TestProviderEnds(p)
       PROVE  FormFollows'
  BY <1>0, <1>15 DEF HandleSetDefaultProvider, HandleTestProvider, TestProviderEnds, View
<1>16. CASE \/ RefreshProviders \/ FocusWindow \/ HandleSubmit \/ CancelDelete \/ ConfirmDelete
            \/ ClosePullPanel \/ HandlePullModel
  BY <1>0, <1>16 DEF RefreshProviders, FocusWindow, HandleSubmit, CancelDelete, ConfirmDelete, ClosePullPanel, HandlePullModel, View
<1>17. CASE DeleteEnds \/ PullEnds \/ DefaultEnds \/ ReceiveListing
  BY <1>0, <1>17 DEF DeleteEnds, PullEnds, DefaultEnds, ReceiveListing, View
<1>18. CASE ServerAnswers
  BY <1>0, <1>18 DEF ServerAnswers, Serve, LoseAnswer, ChangeByOther, AnswerListing, LoseListing
<1> QED BY <1>1, <1>2, <1>3, <1>4, <1>5, <1>6, <1>7, <1>9, <1>10, <1>11, <1>12, <1>13, <1>14, <1>15, <1>16, <1>17, <1>18 DEF AdminNext, AdminStep, AnswerStep

\* Whatever the administrator types while probes are under way, the form shows the models
\* and the verdict of the draft in it, and a spinner has something to wait for.
THEOREM FormIsOfItsDraftAlways == AdminSpec => []FormIsOfItsDraft
<1>1. AdminTypes /\ FormFollows => FormIsOfItsDraft
  BY DEF FormFollows, FormIsOfItsDraft, AnyLive, Live
<1>2. AdminSpec => [](AdminTypes /\ FormFollows)
  BY AdminTypesStart, AdminTypesStep, FormFollowsStart, FormFollowsStep, PTL DEF AdminSpec
<1> QED BY <1>1, <1>2, PTL
-----------------------------------------------------------------------------
(* A dialog stays open for the answer it waits for.                        *)

DialogsHeld ==
  /\ DialogWaitsForItsAnswer
  /\ \A k \in {"delete", "pull"} : Pending(k) => asked[k].provider # Nobody

LEMMA DialogsStayHeld ==
  ASSUME DialogsHeld, UNCHANGED <<view, asked, testing>>
  PROVE  DialogsHeld'
<1> QED BY DEF DialogsHeld, DialogWaitsForItsAnswer, Pending

\* Nothing is under way behind no dialog.
LEMMA NoDialogNothingPending ==
  ASSUME view \in View, DialogsHeld, ~DialogOpen
  PROVE  /\ ~view.formOpen /\ view.deleting = Nobody /\ view.pulling = Nobody /\ view.pullingId = Nobody
         /\ ~Pending("save") /\ ~Pending("delete") /\ ~Pending("pull")
<1> QED BY DEF DialogsHeld, DialogWaitsForItsAnswer, DialogOpen, View

LEMMA DialogsHeldStart == AdminInit => DialogsHeld
<1> QED BY DEF AdminInit, DialogsHeld, DialogWaitsForItsAnswer, ClosedView, Pending, Kinds, NoMutation

LEMMA DialogsHeldStep == AdminTypes /\ DialogsHeld /\ [AdminNext]_adminVars => DialogsHeld'
<1> SUFFICES ASSUME AdminTypes, DialogsHeld, [AdminNext]_adminVars PROVE DialogsHeld'
  OBVIOUS
<1>a. view \in View /\ asked \in [Kinds -> Mutation] /\ testing \in [Providers -> Nat]
      /\ "save" \in Kinds /\ "delete" \in Kinds /\ "pull" \in Kinds /\ "default" \in Kinds
  BY DEF AdminTypes, FormTyped, AskedTyped, TestsTyped, Kinds
<1> USE ProviderPageConstants
<1> USE <1>a
<1>0. CASE UNCHANGED <<view, asked, testing>>
  BY <1>0, DialogsStayHeld
<1>1. ASSUME NEW d \in Details, ChangeDetails(d) PROVE DialogsHeld'
  BY <1>0, <1>1 DEF ChangeDetails
<1>2. ASSUME NEW m \in Models, ChangeModel(m) PROVE DialogsHeld'
  BY <1>0, <1>2 DEF ChangeModel
<1>3. ASSUME NEW i \in Probes, TestModel(i) \/ LoadModels(i) \/ ModelsLoaded(i) \/ ModelTested(i)
      PROVE  DialogsHeld'
  BY <1>0, <1>3 DEF TestModel, LoadModels, ModelsLoaded, ModelTested
<1>4. CASE RefreshModels \/ RefreshProviders \/ FocusWindow \/ ReceiveListing
  BY <1>0, <1>4 DEF RefreshModels, RefreshProviders, FocusWindow, ReceiveListing
<1>5. CASE ChangeByOther \/ AnswerListing \/ LoseListing \/ UNCHANGED adminVars
  BY <1>0, <1>5 DEF ChangeByOther, AnswerListing, LoseListing, adminVars
<1>6. ASSUME NEW p \in Providers, OpenEditForm(p) \/ OpenDeleteConfirm(p) \/ OpenPullPanel(p)
      PROVE  DialogsHeld'
  <2>1. ~DialogOpen /\ UNCHANGED <<asked, testing>>
    BY <1>6 DEF OpenEditForm, OpenDeleteConfirm, OpenPullPanel
  <2>2. /\ view'.pullingId = view.pullingId /\ view'.testingId = view.testingId
        /\ ~(view'.formOpen /\ view'.deleting # Nobody) /\ ~(view'.formOpen /\ view'.pulling # Nobody)
        /\ view'.deleting = Nobody \/ view'.pulling = Nobody
    BY <1>6 DEF OpenEditForm, OpenDeleteConfirm, OpenPullPanel, View
  <2> QED BY <2>1, <2>2, NoDialogNothingPending DEF DialogsHeld, DialogWaitsForItsAnswer, Pending
<1>7. CASE OpenCreateForm
  <2>1. ~DialogOpen /\ UNCHANGED <<asked, testing>>
    BY <1>7 DEF OpenCreateForm
  <2>2. /\ view'.pullingId = view.pullingId /\ view'.testingId = view.testingId
        /\ view'.deleting = Nobody /\ view'.pulling = Nobody
    BY <1>7 DEF OpenCreateForm, View
  <2> QED BY <2>1, <2>2, NoDialogNothingPending DEF DialogsHeld, DialogWaitsForItsAnswer, Pending
<1>8. CASE CloseForm
  <2>1. ~Pending("save") /\ UNCHANGED <<asked, testing>>
    BY <1>8 DEF CloseForm
  <2>2. /\ view'.formOpen = FALSE /\ view'.deleting = view.deleting /\ view'.pulling = view.pulling
        /\ view'.pullingId = view.pullingId /\ view'.testingId = view.testingId
    BY <1>8 DEF CloseForm, View
  <2> QED BY <2>1, <2>2 DEF DialogsHeld, DialogWaitsForItsAnswer, Pending
<1>9. CASE CancelDelete
  <2>1. ~Pending("delete") /\ UNCHANGED <<asked, testing>>
    BY <1>9 DEF CancelDelete
  <2>2. /\ view'.formOpen = view.formOpen /\ view'.editing = view.editing /\ view'.deleting = Nobody
        /\ view'.pulling = view.pulling
        /\ view'.pullingId = view.pullingId /\ view'.testingId = view.testingId
    BY <1>9 DEF CancelDelete, View
  <2> QED BY <2>1, <2>2 DEF DialogsHeld, DialogWaitsForItsAnswer, Pending
<1>10. CASE ClosePullPanel
  <2>1. ~Pending("pull") /\ UNCHANGED <<asked, testing>>
    BY <1>10 DEF ClosePullPanel, DialogsHeld, DialogWaitsForItsAnswer
  <2>2. /\ view'.formOpen = view.formOpen /\ view'.editing = view.editing /\ view'.pulling = Nobody
        /\ view'.deleting = view.deleting
        /\ view'.pullingId = view.pullingId /\ view'.testingId = view.testingId
    BY <1>10 DEF ClosePullPanel, View
  <2> QED BY <2>1, <2>2 DEF DialogsHeld, DialogWaitsForItsAnswer, Pending
<1>11. CASE HandleSubmit
  <2>1. /\ asked'["save"].provider = view.editing /\ view.formOpen /\ UNCHANGED <<view, testing>>
        /\ \A l \in Kinds \ {"save"} : asked'[l] = asked[l]
    <3>1. form.details \in Details /\ form.model \in Models /\ view.editing \in Providers \cup {Nobody}
      BY <1>11 DEF HandleSubmit, CanType, AdminTypes, FormTyped, Form, View
    <3>2. Saved(form.details, form.model) \in Rows
      BY <3>1, RowsAre
    <3> QED BY <1>11, <3>1, <3>2, AskedIs DEF HandleSubmit, CanType
  <2> QED BY <2>1 DEF DialogsHeld, DialogWaitsForItsAnswer, Pending
<1>12. CASE ConfirmDelete
  <2>1. /\ asked'["delete"].provider = view.deleting /\ view.deleting # Nobody /\ UNCHANGED <<view, testing>>
        /\ \A l \in Kinds \ {"delete"} : asked'[l] = asked[l]
    <3>1. view.deleting \in Providers \cup {Nobody}
      BY DEF View
    <3> QED BY <1>12, <3>1, RowsAre, AskedIs DEF ConfirmDelete
  <2> QED BY <2>1 DEF DialogsHeld, DialogWaitsForItsAnswer, Pending
<1>13. CASE HandlePullModel
  <2>0. view.pulling \in Providers
    BY <1>13 DEF HandlePullModel, View
  <2>1. /\ asked'["pull"].pc = "sent" /\ asked'["pull"].provider = view.pulling /\ view.pulling # Nobody
        /\ UNCHANGED testing /\ \A l \in Kinds \ {"pull"} : asked'[l] = asked[l]
    BY <1>13, <2>0, RowsAre, AskedIs DEF HandlePullModel
  <2>2. /\ view'.formOpen = view.formOpen /\ view'.editing = view.editing /\ view'.pulling = view.pulling
        /\ view'.deleting = view.deleting
        /\ view'.pullingId = view.pulling /\ view'.testingId = view.testingId
    BY <1>13 DEF HandlePullModel, View
  <2> QED BY <2>1, <2>2 DEF DialogsHeld, DialogWaitsForItsAnswer, Pending
<1>14. ASSUME NEW p \in Providers, HandleSetDefaultProvider(p) PROVE DialogsHeld'
  <2>1. UNCHANGED <<view, testing>> /\ \A l \in Kinds \ {"default"} : asked'[l] = asked[l]
    BY <1>14, RowsAre, AskedIs DEF HandleSetDefaultProvider
  <2> QED BY <2>1 DEF DialogsHeld, DialogWaitsForItsAnswer, Pending
<1>15. ASSUME NEW p \in Providers, HandleTestProvider(p) PROVE DialogsHeld'
  <2>1. /\ view'.formOpen = view.formOpen /\ view'.editing = view.editing /\ view'.pulling = view.pulling
        /\ view'.deleting = view.deleting
        /\ view'.pullingId = view.pullingId /\ view'.testingId = p
    BY <1>15 DEF HandleTestProvider, View
  <2>2. UNCHANGED asked /\ testing'[p] > 0
    BY <1>15 DEF HandleTestProvider
  <2> QED BY <2>1, <2>2 DEF DialogsHeld, DialogWaitsForItsAnswer, Pending
<1>16. ASSUME NEW p \in Providers, TestProviderEnds(p) PROVE DialogsHeld'
  <2>1. /\ view'.formOpen = view.formOpen /\ view'.editing = view.editing /\ view'.pulling = view.pulling
        /\ view'.deleting = view.deleting
        /\ view'.pullingId = view.pullingId /\ view'.testingId = Nobody
    BY <1>16 DEF TestProviderEnds, View
  <2>2. UNCHANGED asked
    BY <1>16 DEF TestProviderEnds
  <2> QED BY <2>1, <2>2 DEF DialogsHeld, DialogWaitsForItsAnswer, Pending
<1>17. ASSUME NEW k \in Kinds, Serve(k) \/ LoseAnswer(k) PROVE DialogsHeld'
  <2>1. UNCHANGED <<view, testing>>
    BY <1>17 DEF Serve, LoseAnswer
  <2>2. PICK pc \in {"accepted", "refused"} : asked' = [asked EXCEPT ![k].pc = pc]
    BY <1>17 DEF Serve, LoseAnswer
  <2>3. asked[k].pc # "none"
    BY <1>17 DEF Serve, LoseAnswer
  <2>4. \A l \in Kinds : asked'[l].provider = asked[l].provider /\ (asked'[l].pc = "none" <=> asked[l].pc = "none")
    BY <2>2, <2>3, AskedAnswered
  <2> QED BY <2>1, <2>4 DEF DialogsHeld, DialogWaitsForItsAnswer, Pending
<1>18. CASE SaveEnds
  <2>1. asked'["save"].pc = "none" /\ UNCHANGED testing /\ \A l \in Kinds \ {"save"} : asked'[l] = asked[l]
    BY <1>18, AskedEnds DEF SaveEnds
  <2>2. UNCHANGED view \/ (/\ view'.formOpen = FALSE /\ view'.deleting = view.deleting
                           /\ view'.pulling = view.pulling
                           /\ view'.pullingId = view.pullingId /\ view'.testingId = view.testingId)
    <3>1. CASE asked["save"].pc = "accepted"
      <4>1. view' = [view EXCEPT !.formOpen = FALSE, !.editing = Nobody]
        BY <1>18, <3>1 DEF SaveEnds
      <4> QED BY <4>1 DEF View
    <3>2. CASE asked["save"].pc # "accepted"
      BY <1>18, <3>2 DEF SaveEnds
    <3> QED BY <3>1, <3>2
  <2> QED BY <2>1, <2>2 DEF DialogsHeld, DialogWaitsForItsAnswer, Pending
<1>19. CASE DeleteEnds
  <2>1. asked'["delete"].pc = "none" /\ UNCHANGED testing /\ \A l \in Kinds \ {"delete"} : asked'[l] = asked[l]
    BY <1>19, AskedEnds DEF DeleteEnds
  <2>2. UNCHANGED view \/ (/\ view'.formOpen = view.formOpen /\ view'.deleting = Nobody
                           /\ view'.editing = view.editing /\ view'.pulling = view.pulling
                           /\ view'.pullingId = view.pullingId /\ view'.testingId = view.testingId)
    BY <1>19 DEF DeleteEnds, View
  <2> QED BY <2>1, <2>2 DEF DialogsHeld, DialogWaitsForItsAnswer, Pending
<1>20. CASE PullEnds
  <2>1. asked'["pull"].pc = "none" /\ UNCHANGED testing /\ \A l \in Kinds \ {"pull"} : asked'[l] = asked[l]
    BY <1>20, AskedEnds DEF PullEnds
  <2>2. /\ view'.formOpen = view.formOpen /\ view'.deleting = view.deleting
        /\ view'.editing = view.editing /\ view'.pulling \in {Nobody, view.pulling}
        /\ view'.pullingId = Nobody /\ view'.testingId = view.testingId
    BY <1>20 DEF PullEnds, View
  <2> QED BY <2>1, <2>2 DEF DialogsHeld, DialogWaitsForItsAnswer, Pending
<1>21. CASE DefaultEnds
  <2>1. UNCHANGED <<view, testing>> /\ \A l \in Kinds \ {"default"} : asked'[l] = asked[l]
    BY <1>21, AskedEnds DEF DefaultEnds
  <2> QED BY <2>1 DEF DialogsHeld, DialogWaitsForItsAnswer, Pending
<1> QED BY <1>1, <1>2, <1>3, <1>4, <1>5, <1>6, <1>7, <1>8, <1>9, <1>10, <1>11, <1>12, <1>13, <1>14, <1>15, <1>16, <1>17, <1>18, <1>19, <1>20, <1>21 DEF AdminNext, AdminStep, AnswerStep, ServerAnswers

\* The answer of a save, a removal or a pull finds the dialog it was asked in, whatever
\* the administrator did meanwhile and however many providers there are.
THEOREM DialogsWaitForTheirAnswers == AdminSpec => []DialogWaitsForItsAnswer
<1>1. AdminSpec => [](AdminTypes /\ DialogsHeld)
  BY AdminTypesStart, AdminTypesStep, DialogsHeldStart, DialogsHeldStep, PTL DEF AdminSpec
<1> QED BY <1>1, PTL DEF DialogsHeld
-----------------------------------------------------------------------------
(* The list is what the API holds.                                         *)

NoneAccepted == \A k \in {"save", "delete", "default"} : asked[k].pc # "accepted"

\* An answer that is sure is of now, unless a change of the page has been accepted since,
\* which its handler will refetch after.
ListingFollows ==
  /\ NoneAccepted /\ listing.fetch.pc = "answered" /\ listing.fetch.sure => listing.fetch.answer = server
  /\ NoneAccepted /\ listing.loaded /\ listing.fetch.pc = "none" /\ ~listing.failed /\ ~listing.doubtful
       => listing.data = server
  /\ listing.fetch.pc = "answered" /\ ~listing.fetch.sure => listing.doubtful

LEMMA ListingFollowsStays ==
  ASSUME ListingFollows, UNCHANGED <<listing, server>>, NoneAccepted' => NoneAccepted
  PROVE  ListingFollows'
<1> QED BY DEF ListingFollows

\* Asked anew, the query claims nothing yet.
LEMMA AskedAgainFollows ==
  ASSUME listing \in Listing, listing' = ListingAgain
  PROVE  ListingFollows'
<1> QED BY ListedAgain DEF ListingFollows, ListingAsked

\* A pull changes nothing the list shows.
LEMMA PullsChangeNothing ==
  ASSUME server \in ApiState, NEW p, NEW row, NEW s \in Changes("pull", p, row)
  PROVE  s = server
<1>1. s \in [rows : {server.rows}, default : {server.default}]
  BY DEF Changes
<1> QED BY <1>1 DEF ApiState

LEMMA ListingFollowsStart == AdminInit => ListingFollows
<1> QED BY DEF AdminInit, ListingFollows, ListingAsked

LEMMA ListingFollowsStep == AdminTypes /\ ListingFollows /\ [AdminNext]_adminVars => ListingFollows'
<1> SUFFICES ASSUME AdminTypes, ListingFollows, [AdminNext]_adminVars PROVE ListingFollows'
  OBVIOUS
<1>a. view \in View /\ asked \in [Kinds -> Mutation] /\ listing \in Listing /\ server \in ApiState
      /\ "save" \in Kinds /\ "delete" \in Kinds /\ "pull" \in Kinds /\ "default" \in Kinds
  BY DEF AdminTypes, FormTyped, AskedTyped, ListingTyped, ServerTyped, Kinds
<1> USE <1>a
<1>0. CASE UNCHANGED <<asked, listing, server>>
  BY <1>0, ListingFollowsStays DEF NoneAccepted
<1>1. ASSUME NEW d \in Details, ChangeDetails(d) PROVE ListingFollows'
  BY <1>0, <1>1 DEF ChangeDetails
<1>2. ASSUME NEW m \in Models, ChangeModel(m) PROVE ListingFollows'
  BY <1>0, <1>2 DEF ChangeModel
<1>3. ASSUME NEW i \in Probes, TestModel(i) \/ LoadModels(i) \/ ModelsLoaded(i) \/ ModelTested(i)
      PROVE  ListingFollows'
  BY <1>0, <1>3 DEF TestModel, LoadModels, ModelsLoaded, ModelTested
<1>4. ASSUME NEW p \in Providers,
             \/ OpenEditForm(p) \/ OpenDeleteConfirm(p) \/ OpenPullPanel(p)
             \/ HandleTestProvider(p) \/ TestProviderEnds(p)
      PROVE  ListingFollows'
  BY <1>0, <1>4 DEF OpenEditForm, OpenDeleteConfirm, OpenPullPanel, HandleTestProvider, TestProviderEnds
<1>5. CASE RefreshModels \/ OpenCreateForm \/ CloseForm \/ CancelDelete \/ ClosePullPanel \/ UNCHANGED adminVars
  BY <1>0, <1>5 DEF RefreshModels, OpenCreateForm, CloseForm, CancelDelete, ClosePullPanel, adminVars
<1>6. ASSUME NEW k \in Kinds, NEW p \in Providers \cup {Nobody}, NEW row \in Rows, Ask(k, p, row),
             UNCHANGED <<listing, server>>
      PROVE  k = "pull" \/ ~Pending(k) => ListingFollows'
  <2>1. asked'[k].pc = "sent" /\ \A l \in Kinds \ {k} : asked'[l] = asked[l]
    BY <1>6, AskedIs
  <2>2. k = "pull" \/ ~Pending(k) => (NoneAccepted' => NoneAccepted)
    BY <2>1 DEF NoneAccepted, Pending
  <2> QED BY <1>6, <2>2, ListingFollowsStays
<1>7. CASE HandleSubmit
  <2>1. form.details \in Details /\ form.model \in Models /\ view.editing \in Providers \cup {Nobody}
    BY <1>7, ProviderPageConstants DEF HandleSubmit, CanType, AdminTypes, FormTyped, Form, View
  <2>2. Saved(form.details, form.model) \in Rows
    BY <2>1, RowsAre
  <2> QED BY <1>6, <1>7, <2>1, <2>2 DEF HandleSubmit, CanType
<1>8. CASE ConfirmDelete
  <2>1. view.deleting \in Providers \cup {Nobody}
    BY DEF View
  <2> QED BY <1>6, <1>8, <2>1, RowsAre DEF ConfirmDelete
<1>9. CASE HandlePullModel
  <2>1. view.pulling \in Providers \cup {Nobody}
    BY DEF View
  <2> QED BY <1>6, <1>9, <2>1, RowsAre DEF HandlePullModel
<1>10. ASSUME NEW p \in Providers, HandleSetDefaultProvider(p) PROVE ListingFollows'
  BY <1>6, <1>10, RowsAre DEF HandleSetDefaultProvider
<1>11. CASE RefreshProviders
  BY <1>11, AskedAgainFollows DEF RefreshProviders
<1>12. CASE FocusWindow
  <2>1. listing' = listing \/ (listing'.fetch = ListingAsked /\ listing'.doubtful = listing.doubtful)
    BY <1>12, ListedAgain DEF FocusWindow
  <2> QED BY <1>12, <2>1 DEF FocusWindow, ListingFollows, NoneAccepted, ListingAsked
<1>13. ASSUME NEW k \in Kinds, Serve(k) PROVE ListingFollows'
  <2>1. PICK pc \in {"accepted", "refused"} :
          /\ asked' = [asked EXCEPT ![k].pc = pc]
          /\ pc = "accepted" => server' \in Changes(k, asked[k].provider, asked[k].row)
          /\ pc = "refused" => UNCHANGED server
    BY <1>13 DEF Serve
  <2>2. asked'[k].pc = pc /\ asked[k].pc = "sent" /\ UNCHANGED listing
        /\ \A l \in Kinds \ {k} : asked'[l] = asked[l]
    BY <1>13, <2>1, AskedAnswered DEF Serve
  <2>3. CASE k = "pull" \/ pc = "refused"
    <3>1. UNCHANGED server
      BY <2>1, <2>3, PullsChangeNothing
    <3>2. NoneAccepted' => NoneAccepted
      BY <2>2, <2>3 DEF NoneAccepted
    <3> QED BY <2>2, <3>1, <3>2, ListingFollowsStays
  <2>4. CASE k # "pull" /\ pc = "accepted"
    <3>1. ~NoneAccepted'
      BY <2>2, <2>4 DEF NoneAccepted, Kinds
    <3> QED BY <2>2, <3>1 DEF ListingFollows
  <2> QED BY <2>1, <2>3, <2>4
<1>14. ASSUME listing' = [listing EXCEPT !.doubtful = TRUE, !.fetch.sure = FALSE] PROVE ListingFollows'
  <2>1. listing'.doubtful = TRUE /\ listing'.fetch.sure = FALSE
    BY <1>14 DEF Listing, Fetch
  <2> QED BY <2>1 DEF ListingFollows
<1>15. ASSUME NEW k \in Kinds, LoseAnswer(k) PROVE ListingFollows'
  BY <1>14, <1>15 DEF LoseAnswer
<1>16. CASE ChangeByOther
  BY <1>14, <1>16 DEF ChangeByOther
<1>17. CASE AnswerListing
  <2>1. /\ listing'.fetch.pc = "answered" /\ listing'.fetch.answer = server /\ listing'.fetch.sure = TRUE
        /\ UNCHANGED server
    BY <1>17 DEF AnswerListing, Listing, Fetch
  <2> QED BY <2>1 DEF ListingFollows
<1>18. CASE LoseListing
  <2>1. listing'.fetch.pc = "refused"
    BY <1>18 DEF LoseListing, Listing, Fetch
  <2> QED BY <2>1 DEF ListingFollows
<1>19. CASE ReceiveListing
  <2>1. UNCHANGED <<asked, server>>
    BY <1>19 DEF ReceiveListing
  <2>2. ASSUME listing.fetch.pc = "answered",
               listing' = [fetch |-> ListingIdle, data |-> listing.fetch.answer, loaded |-> TRUE,
                           failed |-> FALSE, doubtful |-> listing.doubtful /\ ~listing.fetch.sure]
        PROVE  ListingFollows'
    <3>1. /\ listing'.fetch.pc = "none" /\ listing'.data = listing.fetch.answer
          /\ listing'.doubtful <=> listing.doubtful /\ ~listing.fetch.sure
      BY <2>2 DEF ListingIdle, ListingAsked
    <3> QED BY <2>1, <2>2, <3>1 DEF ListingFollows, NoneAccepted
  <2>3. ASSUME listing' = [listing EXCEPT !.fetch = [ListingAsked EXCEPT !.retried = TRUE]]
        PROVE  ListingFollows'
    <3>1. listing'.fetch.pc = "asked"
      BY <2>3 DEF ListingAsked, Listing
    <3> QED BY <3>1 DEF ListingFollows
  <2>4. ASSUME listing' = [listing EXCEPT !.fetch = ListingIdle, !.failed = TRUE]
        PROVE  ListingFollows'
    <3>1. listing'.fetch.pc = "none" /\ listing'.failed = TRUE
      BY <2>4 DEF ListingIdle, ListingAsked, Listing
    <3> QED BY <3>1 DEF ListingFollows
  <2> QED BY <1>19, <2>2, <2>3, <2>4 DEF ReceiveListing
<1>20. ASSUME NEW k \in Kinds, asked' = [asked EXCEPT ![k] = NoMutation], asked[k].pc # "accepted",
              UNCHANGED <<listing, server>>
       PROVE  ListingFollows'
  <2>1. NoneAccepted' => NoneAccepted
    BY <1>20, AskedEnds DEF NoneAccepted
  <2> QED BY <1>20, <2>1, ListingFollowsStays
<1>21. CASE SaveEnds
  <2>1. CASE asked["save"].pc = "accepted"
    BY <1>21, <2>1, AskedAgainFollows DEF SaveEnds
  <2>2. CASE asked["save"].pc # "accepted"
    BY <1>20, <1>21, <2>2 DEF SaveEnds
  <2> QED BY <2>1, <2>2
<1>22. CASE DeleteEnds
  <2>1. CASE asked["delete"].pc = "accepted"
    BY <1>22, <2>1, AskedAgainFollows DEF DeleteEnds
  <2>2. CASE asked["delete"].pc # "accepted"
    BY <1>20, <1>22, <2>2 DEF DeleteEnds
  <2> QED BY <2>1, <2>2
<1>23. CASE DefaultEnds
  <2>1. CASE asked["default"].pc = "accepted"
    BY <1>23, <2>1, AskedAgainFollows DEF DefaultEnds
  <2>2. CASE asked["default"].pc # "accepted"
    BY <1>20, <1>23, <2>2 DEF DefaultEnds
  <2> QED BY <2>1, <2>2
<1>24. CASE PullEnds
  <2>1. UNCHANGED <<listing, server>> /\ \A l \in Kinds \ {"pull"} : asked'[l] = asked[l]
    BY <1>24, AskedEnds DEF PullEnds
  <2>2. NoneAccepted' => NoneAccepted
    BY <2>1 DEF NoneAccepted
  <2> QED BY <2>1, <2>2, ListingFollowsStays
<1> QED BY <1>1, <1>2, <1>3, <1>4, <1>5, <1>7, <1>8, <1>9, <1>10, <1>11, <1>12, <1>13, <1>15, <1>16, <1>17, <1>18, <1>19, <1>21, <1>22, <1>23, <1>24 DEF AdminNext, AdminStep, AnswerStep, ServerAnswers

\* However the page's changes, its refetches and their answers are ordered, the list at
\* rest is what the API holds, but for the losses and the other administrators' changes
\* the page is not told of.
THEOREM SettledProvidersAreStoredAlways == AdminSpec => []SettledProvidersAreStored
<1>1. ListingFollows => SettledProvidersAreStored
  BY DEF ListingFollows, SettledProvidersAreStored, NoneAccepted, Kinds
<1>2. AdminSpec => [](AdminTypes /\ ListingFollows)
  BY AdminTypesStart, AdminTypesStep, ListingFollowsStart, ListingFollowsStep, PTL DEF AdminSpec
<1> QED BY <1>1, <1>2, PTL
-----------------------------------------------------------------------------
(* Types.                                                                  *)

StoredMessage == [kind : {"user", "answer"}, n : Prompted]
TemporaryMessage == [kind : {"temporary"}, n : Prompted, id : Nat \ {0}, pieces : Seq(Nat),
                     incomplete : BOOLEAN]
Message == StoredMessage \cup TemporaryMessage
Frames == {"user_message", "delta", "assistant_message", "done", "error"}

PageState == [workspace : PageWorkspaces, selected : Sessions \cup {None}, shown : Prompts \cup {None},
              drafts : [Sessions -> Prompts \cup {None}], streaming : BOOLEAN, streamingId : Nat,
              hasOutput : BOOLEAN, ids : Nat]
CallState == [open : BOOLEAN, n : Prompted \cup {0}, session : Sessions \cup {None},
              prompt : Prompts \cup {None}, aborted : BOOLEAN, taken : Nat]
ChangeState == [pc : {"none", "asked", "done"}, session : Sessions \cup {None},
                selected : Sessions \cup {None}]
FetchState == [pc : {"none", "asked", "answered", "refused"}, workspace : PageWorkspaces \cup {0},
               list : Seq(StoredMessage), retried : BOOLEAN, sure : BOOLEAN]
RequestState == [pc : {"none", "asked", "started", "over"}, session : Sessions \cup {None},
                 workspace : PageWorkspaces \cup {0}, pieces : 0..MaxDeltas, frames : Seq(Frames),
                 left : BOOLEAN]
Seen == [moved : SUBSET Prompted, wiped : SUBSET Sessions, doubtful : SUBSET Sessions, stray : BOOLEAN]

PageTyped ==
  page \in PageState /\ page.streaming = call.open /\ page.streamingId <= page.ids
CallTyped ==
  call \in CallState /\ IF call.open THEN call.n # 0 /\ call.session # None ELSE call = NoCall
ChangesTyped ==
  /\ creating \in ChangeState /\ (creating.pc # "none" => creating.session # None)
  /\ deleting \in ChangeState /\ (deleting.pc # "none" => deleting.session # None)
FetchesTyped == fetches \in [Sessions -> FetchState]
RequestsTyped == serving \in [Prompted -> RequestState]
StoredTyped == stored \in [Sessions -> Seq(StoredMessage) \cup {Unborn, Deleted}]
CachedTyped == cached \in [Sessions -> Seq(Message) \cup {NoData}]
SeenTyped == seen \in Seen
PageCounted == pageActs \in 0..MaxPageActs /\ pageFaults \in 0..MaxPageFaults

PageTypes ==
  /\ PageTyped /\ CallTyped /\ ChangesTyped /\ FetchesTyped /\ RequestsTyped /\ StoredTyped
  /\ CachedTyped /\ SeenTyped /\ PageCounted

-----------------------------------------------------------------------------
(* The requests: one that is heard is the call's, and what it has sent.    *)

\* A prompt is submitted after those before it, to a session, and is heard by one call.
Submitting(n) ==
  /\ serving[n].pc = "none" => serving[n] = NoRequest
  /\ serving[n].pc # "none" => serving[n].session # None /\ \A m \in 1..n : serving[m].pc # "none"
  /\ serving[n].pc # "none" /\ ~serving[n].left => call.open /\ call.n = n

\* The frames of an answer come in their order, and the last one is the last.
Ordered(f) ==
  \A k \in DOMAIN f :
    /\ f[k] = "user_message" => k = 1
    /\ f[k] = "done" /\ k > 1 => f[k - 1] = "assistant_message"
    /\ f[k] = "assistant_message" => \A l \in DOMAIN f : l > k => f[l] \in {"done", "error"}

InOrder(q) ==
  /\ Ordered(q.frames)
  /\ q.pc = "asked" /\ ~q.left => q.frames = <<>>
  /\ \A k \in DOMAIN q.frames :
       /\ q.pc = "asked" => q.frames[k] = "error"
       /\ q.pc = "started" /\ ~q.left => q.frames[k] \in {"user_message", "delta"}
       /\ q.pc # "over" => q.frames[k] \in {"user_message", "delta", "error"}

\* How many pieces the call has taken, by those that are still to come.
Counting(q, taken) ==
  /\ taken <= q.pieces
  /\ \A k \in DOMAIN q.frames :
       q.frames[k] = "delta" => taken + k <= q.pieces + (IF q.frames[1] = "user_message" THEN 1 ELSE 0)

Heard ==
  call.open =>
    /\ serving[call.n].pc # "none" /\ serving[call.n].session = call.session
    /\ Counting(serving[call.n], call.taken)
    /\ serving[call.n].frames # <<>> /\ serving[call.n].frames[1] = "done" => page.streamingId = 0

Serving == Heard /\ \A n \in Prompted : Submitting(n) /\ InOrder(serving[n])

-----------------------------------------------------------------------------
(* Sessions are born once.                                                 *)

Born(s) == stored[s] # Unborn

Births ==
  /\ creating.pc = "asked" => ~Born(creating.session)
  /\ creating.pc = "done" => Born(creating.session)
  /\ deleting.pc # "none" => Born(deleting.session)
  /\ page.selected # None => Born(page.selected)
  /\ call.open => Born(call.session)
  /\ \A s \in Sessions : cached[s] # NoData \/ fetches[s].pc = "answered" => Born(s)

-----------------------------------------------------------------------------
(* Lists.                                                                  *)

\* What the database has of a session, or had when it was fetched.
OfStored(s, list, requests) ==
  /\ \A i \in DOMAIN list :
       /\ requests[list[i].n].session = s
       /\ requests[list[i].n].pc # "asked"
       /\ list[i].kind = "answer" => requests[list[i].n].pc = "over"
  /\ \A i, j \in DOMAIN list : i # j => list[i] # list[j]

StoredAreTheirOwn ==
  \A s \in Sessions : /\ Exists(s) => OfStored(s, stored[s], serving)
                      /\ fetches[s].pc = "answered" => OfStored(s, fetches[s].list, serving)

\* Two messages of a list are not the same one.
Apart(m, k) ==
  m.kind = k.kind => IF m.kind = "temporary" THEN m.id # k.id ELSE m.n # k.n

\* An answer and what was shown of it are together only while it comes in.
Superseded(m, k, pending) ==
  m.kind = "answer" /\ k.kind = "temporary" /\ k.n = m.n => k.incomplete \/ m.n \in pending

OwnList(list, s, requests, n, id, pending) ==
  /\ \A i \in DOMAIN list :
       /\ requests[list[i].n].session = s
       /\ list[i].kind = "temporary" /\ list[i].n = n => list[i].id = id
  /\ \A i, j \in DOMAIN list :
       Superseded(list[i], list[j], pending) /\ (i # j => Apart(list[i], list[j]))

\* The prompt whose answer the page shows in the message of streamingId, and those whose
\* answer may be there twice.
Awaited == IF call.open /\ call.n \notin seen.moved THEN call.n ELSE 0
Unreconciled == seen.moved \cup (IF call.open THEN {call.n} ELSE {})

Lists ==
  \A s \in Sessions :
    cached[s] # NoData => OwnList(cached[s], s, serving, Awaited, page.streamingId, Unreconciled)

-----------------------------------------------------------------------------
(* The composer.                                                           *)

Composed ==
  page.selected # None =>
    /\ seen.stray \/ (Exists(page.selected) /\ workspaceOf[page.selected] = page.workspace)
    /\ page.shown = page.drafts[page.selected] \/ (page.selected \in seen.wiped /\ page.shown = None)

Drafted == call.open => page.drafts[call.session] \in {call.prompt, None}

-----------------------------------------------------------------------------
(* Caches at rest.                                                         *)

Settling(s) ==
  /\ fetches[s].pc = "answered" /\ ~fetches[s].sure => s \in seen.doubtful
  /\ ~(call.open /\ call.session = s) /\ Exists(s) =>
       /\ fetches[s].pc = "answered" /\ fetches[s].sure => fetches[s].list = stored[s]
       /\ s \notin seen.doubtful /\ cached[s] # NoData /\ fetches[s].pc = "none" => cached[s] = stored[s]

Settled == \A s \in Sessions : Settling(s)

-----------------------------------------------------------------------------
(* The records of the page, and what its helpers make of them.             *)

LEMMA BlankChat ==
  /\ NoCall \in CallState /\ NoChange \in ChangeState /\ NoFetch \in FetchState
  /\ NoRequest \in RequestState /\ NothingSeen \in Seen
  /\ \A w \in PageWorkspaces : OpenedPage(w) \in PageState
<1> USE PageConstants
<1>1. NoCall \in CallState /\ NoChange \in ChangeState
  BY DEF NoCall, NoChange, CallState, ChangeState
<1>2. <<>> \in Seq(StoredMessage) /\ <<>> \in Seq(Frames)
  OBVIOUS
<1>3. NoFetch \in FetchState
  BY <1>2 DEF NoFetch, FetchState
<1>4. NoRequest \in RequestState
  BY <1>2 DEF NoRequest, RequestState
<1>5. NothingSeen \in Seen
  BY DEF NothingSeen, Seen
<1>6. \A w \in PageWorkspaces : OpenedPage(w) \in PageState
  BY DEF OpenedPage, PageState
<1> QED BY <1>1, <1>3, <1>4, <1>5, <1>6

LEMMA OneElement ==
  ASSUME NEW S, NEW q \in Seq(S), Len(q) = 1
  PROVE  q[1] \in S
<1> QED OBVIOUS

\* What stands for no list is none.
LEMMA NoLists ==
  /\ NoData \notin Seq(Message) /\ Unborn \notin Seq(StoredMessage) /\ Deleted \notin Seq(StoredMessage)
  /\ Unborn # Deleted /\ <<>> \notin {Unborn, Deleted, NoData}
<1>1. /\ Len(NoData) = 1 /\ NoData[1].kind = "no data" /\ Len(Unborn) = 1 /\ Unborn[1].kind = "unborn"
      /\ Len(Deleted) = 1 /\ Deleted[1].kind = "deleted"
  BY DEF NoData, Unborn, Deleted
<1>2. \A m \in Message : m.kind \in {"user", "answer", "temporary"}
  BY DEF Message, StoredMessage, TemporaryMessage
<1>3. \A m \in StoredMessage : m.kind \in {"user", "answer"}
  BY DEF StoredMessage
<1>4. NoData \notin Seq(Message)
  <2> SUFFICES ASSUME NoData \in Seq(Message) PROVE FALSE
    OBVIOUS
  <2>1. NoData[1] \in Message
    BY <1>1, OneElement
  <2> QED BY <1>1, <1>2, <2>1
<1>5. Unborn \notin Seq(StoredMessage)
  <2> SUFFICES ASSUME Unborn \in Seq(StoredMessage) PROVE FALSE
    OBVIOUS
  <2>1. Unborn[1] \in StoredMessage
    BY <1>1, OneElement
  <2> QED BY <1>1, <1>3, <2>1
<1>6. Deleted \notin Seq(StoredMessage)
  <2> SUFFICES ASSUME Deleted \in Seq(StoredMessage) PROVE FALSE
    OBVIOUS
  <2>1. Deleted[1] \in StoredMessage
    BY <1>1, OneElement
  <2> QED BY <1>1, <1>3, <2>1
<1>7. Unborn # Deleted
  BY <1>1
<1>8. <<>> # Unborn /\ <<>> # Deleted /\ <<>> # NoData
  BY DEF Unborn, Deleted, NoData
<1> QED BY <1>4, <1>5, <1>6, <1>7, <1>8

LEMMA MessagesAre ==
  ASSUME NEW n \in Prompted
  PROVE  /\ User(n) \in StoredMessage /\ User(n).kind = "user" /\ User(n).n = n
         /\ Reply(n) \in StoredMessage /\ Reply(n).kind = "answer" /\ Reply(n).n = n
         /\ StoredMessage \subseteq Message
<1> QED BY DEF User, Reply, StoredMessage, Message

\* A temporary message, and what becomes of it.
LEMMA TemporariesAre ==
  ASSUME NEW n \in Prompted, NEW id \in Nat \ {0}, NEW piece \in Nat
  PROVE  LET m == Temporary(id, n, <<piece>>) IN
         m \in TemporaryMessage /\ m.kind = "temporary" /\ m.n = n /\ m.id = id /\ m.incomplete = FALSE
<1>1. <<piece>> \in Seq(Nat)
  OBVIOUS
<1> QED BY <1>1 DEF Temporary, TemporaryMessage

LEMMA PiecesAppended ==
  ASSUME NEW m \in TemporaryMessage, NEW piece \in Nat
  PROVE  LET k == [m EXCEPT !.pieces = Append(@, piece)] IN
         k \in TemporaryMessage /\ k.kind = m.kind /\ k.n = m.n /\ k.id = m.id /\ k.incomplete = m.incomplete
<1>1. Append(m.pieces, piece) \in Seq(Nat)
  BY AppendProperties DEF TemporaryMessage
<1> QED BY <1>1 DEF TemporaryMessage

LEMMA MarkedIncomplete ==
  ASSUME NEW m \in TemporaryMessage
  PROVE  LET k == [m EXCEPT !.incomplete = TRUE] IN
         k \in TemporaryMessage /\ k.kind = m.kind /\ k.n = m.n /\ k.id = m.id /\ k.incomplete = TRUE
<1> QED BY DEF TemporaryMessage

LEMMA TemporaryOnes ==
  ASSUME NEW m \in Message
  PROVE  /\ m.kind = "temporary" => m \in TemporaryMessage /\ m.id \in Nat \ {0} /\ m.incomplete \in BOOLEAN
         /\ m.kind # "temporary" => m \in StoredMessage
         /\ m.kind \in {"user", "answer", "temporary"} /\ m.n \in Prompted
<1> QED BY DEF Message, StoredMessage, TemporaryMessage

\* The frames of a request: what is appended, and what is left after the first.
LEMMA FramesSent ==
  ASSUME NEW f \in Seq(Frames), NEW a \in Frames, NEW b \in Frames
  PROVE  /\ Append(f, a) \in Seq(Frames) /\ f \o <<a>> \in Seq(Frames) /\ f \o <<a, b>> \in Seq(Frames)
         /\ f # <<>> => Tail(f) \in Seq(Frames)
<1>1. <<a>> \in Seq(Frames) /\ <<a, b>> \in Seq(Frames)
  OBVIOUS
<1>2. f \o <<a>> \in Seq(Frames) /\ f \o <<a, b>> \in Seq(Frames)
  BY <1>1, ConcatProperties
<1> QED BY <1>2, AppendProperties, HeadTailProperties

\* Prompts are submitted one after the other, so the next number is one that is free.
LEMMA NextPrompt ==
  ASSUME PageTypes, Serving, Submitted # Prompted
  PROVE  /\ Cardinality(Submitted) \in Nat /\ Cardinality(Submitted) + 1 \in Prompted
         /\ serving[Cardinality(Submitted) + 1].pc = "none"
         /\ \A m \in 1..Cardinality(Submitted) : serving[m].pc # "none"
<1>1. MaxPrompts \in Nat /\ Submitted \in SUBSET Prompted /\ Prompted \in SUBSET Nat
  BY PageConstants DEF Submitted, Prompted
<1>2. PICK u \in Prompted \ Submitted : \A y \in Prompted \ Submitted : u <= y
  BY <1>1, HasSmallest
<1>3. u \in 1..MaxPrompts /\ u \in Nat
  BY <1>2 DEF Prompted
<1>4. serving[u].pc = "none"
  BY <1>2 DEF Submitted
<1>5. \A m \in Prompted : m < u => m \in Submitted
  BY <1>1, <1>2, <1>3
<1>6. \A m \in Submitted : m < u
  <2> SUFFICES ASSUME NEW m \in Submitted, ~(m < u) PROVE FALSE
    OBVIOUS
  <2>1. m \in Prompted /\ serving[m].pc # "none" /\ u \in 1..m
    BY <1>1, <1>3 DEF Submitted, Prompted
  <2>2. serving[u].pc # "none"
    BY <2>1 DEF Serving, Submitting
  <2> QED BY <1>4, <2>2
<1>7. Submitted = 1..(u - 1)
  <2>1. \A m \in 1..(u - 1) : m \in Prompted /\ m < u
    BY <1>1, <1>3 DEF Prompted
  <2>2. \A m \in Submitted : m \in Nat /\ 1 <= m /\ m <= u - 1
    BY <1>1, <1>3, <1>6 DEF Prompted
  <2>3. \A m \in Submitted : m \in 1..(u - 1)
    BY <1>3, <2>2
  <2>4. \A m \in 1..(u - 1) : m \in Submitted
    BY <1>5, <2>1
  <2> QED BY <2>3, <2>4
<1>8. Cardinality(Submitted) = u - 1
  <2>1. 1 \in Int /\ u - 1 \in Int /\ ~(1 > u - 1 /\ 1 # u)
    BY <1>3
  <2>2. Cardinality(1..(u - 1)) = IF 1 > u - 1 THEN 0 ELSE (u - 1) - 1 + 1
    BY <2>1, FS_Interval
  <2> QED BY <1>3, <1>7, <2>2
<1>9. Cardinality(Submitted) + 1 = u
  BY <1>3, <1>8
<1>10. \A m \in 1..Cardinality(Submitted) : m \in Submitted
  BY <1>7, <1>8
<1>11. Cardinality(Submitted) \in Nat
  BY <1>3, <1>8
<1> QED BY <1>2, <1>4, <1>9, <1>10, <1>11 DEF Submitted

-----------------------------------------------------------------------------
(* Lists of messages, and what the events of a reply make of them.         *)

\* A message that is still the same one, whatever pieces it has taken.
Same(m, k) ==
  /\ m.kind = k.kind /\ m.n = k.n
  /\ k.kind = "temporary" => m.id = k.id /\ (k.incomplete => m.incomplete)

LEMMA ListsOfMessages ==
  ASSUME NEW list \in Seq(Message)
  PROVE  /\ DOMAIN list = 1..Len(list) /\ Len(list) \in Nat
         /\ \A i \in DOMAIN list : list[i] \in Message
<1> QED OBVIOUS

LEMMA MappedList ==
  ASSUME NEW list \in Seq(Message), NEW new, DOMAIN new = DOMAIN list,
         new = [i \in DOMAIN list |-> new[i]],
         \A i \in DOMAIN list : new[i] \in Message
  PROVE  new \in Seq(Message)
<1>1. new = [i \in 1..Len(list) |-> new[i]] /\ Len(list) \in Nat
  BY ListsOfMessages
<1>2. new \in [1..Len(list) -> Message]
  BY <1>1, ListsOfMessages
<1> QED BY <1>1, <1>2, SeqDef

LEMMA PieceAdded ==
  ASSUME NEW list \in Seq(Message), NEW id \in Nat, NEW piece \in Nat
  PROVE  LET new == Replaced(list, id, LAMBDA m : [m EXCEPT !.pieces = Append(@, piece)]) IN
         /\ new \in Seq(Message) /\ DOMAIN new = DOMAIN list
         /\ \A i \in DOMAIN list : Same(new[i], list[i])
<1> DEFINE new == Replaced(list, id, LAMBDA m : [m EXCEPT !.pieces = Append(@, piece)])
<1>1. new = [i \in DOMAIN list |-> IF IsTemporary(list[i], id)
                                   THEN [list[i] EXCEPT !.pieces = Append(@, piece)] ELSE list[i]]
  BY DEF Replaced
<1> HIDE DEF new
<1>2. ASSUME NEW i \in DOMAIN list PROVE new[i] \in Message /\ Same(new[i], list[i])
  <2>1. list[i] \in Message
    BY ListsOfMessages
  <2>2. CASE IsTemporary(list[i], id)
    <3>1. list[i] \in TemporaryMessage
      BY <2>1, <2>2, TemporaryOnes DEF IsTemporary
    <3>2. new[i] = [list[i] EXCEPT !.pieces = Append(@, piece)]
      BY <1>1, <2>2
    <3> QED BY <3>1, <3>2, PiecesAppended DEF Same, Message
  <2>3. CASE ~IsTemporary(list[i], id)
    BY <1>1, <2>1, <2>3 DEF Same
  <2> QED BY <2>2, <2>3
<1>3. new \in Seq(Message) /\ DOMAIN new = DOMAIN list
  BY <1>1, <1>2, MappedList
<1> QED BY <1>2, <1>3 DEF new

LEMMA TemporaryMarked ==
  ASSUME NEW list \in Seq(Message), NEW id \in Nat
  PROVE  LET new == Replaced(list, id, LAMBDA m : [m EXCEPT !.incomplete = TRUE]) IN
         /\ new \in Seq(Message) /\ DOMAIN new = DOMAIN list
         /\ \A i \in DOMAIN list : Same(new[i], list[i])
         /\ \A i \in DOMAIN list : IsTemporary(list[i], id) => new[i].incomplete
<1> DEFINE new == Replaced(list, id, LAMBDA m : [m EXCEPT !.incomplete = TRUE])
<1>1. new = [i \in DOMAIN list |-> IF IsTemporary(list[i], id)
                                   THEN [list[i] EXCEPT !.incomplete = TRUE] ELSE list[i]]
  BY DEF Replaced
<1> HIDE DEF new
<1>2. ASSUME NEW i \in DOMAIN list
      PROVE  new[i] \in Message /\ Same(new[i], list[i]) /\ (IsTemporary(list[i], id) => new[i].incomplete)
  <2>1. list[i] \in Message
    BY ListsOfMessages
  <2>2. CASE IsTemporary(list[i], id)
    <3>1. list[i] \in TemporaryMessage
      BY <2>1, <2>2, TemporaryOnes DEF IsTemporary
    <3>2. new[i] = [list[i] EXCEPT !.incomplete = TRUE]
      BY <1>1, <2>2
    <3> QED BY <3>1, <3>2, MarkedIncomplete DEF Same, Message
  <2>3. CASE ~IsTemporary(list[i], id)
    BY <1>1, <2>1, <2>3 DEF Same
  <2> QED BY <2>2, <2>3
<1>3. new \in Seq(Message) /\ DOMAIN new = DOMAIN list
  BY <1>1, <1>2, MappedList
<1> QED BY <1>2, <1>3 DEF new

LEMMA TemporaryAnswered ==
  ASSUME NEW list \in Seq(Message), NEW id \in Nat, NEW answer \in Message
  PROVE  LET new == Replaced(list, id, LAMBDA m : answer) IN
         /\ new \in Seq(Message) /\ DOMAIN new = DOMAIN list
         /\ \A i \in DOMAIN list : new[i] = IF IsTemporary(list[i], id) THEN answer ELSE list[i]
<1> DEFINE new == Replaced(list, id, LAMBDA m : answer)
<1>1. new = [i \in DOMAIN list |-> IF IsTemporary(list[i], id) THEN answer ELSE list[i]]
  BY DEF Replaced
<1> HIDE DEF new
<1>2. \A i \in DOMAIN list : new[i] \in Message
  BY <1>1, ListsOfMessages
<1>3. new \in Seq(Message) /\ DOMAIN new = DOMAIN list
  BY <1>1, <1>2, MappedList
<1> QED BY <1>1, <1>3 DEF new

\* Two places of a list are two places of the other, with the same messages.
Picked(new, list) ==
  \A i, j \in DOMAIN new : \E x, y \in DOMAIN list :
    (i # j => x # y) /\ new[i] = list[x] /\ new[j] = list[y]

LEMMA TemporaryRemoved ==
  ASSUME NEW list \in Seq(Message), NEW id \in Nat
  PROVE  LET new == WithoutTemporary(list, id) IN
         /\ new \in Seq(Message) /\ Picked(new, list)
         /\ (\A x, y \in DOMAIN list : IsTemporary(list[x], id) /\ IsTemporary(list[y], id) => x = y) =>
              \A i \in DOMAIN new : ~IsTemporary(new[i], id)
<1> DEFINE new == WithoutTemporary(list, id)
           at == CHOOSE i \in DOMAIN list : IsTemporary(list[i], id)
<1>0. DOMAIN list = 1..Len(list) /\ Len(list) \in Nat
  BY ListsOfMessages
<1>1. CASE ~HasTemporary(list, id)
  <2>1. new = list
    BY <1>1 DEF WithoutTemporary
  <2> HIDE DEF new
  <2>2. Picked(list, list)
    BY DEF Picked
  <2>3. \A i \in DOMAIN list : ~IsTemporary(list[i], id)
    BY <1>1 DEF HasTemporary
  <2> QED BY <2>1, <2>2, <2>3 DEF new
<1>2. CASE HasTemporary(list, id)
  <2>1. at \in DOMAIN list /\ IsTemporary(list[at], id)
    BY <1>2 DEF HasTemporary
  <2>2. new = SubSeq(list, 1, at - 1) \o SubSeq(list, at + 1, Len(list))
    BY <1>2 DEF WithoutTemporary
  <2> HIDE DEF new, at
  <2> DEFINE front == SubSeq(list, 1, at - 1)
             back == SubSeq(list, at + 1, Len(list))
  <2>3. at \in 1..Len(list)
    BY <1>0, <2>1
  <2>4. /\ front \in Seq(Message) /\ Len(front) = at - 1
        /\ \A i \in 1..(at - 1) : front[i] = list[i]
    BY <1>0, <2>3
  <2>5. /\ back \in Seq(Message) /\ Len(back) = Len(list) - at
        /\ \A i \in 1..(Len(list) - at) : back[i] = list[at + i]
    <3>1. /\ at + 1 \in Int /\ Len(list) \in Int
          /\ \A i \in (at + 1)..Len(list) : list[i] \in Message
      BY <1>0, <2>3, ListsOfMessages
    <3>2. /\ back \in Seq(Message) /\ Len(back) = IF at + 1 <= Len(list) THEN Len(list) - (at + 1) + 1 ELSE 0
          /\ \A i \in 1..(Len(list) - (at + 1) + 1) : back[i] = list[(at + 1) + i - 1]
      BY <3>1, SubSeqProperties
    <3> HIDE DEF back
    <3>3. Len(back) = Len(list) - at
      <4>1. at \in Int /\ Len(list) \in Int /\ at <= Len(list)
        BY <1>0, <2>3
      <4>2. Len(back) = IF at + 1 <= Len(list) THEN Len(list) - (at + 1) + 1 ELSE 0
        BY <3>2
      <4> QED BY <4>1, <4>2
    <3>4. ASSUME NEW i \in 1..(Len(list) - at) PROVE back[i] = list[at + i]
      <4>1. i \in 1..(Len(list) - (at + 1) + 1) /\ (at + 1) + i - 1 = at + i
        BY <1>0, <2>3
      <4> QED BY <3>2, <4>1
    <3> QED BY <3>2, <3>3, <3>4
  <2> HIDE DEF front, back
  <2>6. /\ new \in Seq(Message) /\ Len(new) = Len(list) - 1
        /\ \A i \in 1..(Len(list) - 1) : new[i] = IF i < at THEN front[i] ELSE back[i - (at - 1)]
    <3>1. new = front \o back
      BY <2>2 DEF front, back
    <3>2. Len(front) + Len(back) = Len(list) - 1 /\ Len(front) = at - 1 /\ \A i \in Int : i <= at - 1 <=> i < at
      BY <1>0, <2>3, <2>4, <2>5
    <3>3. /\ new \in Seq(Message) /\ Len(new) = Len(front) + Len(back)
          /\ \A i \in 1..(Len(front) + Len(back)) :
               new[i] = IF i <= Len(front) THEN front[i] ELSE back[i - Len(front)]
      BY <2>4, <2>5, <3>1, ConcatProperties
    <3> QED BY <3>2, <3>3
  <2>7. \A i \in 1..(Len(list) - 1) : new[i] = IF i < at THEN list[i] ELSE list[i + 1]
    <3> SUFFICES ASSUME NEW i \in 1..(Len(list) - 1) PROVE new[i] = IF i < at THEN list[i] ELSE list[i + 1]
      OBVIOUS
    <3>1. CASE i < at
      <4>1. i \in 1..(at - 1)
        BY <1>0, <2>3, <3>1
      <4> QED BY <2>4, <2>6, <3>1, <4>1
    <3>2. CASE ~(i < at)
      <4>1. i - (at - 1) \in 1..(Len(list) - at) /\ at + (i - (at - 1)) = i + 1
        BY <1>0, <2>3, <3>2
      <4> QED BY <2>5, <2>6, <3>2, <4>1
    <3> QED BY <3>1, <3>2
  <2>8. DOMAIN new = 1..(Len(list) - 1)
    BY <2>6
  <2> DEFINE from(i) == IF i < at THEN i ELSE i + 1
  <2>9. \A i \in DOMAIN new : from(i) \in DOMAIN list /\ from(i) # at /\ new[i] = list[from(i)]
    BY <1>0, <2>3, <2>7, <2>8
  <2>10. \A i, j \in DOMAIN new : i # j => from(i) # from(j)
    BY <1>0, <2>3, <2>8
  <2> HIDE DEF from
  <2>11. Picked(new, list)
    BY <2>9, <2>10 DEF Picked
  <2>12. (\A x, y \in DOMAIN list : IsTemporary(list[x], id) /\ IsTemporary(list[y], id) => x = y) =>
              \A i \in DOMAIN new : ~IsTemporary(new[i], id)
    BY <2>1, <2>9
  <2> QED BY <2>6, <2>11, <2>12 DEF new
<1> QED BY <1>1, <1>2

LEMMA MessageAppended ==
  ASSUME NEW list \in Seq(Message), NEW m \in Message
  PROVE  /\ Append(list, m) \in Seq(Message) /\ DOMAIN Append(list, m) = (DOMAIN list) \cup {Len(list) + 1}
         /\ \A i \in DOMAIN list : Append(list, m)[i] = list[i]
         /\ Append(list, m)[Len(list) + 1] = m /\ Len(list) + 1 \notin DOMAIN list
<1> QED BY AppendProperties

-----------------------------------------------------------------------------
(* Types.                                                                  *)

LEMMA ChatStays ==
  ASSUME PageTypes
  PROVE  /\ UNCHANGED <<page, call>> => PageTyped'
         /\ UNCHANGED call => CallTyped'
         /\ UNCHANGED <<creating, deleting>> => ChangesTyped'
         /\ UNCHANGED fetches => FetchesTyped'
         /\ UNCHANGED serving => RequestsTyped'
         /\ UNCHANGED stored => StoredTyped'
         /\ UNCHANGED cached => CachedTyped'
         /\ UNCHANGED seen => SeenTyped'
         /\ Quiet \/ PageAct \/ PageFault => PageCounted'
<1>1. PageTyped /\ CallTyped /\ ChangesTyped
  BY DEF PageTypes
<1>2. FetchesTyped /\ RequestsTyped /\ StoredTyped /\ CachedTyped /\ SeenTyped
  BY DEF PageTypes
<1>3. UNCHANGED <<page, call>> => PageTyped'
  BY <1>1 DEF PageTyped
<1>4. UNCHANGED call => CallTyped'
  BY <1>1 DEF CallTyped
<1>5. UNCHANGED <<creating, deleting>> => ChangesTyped'
  BY <1>1 DEF ChangesTyped
<1>6. Quiet \/ PageAct \/ PageFault => PageCounted'
  <2>1. PageCounted
    BY DEF PageTypes
  <2> QED BY <2>1, PageConstants DEF Quiet, PageAct, PageFault, PageCounted
<1> QED BY <1>2, <1>3, <1>4, <1>5, <1>6 DEF FetchesTyped, RequestsTyped, StoredTyped, CachedTyped, SeenTyped

\* A request of messages is sent, if none is under way; it replaces one once there is data.
LEMMA AskedIsFetch ==
  ASSUME page \in PageState, NEW b \in BOOLEAN, NEW w \in PageWorkspaces
  PROVE  /\ Asked(b) \in FetchState /\ Asked(b).pc = "asked" /\ Asked(b).sure = FALSE
         /\ [Asked(b) EXCEPT !.workspace = w] \in FetchState
         /\ [Asked(b) EXCEPT !.workspace = w].pc = "asked"
<1>1. NoFetch \in FetchState /\ NoFetch.sure = FALSE /\ page.workspace \in PageWorkspaces
  BY BlankChat DEF NoFetch, PageState
<1> HIDE DEF NoFetch
<1> QED BY <1>1 DEF Asked, FetchState

LEMMA MountedFetches ==
  ASSUME page \in PageState, NEW f \in [Sessions -> FetchState], NEW s \in Sessions,
         NEW w \in PageWorkspaces
  PROVE  /\ Mounted(f, s, w) \in [Sessions -> FetchState]
         /\ \A x \in Sessions : Mounted(f, s, w)[x] = f[x] \/ (x = s /\ Mounted(f, s, w)[x].pc = "asked")
         /\ Mounted(f, s, w)[s].pc # "none"
<1>1. [Asked(FALSE) EXCEPT !.workspace = w] \in FetchState
      /\ [Asked(FALSE) EXCEPT !.workspace = w].pc = "asked"
  BY AskedIsFetch
<1> DEFINE a == [Asked(FALSE) EXCEPT !.workspace = w]
<1>2. Mounted(f, s, w) = IF f[s].pc # "none" THEN f ELSE [f EXCEPT ![s] = a]
  BY DEF Mounted
<1>3. a \in FetchState /\ a.pc = "asked"
  BY <1>1
<1> HIDE DEF a
<1> QED BY <1>2, <1>3

LEMMA MessagesRefetched ==
  ASSUME page \in PageState, fetches \in [Sessions -> FetchState], NEW s \in Sessions
  PROVE  /\ RefetchMessages(s) \in [Sessions -> FetchState]
         /\ \A x \in Sessions : \/ RefetchMessages(s)[x] = fetches[x]
                                \/ x = s /\ RefetchMessages(s)[x].pc = "asked"
         /\ cached[s] # NoData \/ fetches[s].pc = "asked" => RefetchMessages(s)[s].pc = "asked"
<1>1. page.workspace \in PageWorkspaces
  BY DEF PageState
<1>2. Asked(FALSE) \in FetchState /\ Asked(FALSE).pc = "asked"
  BY <1>1, AskedIsFetch
<1> DEFINE m == Mounted(fetches, s, page.workspace)
           a == Asked(FALSE)
<1>3. /\ m \in [Sessions -> FetchState]
      /\ \A x \in Sessions : m[x] = fetches[x] \/ (x = s /\ m[x].pc = "asked")
  BY <1>1, MountedFetches
<1>4. fetches[s].pc = "asked" => m[s].pc = "asked"
  BY <1>3
<1>5. \/ cached[s] = NoData /\ (RefetchMessages(s) = m \/ RefetchMessages(s) = fetches)
      \/ cached[s] # NoData /\ RefetchMessages(s) = [fetches EXCEPT ![s] = a]
  BY DEF RefetchMessages
<1> HIDE DEF m, a
<1>6. a \in FetchState /\ a.pc = "asked"
  BY <1>2 DEF a
<1> QED BY <1>3, <1>4, <1>5, <1>6

LEMMA DataIsList ==
  ASSUME CachedTyped, NEW s \in Sessions
  PROVE  Data(s) \in Seq(Message)
<1>1. <<>> \in Seq(Message)
  OBVIOUS
<1> QED BY <1>1 DEF CachedTyped, Data

LEMMA SomeSession ==
  ASSUME PageTypes, Serving
  PROVE  /\ \A n \in Prompted : serving[n].pc # "none" => serving[n].session \in Sessions
         /\ call.open => call.session \in Sessions /\ call.n \in Prompted
         /\ creating.pc # "none" => creating.session \in Sessions
         /\ deleting.pc # "none" => deleting.session \in Sessions
         /\ page.selected # None => page.selected \in Sessions
<1>1. \A n \in Prompted : serving[n].pc # "none" => serving[n].session \in Sessions
  <2> SUFFICES ASSUME NEW n \in Prompted, serving[n].pc # "none" PROVE serving[n].session \in Sessions
    OBVIOUS
  <2>1. serving[n].session # None
    BY DEF Serving, Submitting
  <2> QED BY <2>1 DEF PageTypes, RequestsTyped, RequestState
<1>2. call.open => call.session \in Sessions /\ call.n \in Prompted
  BY DEF PageTypes, CallTyped, CallState
<1>3. creating.pc # "none" => creating.session \in Sessions
  BY DEF PageTypes, ChangesTyped, ChangeState
<1>4. deleting.pc # "none" => deleting.session \in Sessions
  BY DEF PageTypes, ChangesTyped, ChangeState
<1>5. page.selected # None => page.selected \in Sessions
  BY DEF PageTypes, PageTyped, PageState
<1> QED BY <1>1, <1>2, <1>3, <1>4, <1>5

LEMMA SelectedPage ==
  ASSUME NEW p \in PageState, NEW s \in Sessions \cup {None}
  PROVE  /\ Selected(p, s) \in PageState /\ Selected(p, s).selected = s
         /\ Selected(p, s).workspace = p.workspace /\ Selected(p, s).drafts = p.drafts
         /\ Selected(p, s).streaming = p.streaming /\ Selected(p, s).streamingId = p.streamingId
         /\ Selected(p, s).ids = p.ids /\ Selected(p, s).hasOutput = p.hasOutput
         /\ s # None => Selected(p, s).shown = p.drafts[s]
<1>1. (IF s = None THEN None ELSE p.drafts[s]) \in Prompts \cup {None}
  BY DEF PageState
<1> QED BY <1>1 DEF Selected, PageState

\* A fetch that cannot be believed to be the last word.
LEMMA UnsureFetches ==
  ASSUME NEW f \in [Sessions -> FetchState], NEW s \in Sessions
  PROVE  LET g == [f EXCEPT ![s].sure = FALSE] IN
         /\ g \in [Sessions -> FetchState]
         /\ \A x \in Sessions : /\ g[x].pc = f[x].pc /\ g[x].list = f[x].list
                               /\ g[x].sure = IF x = s THEN FALSE ELSE f[x].sure
<1> DEFINE q == [f[s] EXCEPT !.sure = FALSE]
<1>1. q \in FetchState /\ q.pc = f[s].pc /\ q.list = f[s].list /\ q.sure = FALSE
  BY DEF FetchState
<1>2. [f EXCEPT ![s].sure = FALSE] = [f EXCEPT ![s] = q]
  OBVIOUS
<1> HIDE DEF q
<1> QED BY <1>1, <1>2

\* What the API stores, of any message.
LEMMA StoredIsTyped ==
  ASSUME PageTypes, NEW n \in Prompted, serving[n].session \in Sessions, Exists(serving[n].session),
         NEW m \in StoredMessage, Store(n, m)
  PROVE  StoredTyped' /\ SeenTyped' /\ FetchesTyped'
<1> DEFINE s == serving[n].session
<1>0. s \in Sessions /\ Exists(s)
  OBVIOUS
<1>1. /\ stored' = [stored EXCEPT ![s] = Append(stored[s], m)]
      /\ IF serving[n].left
         THEN /\ seen' = [seen EXCEPT !.doubtful = @ \cup {s}]
              /\ fetches' = [fetches EXCEPT ![s].sure = FALSE]
         ELSE UNCHANGED <<seen, fetches>>
  BY DEF Store
<1> HIDE DEF s
<1>2. stored[s] \in Seq(StoredMessage)
  BY <1>0 DEF Exists, PageTypes, StoredTyped
<1>3. Append(stored[s], m) \in Seq(StoredMessage)
  BY <1>2, AppendProperties
<1>4. StoredTyped'
  BY <1>0, <1>1, <1>3 DEF PageTypes, StoredTyped
<1>5. SeenTyped'
  BY <1>0, <1>1 DEF PageTypes, SeenTyped, Seen
<1>6. FetchesTyped'
  <2>1. fetches \in [Sessions -> FetchState]
    BY DEF PageTypes, FetchesTyped
  <2>2. fetches' = fetches \/ fetches' = [fetches EXCEPT ![s].sure = FALSE]
    BY <1>1
  <2>3. [fetches EXCEPT ![s].sure = FALSE] \in [Sessions -> FetchState]
    BY <1>0, <2>1, UnsureFetches
  <2> QED BY <2>1, <2>2, <2>3 DEF FetchesTyped
<1> QED BY <1>4, <1>5, <1>6

\* What the API writes of a request.
LEMMA RequestFrames ==
  ASSUME RequestsTyped, NEW n \in Prompted
  PROVE  /\ serving[n].frames \in Seq(Frames) /\ serving[n].pieces \in 0..MaxDeltas
         /\ \A a \in Frames : Written(n, a) \in Seq(Frames)
<1>1. serving[n].frames \in Seq(Frames) /\ serving[n].pieces \in 0..MaxDeltas
  BY DEF RequestsTyped, RequestState
<1> QED BY <1>1, FramesSent DEF Written

\* A frame that arrives is the first of the call's request.
LEMMA ArrivedFrame ==
  ASSUME PageTypes, NEW a, Arrives(a)
  PROVE  /\ call.open /\ call.n \in Prompted /\ call.session \in Sessions
         /\ serving[call.n].frames # <<>> /\ Tail(serving[call.n].frames) \in Seq(Frames)
         /\ serving[call.n].frames[1] = a /\ 1 \in DOMAIN serving[call.n].frames
<1>1. call.open /\ call.n \in Prompted /\ call.session \in Sessions
  BY DEF Arrives, PageTypes, CallTyped, CallState
<1>2. serving[call.n].frames \in Seq(Frames)
  BY <1>1, RequestFrames DEF PageTypes
<1>3. serving[call.n].frames # <<>> /\ Head(serving[call.n].frames) = a
  BY DEF Arrives
<1> QED BY <1>1, <1>2, <1>3, FramesSent

LEMMA PageTypesInit == PageInit => PageTypes
<1> SUFFICES ASSUME PageInit PROVE PageTypes
  OBVIOUS
<1> USE BlankChat, PageConstants
<1>0. PICK w \in PageWorkspaces : page = OpenedPage(w)
  BY DEF PageInit
<1>1. PageTyped
  BY <1>0 DEF PageInit, PageTyped, OpenedPage, NoCall
<1>2. CallTyped
  BY DEF PageInit, CallTyped, NoCall
<1>3. ChangesTyped
  BY DEF PageInit, ChangesTyped, NoChange
<1>4. FetchesTyped /\ RequestsTyped /\ CachedTyped /\ SeenTyped
  BY DEF PageInit, FetchesTyped, RequestsTyped, CachedTyped, SeenTyped
<1>5. StoredTyped
  <2>1. <<>> \in Seq(StoredMessage)
    OBVIOUS
  <2> QED BY <2>1 DEF PageInit, StoredTyped
<1>6. PageCounted
  BY DEF PageInit, PageCounted
<1> QED BY <1>1, <1>2, <1>3, <1>4, <1>5, <1>6 DEF PageTypes

LEMMA PageStreams ==
  ASSUME NEW p \in PageState, NEW a \in Nat, NEW b \in Nat
  PROVE  LET q == [p EXCEPT !.streamingId = a, !.hasOutput = TRUE, !.ids = b] IN
         /\ q \in PageState /\ q.streamingId = a /\ q.ids = b /\ q.streaming = p.streaming
         /\ q.selected = p.selected /\ q.shown = p.shown /\ q.drafts = p.drafts
         /\ q.workspace = p.workspace
<1> QED BY DEF PageState

LEMMA PageRests ==
  ASSUME NEW p \in PageState,
         NEW q \in {[p EXCEPT !.streaming = FALSE],
                    [p EXCEPT !.streaming = FALSE, !.streamingId = 0, !.hasOutput = FALSE]}
  PROVE  /\ q \in PageState /\ q.streaming = FALSE /\ q.streamingId \in {0, p.streamingId}
         /\ q.ids = p.ids /\ q.selected = p.selected /\ q.shown = p.shown /\ q.drafts = p.drafts
         /\ q.workspace = p.workspace
<1>1. CASE q = [p EXCEPT !.streaming = FALSE]
  BY <1>1 DEF PageState
<1>2. CASE q = [p EXCEPT !.streaming = FALSE, !.streamingId = 0, !.hasOutput = FALSE]
  BY <1>2 DEF PageState
<1> QED BY <1>1, <1>2

\* What an appended piece makes of the list and of the page.
LEMMA DeltaAppended ==
  ASSUME PageTypes, call.open, AppendDelta
  PROVE  LET id == IF page.streamingId = 0 THEN page.ids + 1 ELSE page.streamingId IN
         /\ id \in Nat \ {0} /\ CachedTyped'
         /\ page' \in PageState /\ page'.ids >= page.ids /\ page'.streamingId <= page'.ids
         /\ page' = [page EXCEPT !.streamingId = id, !.hasOutput = TRUE, !.ids = page'.ids]
<1> DEFINE id == IF page.streamingId = 0 THEN page.ids + 1 ELSE page.streamingId
           list == Data(call.session)
           piece == call.taken + 1
           new == IF HasTemporary(list, id)
                  THEN Replaced(list, id, LAMBDA m : [m EXCEPT !.pieces = Append(@, piece)])
                  ELSE Append(list, Temporary(id, call.n, <<piece>>))
<1>1. call.n \in Prompted /\ call.session \in Sessions /\ piece \in Nat
  BY DEF PageTypes, CallTyped, CallState
<1>2. page \in PageState /\ page.streamingId <= page.ids /\ page.streamingId \in Nat /\ page.ids \in Nat
  BY DEF PageTypes, PageTyped, PageState
<1>3. id \in Nat \ {0}
  BY <1>2
<1>4. list \in Seq(Message)
  BY <1>1, DataIsList DEF PageTypes
<1>5. cached' = [cached EXCEPT ![call.session] = new]
  BY DEF AppendDelta
<1>6. page' = [page EXCEPT !.streamingId = id, !.hasOutput = TRUE, !.ids = IF id > @ THEN id ELSE @]
  BY DEF AppendDelta
<1> HIDE DEF id, list, piece
<1>7. new \in Seq(Message)
  <2>1. Replaced(list, id, LAMBDA m : [m EXCEPT !.pieces = Append(@, piece)]) \in Seq(Message)
    BY <1>1, <1>3, <1>4, PieceAdded
  <2>2. Temporary(id, call.n, <<piece>>) \in Message
    BY <1>1, <1>3, TemporariesAre DEF Message
  <2>3. Append(list, Temporary(id, call.n, <<piece>>)) \in Seq(Message)
    BY <1>4, <2>2, MessageAppended
  <2> QED BY <2>1, <2>3
<1> HIDE DEF new
<1>8. CachedTyped'
  BY <1>1, <1>5, <1>7 DEF PageTypes, CachedTyped
<1> DEFINE last == IF id > page.ids THEN id ELSE page.ids
<1>9. page' = [page EXCEPT !.streamingId = id, !.hasOutput = TRUE, !.ids = last]
  BY <1>6
<1>10. last \in Nat /\ last >= page.ids /\ id <= last
  BY <1>2, <1>3
<1> HIDE DEF last
<1>11. page' \in PageState /\ page'.ids = last /\ page'.streamingId = id
  BY <1>2, <1>3, <1>9, <1>10, PageStreams
<1>12. page' \in PageState /\ page'.ids >= page.ids /\ page'.streamingId <= page'.ids
  BY <1>10, <1>11
<1>13. page' = [page EXCEPT !.streamingId = id, !.hasOutput = TRUE, !.ids = page'.ids]
  BY <1>9, <1>11
<1> QED BY <1>3, <1>8, <1>12, <1>13 DEF id

\* The end of a call, in its finally block.
LEMMA CallEnds ==
  ASSUME PageTypes, call.open, call' = NoCall, Finally(call.session)
  PROVE  /\ PageTyped' /\ CallTyped' /\ FetchesTyped' /\ SeenTyped'
         /\ page'.selected = page.selected /\ page'.workspace = page.workspace
         /\ page'.shown = page.shown /\ page'.drafts = page.drafts
         /\ seen'.moved = seen.moved /\ seen'.wiped = seen.wiped /\ seen'.stray = seen.stray
<1> DEFINE s == call.session
           alone == cached[s] = NoData /\ fetches[s].pc # "asked"
           again == RefetchMessages(s)
<1>0. s \in Sessions /\ page \in PageState /\ page.streamingId <= page.ids /\ seen \in Seen
      /\ fetches \in [Sessions -> FetchState]
  BY DEF PageTypes, CallTyped, CallState, PageTyped, SeenTyped, FetchesTyped
<1>1. again \in [Sessions -> FetchState]
  BY <1>0, MessagesRefetched
<1>2. /\ \/ page' = [page EXCEPT !.streaming = FALSE]
         \/ page' = [page EXCEPT !.streaming = FALSE, !.streamingId = 0, !.hasOutput = FALSE]
      /\ \/ fetches' = [fetches EXCEPT ![s].sure = FALSE]
         \/ fetches' = [again EXCEPT ![s].sure = FALSE]
         \/ fetches' = again
      /\ seen' = seen \/ seen' = [seen EXCEPT !.doubtful = @ \cup {s}]
  <2>1. CASE page.streamingId # 0 /\ page.hasOutput
    BY <2>1 DEF Finally
  <2>2. CASE ~(page.streamingId # 0 /\ page.hasOutput)
    <3>1. /\ page' = [page EXCEPT !.streaming = FALSE, !.streamingId = 0, !.hasOutput = FALSE]
          /\ fetches' = IF alone THEN [again EXCEPT ![s].sure = FALSE] ELSE again
          /\ seen' = [seen EXCEPT !.doubtful = IF alone THEN @ \cup {s} ELSE @]
      BY <2>2 DEF Finally
    <3>2. [seen EXCEPT !.doubtful = seen.doubtful] = seen
      BY <1>0 DEF Seen
    <3> HIDE DEF alone, again, s
    <3> QED BY <3>1, <3>2
  <2> QED BY <2>1, <2>2
<1> HIDE DEF again, s
<1>3. [fetches EXCEPT ![s].sure = FALSE] \in [Sessions -> FetchState]
      /\ [again EXCEPT ![s].sure = FALSE] \in [Sessions -> FetchState]
  BY <1>0, <1>1, UnsureFetches
<1>4. FetchesTyped'
  BY <1>1, <1>2, <1>3 DEF FetchesTyped
<1>5. SeenTyped' /\ seen'.moved = seen.moved /\ seen'.wiped = seen.wiped /\ seen'.stray = seen.stray
  BY <1>0, <1>2 DEF Seen, SeenTyped
<1>6. PageTyped' /\ page'.selected = page.selected /\ page'.workspace = page.workspace
      /\ page'.shown = page.shown /\ page'.drafts = page.drafts
  <2>1. page' \in {[page EXCEPT !.streaming = FALSE],
                   [page EXCEPT !.streaming = FALSE, !.streamingId = 0, !.hasOutput = FALSE]}
    BY <1>2
  <2>2. /\ page' \in PageState /\ page'.streaming = FALSE /\ page'.streamingId \in {0, page.streamingId}
        /\ page'.ids = page.ids /\ page'.selected = page.selected /\ page'.shown = page.shown
        /\ page'.drafts = page.drafts /\ page'.workspace = page.workspace
    BY <1>0, <2>1, PageRests
  <2>3. call'.open = FALSE
    BY DEF NoCall
  <2>4. page'.streamingId <= page'.ids
    BY <1>0, <2>2 DEF PageState
  <2> QED BY <2>2, <2>3, <2>4 DEF PageTyped
<1>7. CallTyped'
  BY BlankChat DEF CallTyped, NoCall
<1> QED BY <1>4, <1>5, <1>6, <1>7

\* What each of these does to the page, field by field.
LEMMA SwitchedPage ==
  ASSUME page \in PageState, NEW w \in PageWorkspaces, SwitchWorkspace(w)
  PROVE  /\ page' \in PageState /\ page'.streaming = page.streaming /\ page'.streamingId = 0
         /\ page'.ids = page.ids /\ page'.selected = None /\ page'.shown = None
         /\ page'.drafts = [s \in Sessions |-> None] /\ page'.workspace = w
<1>1. page' = [OpenedPage(w) EXCEPT !.streaming = page.streaming, !.ids = page.ids]
  BY DEF SwitchWorkspace
<1>2. page.ids \in Nat /\ page.streaming \in BOOLEAN
  BY DEF PageState
<1>3. page' = [workspace |-> w, selected |-> None, shown |-> None, drafts |-> [s \in Sessions |-> None],
               streaming |-> page.streaming, streamingId |-> 0, hasOutput |-> FALSE, ids |-> page.ids]
  BY <1>1 DEF OpenedPage
<1>4. [s \in Sessions |-> None] \in [Sessions -> Prompts \cup {None}]
  OBVIOUS
<1>5. page' \in PageState
  BY <1>2, <1>3, <1>4 DEF PageState
<1> QED BY <1>3, <1>5

LEMMA EditedPage ==
  ASSUME page \in PageState, NEW text \in Prompts \cup {None}, UpdatePromptDraft(text),
         page.selected \in Sessions
  PROVE  /\ page' \in PageState /\ page'.shown = text
         /\ page'.drafts = [page.drafts EXCEPT ![page.selected] = text]
         /\ page'.streaming = page.streaming /\ page'.streamingId = page.streamingId
         /\ page'.ids = page.ids /\ page'.selected = page.selected
         /\ page'.workspace = page.workspace
<1> DEFINE d == [page.drafts EXCEPT ![page.selected] = text]
<1>1. page' = [page EXCEPT !.shown = text, !.drafts = d]
  BY DEF UpdatePromptDraft, PageState
<1>2. d \in [Sessions -> Prompts \cup {None}]
  BY DEF PageState
<1> HIDE DEF d
<1>3. /\ page' \in PageState /\ page'.shown = text /\ page'.drafts = d
      /\ page'.streaming = page.streaming /\ page'.streamingId = page.streamingId
      /\ page'.ids = page.ids /\ page'.selected = page.selected
      /\ page'.workspace = page.workspace
  BY <1>1, <1>2 DEF PageState
<1> QED BY <1>3 DEF d

LEMMA SubmittedPage ==
  ASSUME page \in PageState, SubmitPrompt
  PROVE  /\ page' \in PageState /\ page'.streaming = TRUE /\ page'.streamingId = 0
         /\ page'.ids = page.ids /\ page'.selected = page.selected /\ page'.shown = page.shown
         /\ page'.drafts = page.drafts /\ page'.workspace = page.workspace
<1>1. page' = [page EXCEPT !.streaming = TRUE, !.streamingId = 0, !.hasOutput = FALSE]
  BY DEF SubmitPrompt
<1>2. page' \in PageState
  BY <1>1 DEF PageState
<1>3. page'.streaming = TRUE
  BY <1>1 DEF PageState
<1> QED BY <1>1, <1>2, <1>3 DEF PageState

LEMMA UserTypesStep ==
  ASSUME PageTypes, Serving, UserStep
  PROVE  PageTypes'
<1> USE BlankChat
<1>0. /\ page \in PageState /\ call \in CallState /\ seen \in Seen /\ fetches \in [Sessions -> FetchState]
      /\ page.workspace \in PageWorkspaces /\ page.streaming = call.open /\ page.streamingId <= page.ids
      /\ (page.selected # None => page.selected \in Sessions)
  BY SomeSession DEF PageTypes, PageTyped, CallTyped, SeenTyped, FetchesTyped, PageState
<1>1. ASSUME NEW w \in PageWorkspaces, SwitchWorkspace(w) PROVE PageTypes'
  <2>2. PageTyped'
    <3>1. call' = call
      BY <1>1 DEF SwitchWorkspace
    <3>3. page' \in PageState /\ page'.streaming = page.streaming /\ page'.streamingId = 0
          /\ page'.ids = page.ids
      BY <1>0, <1>1, SwitchedPage
    <3>4. page'.streamingId <= page'.ids
      BY <3>3 DEF PageState
    <3> QED BY <1>0, <3>1, <3>3, <3>4 DEF PageTyped
  <2>3. call.open => call.n \in Prompted
    BY SomeSession
  <2>4. SeenTyped'
    BY <1>0, <1>1, <2>3 DEF SwitchWorkspace, SeenTyped, Seen
  <2> QED BY <1>1, <2>2, <2>4, ChatStays DEF SwitchWorkspace, PageTypes
<1>2. ASSUME NEW s \in Sessions, SelectSession(s) PROVE PageTypes'
  <2>1. page' = Selected(page, s) /\ fetches' = Mounted(fetches, s, page.workspace) /\ call' = call
    BY <1>2 DEF SelectSession
  <2>2. PageTyped'
    BY <1>0, <2>1, SelectedPage DEF PageTyped
  <2>3. FetchesTyped'
    BY <1>0, <2>1, MountedFetches DEF FetchesTyped
  <2>4. SeenTyped'
    BY <1>0, <1>2 DEF SelectSession, SeenTyped, Seen
  <2> QED BY <1>2, <2>2, <2>3, <2>4, ChatStays DEF SelectSession, PageTypes
<1>3. ASSUME NEW s \in Sessions, ConfirmDeleteSession(s) PROVE PageTypes'
  <2>1. page.selected \in Sessions \cup {None} /\ s # None
    BY PageConstants DEF PageTypes, PageTyped, PageState
  <2>2. deleting' \in ChangeState /\ deleting'.session # None /\ creating' = creating
    BY <1>3, <2>1 DEF ConfirmDeleteSession, ChangeState
  <2>3. ChangesTyped'
    BY <2>2 DEF ChangesTyped, PageTypes
  <2> QED BY <1>3, <2>3, ChatStays DEF ConfirmDeleteSession, PageTypes
<1>4. ASSUME NEW text \in Prompts \cup {None}, UpdatePromptDraft(text) PROVE PageTypes'
  <2>1. page.selected \in Sessions
    BY <1>0, <1>4 DEF UpdatePromptDraft, Composer
  <2>3. PageTyped'
    <3>1. call' = call
      BY <1>4 DEF UpdatePromptDraft
    <3>2. page' \in PageState /\ page'.streaming = page.streaming /\ page'.ids = page.ids
          /\ page'.streamingId = page.streamingId
      BY <1>0, <1>4, <2>1, EditedPage
    <3> QED BY <1>0, <3>1, <3>2 DEF PageTyped
  <2>4. SeenTyped'
    BY <1>0, <1>4 DEF UpdatePromptDraft, SeenTyped, Seen
  <2> QED BY <1>4, <2>3, <2>4, ChatStays DEF UpdatePromptDraft, PageTypes
<1>5. CASE SubmitPrompt
  <2> DEFINE n == Cardinality(Submitted) + 1
  <2>1. Composer /\ page.shown # None /\ Submitted # Prompted
    BY <1>5 DEF SubmitPrompt
  <2>2. n \in Prompted /\ serving[n].pc = "none"
    BY <2>1, NextPrompt
  <2>3. /\ call' = [NoCall EXCEPT !.open = TRUE, !.n = n, !.session = page.selected,
                                  !.prompt = page.shown]
        /\ serving' = [serving EXCEPT ![n] = [NoRequest EXCEPT !.pc = "asked",
                        !.session = page.selected, !.workspace = page.workspace]]
    BY <1>5 DEF SubmitPrompt
  <2> HIDE DEF n
  <2>4. page.selected \in Sessions /\ page.selected # None /\ page.shown \in Prompts \cup {None}
        /\ n # 0
    BY <1>0, <2>1, <2>2 DEF Composer, PageState, Prompted
  <2>5. CallTyped' /\ call'.open = TRUE
    BY <2>2, <2>3, <2>4 DEF NoCall, CallTyped, CallState
  <2>6. PageTyped'
    <3>1. page' \in PageState /\ page'.streaming = TRUE /\ page'.ids = page.ids /\ page'.streamingId = 0
      BY <1>0, <1>5, SubmittedPage
    <3>2. page'.streamingId <= page'.ids
      BY <1>0, <3>1 DEF PageState
    <3> QED BY <2>5, <3>1, <3>2 DEF PageTyped
  <2>7. [NoRequest EXCEPT !.pc = "asked", !.session = page.selected, !.workspace = page.workspace]
          \in RequestState
    BY <1>0, <2>4 DEF NoRequest, RequestState
  <2>8. RequestsTyped'
    BY <2>2, <2>3, <2>7 DEF RequestsTyped, PageTypes
  <2> QED BY <1>5, <2>5, <2>6, <2>8, ChatStays DEF SubmitPrompt, PageTypes
<1>6. CASE StopStreaming
  <2>1. call' = [call EXCEPT !.aborted = TRUE] /\ call.open /\ page' = page
    BY <1>6 DEF StopStreaming
  <2>2. CallTyped' /\ call'.open = call.open
    BY <1>0, <2>1 DEF CallTyped, CallState, PageTypes
  <2>3. PageTyped'
    BY <2>1, <2>2 DEF PageTyped, PageTypes
  <2> QED BY <1>6, <2>2, <2>3, ChatStays DEF StopStreaming, PageTypes
<1>7. CASE CreateSession
  <2>1. PICK s \in Sessions : creating' = [NoChange EXCEPT !.pc = "asked", !.session = s]
    BY <1>7 DEF CreateSession
  <2>2. creating' \in ChangeState /\ creating'.session # None /\ deleting' = deleting
    BY <1>7, <2>1, PageConstants DEF CreateSession, ChangeState, NoChange
  <2>3. ChangesTyped'
    BY <2>2 DEF ChangesTyped, PageTypes
  <2> QED BY <1>7, <2>3, ChatStays DEF CreateSession, PageTypes
<1> QED BY <1>1, <1>2, <1>3, <1>4, <1>5, <1>6, <1>7 DEF UserStep

LEMMA ApiTypesStep ==
  ASSUME PageTypes, Serving, ApiStep
  PROVE  PageTypes'
<1>0. /\ fetches \in [Sessions -> FetchState] /\ RequestsTyped /\ call.n \in Nat /\ seen \in Seen
      /\ stored \in [Sessions -> Seq(StoredMessage) \cup {Unborn, Deleted}]
      /\ \A n \in Prompted : serving[n].pc # "none" => serving[n].session \in Sessions
  BY SomeSession, PageConstants DEF PageTypes, CallTyped, CallState, SeenTyped, FetchesTyped, StoredTyped, Prompted
<1>10. serving \in [Prompted -> RequestState]
  BY <1>0 DEF RequestsTyped
<1>1. ASSUME NEW s \in Sessions, AnswerFetch(s) PROVE PageTypes'
  <2>1. CASE Exists(s) /\ fetches[s].workspace = workspaceOf[s]
    <3>1. fetches' = [fetches EXCEPT ![s].pc = "answered", ![s].list = stored[s], ![s].sure = TRUE]
      BY <1>1, <2>1 DEF AnswerFetch
    <3>2. stored[s] \in Seq(StoredMessage)
      BY <1>0, <2>1 DEF Exists
    <3>3. FetchesTyped'
      <4> DEFINE q == [fetches[s] EXCEPT !.pc = "answered", !.list = stored[s], !.sure = TRUE]
      <4>1. q \in FetchState
        <5>1. fetches[s] \in FetchState
          BY <1>0
        <5> QED BY <3>2, <5>1 DEF FetchState
      <4>2. fetches' = [fetches EXCEPT ![s] = q]
        BY <1>0, <3>1
      <4> HIDE DEF q
      <4> QED BY <1>0, <4>1, <4>2 DEF FetchesTyped
    <3> QED BY <1>1, <3>3, ChatStays DEF AnswerFetch, PageTypes
  <2>2. CASE ~(Exists(s) /\ fetches[s].workspace = workspaceOf[s])
    <3>1. fetches' = [fetches EXCEPT ![s].pc = "refused"]
      BY <1>1, <2>2 DEF AnswerFetch
    <3>2. FetchesTyped'
      BY <1>0, <3>1 DEF FetchesTyped, FetchState
    <3> QED BY <1>1, <3>2, ChatStays DEF AnswerFetch, PageTypes
  <2> QED BY <2>1, <2>2
<1>2. ASSUME NEW s \in Sessions, LoseFetch(s) PROVE PageTypes'
  <2>1. fetches' = [fetches EXCEPT ![s].pc = "refused"]
    BY <1>2 DEF LoseFetch
  <2>2. FetchesTyped'
    BY <1>0, <2>1 DEF FetchesTyped, FetchState
  <2> QED BY <1>2, <2>2, ChatStays DEF LoseFetch, PageTypes
<1>3. ASSUME NEW n \in Prompted, StoreUserMessage(n) PROVE PageTypes'
  <2>1. StoredTyped' /\ SeenTyped' /\ FetchesTyped'
    BY <1>0, <1>3, MessagesAre, StoredIsTyped DEF StoreUserMessage, Accepted
  <2>2. Written(n, "user_message") \in Seq(Frames)
    BY <1>0, RequestFrames DEF Frames
  <2>3. serving' = [serving EXCEPT ![n].pc = "started", ![n].frames = Written(n, "user_message")]
    BY <1>3 DEF StoreUserMessage
  <2>4. RequestsTyped'
    BY <1>10, <2>2, <2>3 DEF RequestsTyped, RequestState
  <2> QED BY <1>3, <2>1, <2>4, ChatStays DEF StoreUserMessage, PageTypes
<1>4. ASSUME NEW n \in Prompted, SendDelta(n) PROVE PageTypes'
  <2>1. Written(n, "delta") \in Seq(Frames) /\ serving[n].pieces + 1 \in 0..MaxDeltas
    BY <1>0, <1>4, RequestFrames, PageConstants DEF Frames, SendDelta
  <2>2. serving' = [serving EXCEPT ![n].pieces = serving[n].pieces + 1, ![n].frames = Written(n, "delta")]
    BY <1>0, <1>4 DEF SendDelta, RequestsTyped
  <2>3. RequestsTyped'
    BY <1>10, <2>1, <2>2 DEF RequestsTyped, RequestState
  <2> QED BY <1>4, <2>3, ChatStays DEF SendDelta, PageTypes
<1>5. ASSUME NEW n \in Prompted, Finish(n) PROVE PageTypes'
  <2>1. StoredTyped' /\ SeenTyped' /\ FetchesTyped'
    BY <1>0, <1>5, MessagesAre, StoredIsTyped DEF Finish
  <2> DEFINE f == IF serving[n].left THEN serving[n].frames
                  ELSE serving[n].frames \o <<"assistant_message", "done">>
  <2>2. f \in Seq(Frames)
    BY <1>0, RequestFrames, FramesSent DEF Frames
  <2>3. serving' = [serving EXCEPT ![n].pc = "over", ![n].frames = f]
    BY <1>0, <1>5 DEF Finish, RequestsTyped
  <2> HIDE DEF f
  <2>4. RequestsTyped'
    BY <1>10, <2>2, <2>3 DEF RequestsTyped, RequestState
  <2> QED BY <1>5, <2>1, <2>4, ChatStays DEF Finish, PageTypes
<1>6. ASSUME NEW n \in Prompted, GiveUp(n) PROVE PageTypes'
  <2> DEFINE partial == serving[n].pieces > 0 /\ Exists(serving[n].session)
             f == IF serving[n].left THEN serving[n].frames
                  ELSE serving[n].frames \o (IF partial THEN <<"assistant_message", "error">> ELSE <<"error">>)
  <2>1. StoredTyped' /\ SeenTyped' /\ FetchesTyped'
    <3>1. CASE partial
      BY <1>0, <1>6, <3>1, MessagesAre, StoredIsTyped DEF GiveUp
    <3>2. CASE ~partial
      BY <1>6, <3>2, ChatStays DEF GiveUp
    <3> QED BY <3>1, <3>2
  <2>2. f \in Seq(Frames)
    BY <1>0, RequestFrames, FramesSent DEF Frames
  <2>3. serving' = [serving EXCEPT ![n].pc = "over", ![n].frames = f]
    BY <1>0, <1>6 DEF GiveUp, RequestsTyped
  <2>4. Quiet \/ PageFault
    BY <1>6 DEF GiveUp
  <2> HIDE DEF f, partial
  <2>5. RequestsTyped'
    BY <1>10, <2>2, <2>3 DEF RequestsTyped, RequestState
  <2> QED BY <1>6, <2>1, <2>4, <2>5, ChatStays DEF GiveUp, PageTypes
<1>7. ASSUME NEW n \in Prompted, BreakStream(n) PROVE PageTypes'
  <2> DEFINE f == Append(serving[n].frames, "error")
  <2>1. f \in Seq(Frames)
    BY <1>0, RequestFrames, FramesSent DEF Frames
  <2>2. serving' = [serving EXCEPT ![n].frames = f, ![n].left = TRUE]
    BY <1>0, <1>7 DEF BreakStream, RequestsTyped
  <2> HIDE DEF f
  <2>3. RequestsTyped'
    BY <1>10, <2>1, <2>2 DEF RequestsTyped, RequestState
  <2> QED BY <1>7, <2>3, ChatStays DEF BreakStream, PageTypes
<1>8. CASE Change
  <2>1. CASE creating.pc = "asked" /\ stored' = [stored EXCEPT ![creating.session] = <<>>]
             /\ creating' = [creating EXCEPT !.pc = "done"] /\ UNCHANGED <<deleting, seen>>
    <3>1. <<>> \in Seq(StoredMessage)
      OBVIOUS
    <3>2. StoredTyped'
      BY <1>0, <2>1, <3>1 DEF StoredTyped
    <3>3. ChangesTyped'
      BY <2>1 DEF ChangesTyped, ChangeState, PageTypes
    <3> QED BY <1>8, <2>1, <3>2, <3>3, ChatStays DEF Change, PageTypes
  <2>2. CASE deleting.pc = "asked" /\ stored' = [stored EXCEPT ![deleting.session] = Deleted]
             /\ deleting' = [deleting EXCEPT !.pc = "done"] /\ UNCHANGED creating
             /\ seen' = [seen EXCEPT !.stray = @ \/ page.selected = deleting.session]
    <3>1. StoredTyped'
      BY <1>0, <2>2 DEF StoredTyped
    <3>2. ChangesTyped'
      BY <2>2 DEF ChangesTyped, ChangeState, PageTypes
    <3>3. SeenTyped'
      BY <1>0, <2>2 DEF SeenTyped, Seen
    <3> QED BY <1>8, <2>2, <3>1, <3>2, <3>3, ChatStays DEF Change, PageTypes
  <2> QED BY <1>8, <2>1, <2>2 DEF Change
<1> QED BY <1>1, <1>2, <1>3, <1>4, <1>5, <1>6, <1>7, <1>8 DEF ApiStep

LEMMA StreamTypesStep ==
  ASSUME PageTypes, Serving, StreamStep
  PROVE  PageTypes'
<1>0. /\ page \in PageState /\ page.streaming = call.open /\ page.streamingId <= page.ids
      /\ page.streamingId \in Nat /\ page.ids \in Nat
      /\ RequestsTyped /\ seen \in Seen /\ CachedTyped /\ call \in CallState
      /\ (page.selected # None => page.selected \in Sessions)
  BY SomeSession DEF PageTypes, PageTyped, PageState, SeenTyped, CallTyped
<1>1. ASSUME NEW a, Arrives(a), Taken PROVE RequestsTyped'
  <2>1. serving' = [serving EXCEPT ![call.n].frames = Tail(serving[call.n].frames)]
        /\ call.n \in Prompted /\ Tail(serving[call.n].frames) \in Seq(Frames)
    BY <1>0, <1>1, ArrivedFrame DEF Taken, RequestsTyped
  <2> QED BY <1>0, <2>1 DEF RequestsTyped, RequestState
<1>2. CASE TakeUserMessage
  <2>1. call.open /\ call.n \in Prompted /\ call.session \in Sessions
    BY <1>2, ArrivedFrame DEF TakeUserMessage
  <2> DEFINE list == Data(call.session)
             new == IF Has(list, User(call.n)) THEN list ELSE Append(list, User(call.n))
  <2>2. list \in Seq(Message) /\ User(call.n) \in Message
    BY <1>0, <2>1, DataIsList, MessagesAre
  <2>3. new \in Seq(Message)
    BY <2>2, MessageAppended
  <2>4. cached' = [cached EXCEPT ![call.session] = new]
    BY <1>2 DEF TakeUserMessage
  <2> HIDE DEF new, list
  <2>5. CachedTyped'
    BY <1>0, <2>1, <2>3, <2>4 DEF CachedTyped
  <2>6. page' = [page EXCEPT !.shown = None, !.drafts = [page.drafts EXCEPT ![call.session] = None]]
        /\ call' = call
    BY <1>0, <1>2 DEF TakeUserMessage, Sent, PageState
  <2>7. [page.drafts EXCEPT ![call.session] = None] \in [Sessions -> Prompts \cup {None}]
    BY <1>0, <2>1 DEF PageState
  <2>8. PageTyped'
    <3> DEFINE d == [page.drafts EXCEPT ![call.session] = None]
    <3>1. page' = [page EXCEPT !.shown = None, !.drafts = d] /\ d \in [Sessions -> Prompts \cup {None}]
      BY <2>6, <2>7
    <3> HIDE DEF d
    <3>2. page' \in PageState /\ page'.streaming = page.streaming /\ page'.ids = page.ids
          /\ page'.streamingId = page.streamingId
      BY <1>0, <3>1 DEF PageState
    <3> QED BY <1>0, <2>6, <3>2 DEF PageTyped
  <2>9. SeenTyped'
    BY <1>0, <1>2 DEF TakeUserMessage, SeenTyped, Seen
  <2> QED BY <1>1, <1>2, <2>5, <2>8, <2>9, ChatStays DEF TakeUserMessage, PageTypes
<1>3. CASE TakeDelta
  <2>1. call.open /\ AppendDelta /\ call' = [call EXCEPT !.taken = call.taken + 1]
    BY <1>3 DEF TakeDelta, Arrives
  <2>2. CachedTyped' /\ page' \in PageState /\ page'.streamingId <= page'.ids
        /\ page'.streaming = page.streaming
    BY <2>1, DeltaAppended DEF PageState
  <2>3. CallTyped' /\ call'.open = call.open
    <3> DEFINE k == call.taken + 1
    <3>0. k \in Nat /\ call' = [call EXCEPT !.taken = k]
      BY <1>0, <2>1 DEF CallState
    <3> HIDE DEF k
    <3>1. call' \in CallState /\ call'.n = call.n /\ call'.session = call.session
      BY <1>0, <3>0 DEF CallState
    <3>2. call'.open = call.open
      BY <1>0, <3>0 DEF CallState
    <3> QED BY <2>1, <3>1, <3>2 DEF CallTyped, PageTypes
  <2>4. PageTyped'
    BY <1>0, <2>2, <2>3 DEF PageTyped
  <2> QED BY <1>1, <1>3, <2>2, <2>3, <2>4, ChatStays DEF TakeDelta, PageTypes
<1>4. CASE TakeAssistantMessage
  <2>1. call.open /\ call.n \in Prompted /\ call.session \in Sessions
    BY <1>4, ArrivedFrame DEF TakeAssistantMessage
  <2> DEFINE list == Data(call.session)
             new == Reconciled(list, Reply(call.n))
  <2>2. list \in Seq(Message) /\ Reply(call.n) \in Message
    BY <1>0, <2>1, DataIsList, MessagesAre
  <2>3. cached' = [cached EXCEPT ![call.session] = new]
    BY <1>4 DEF TakeAssistantMessage
  <2> HIDE DEF list
  <2>4. new \in Seq(Message)
    <3>1. WithoutTemporary(list, page.streamingId) \in Seq(Message)
      BY <1>0, <2>2, TemporaryRemoved
    <3>2. Append(list, Reply(call.n)) \in Seq(Message)
      BY <2>2, MessageAppended
    <3>3. Replaced(list, page.streamingId, LAMBDA m : Reply(call.n)) \in Seq(Message)
      BY <1>0, <2>2, TemporaryAnswered
    <3> DEFINE other == Replaced(list, page.streamingId, LAMBDA m : Reply(call.n))
    <3>4. new = IF Has(list, Reply(call.n)) THEN WithoutTemporary(list, page.streamingId)
                ELSE IF page.streamingId = 0 THEN Append(list, Reply(call.n)) ELSE other
      BY Zenon DEF Reconciled
    <3> HIDE DEF other, new
    <3> QED BY <3>1, <3>2, <3>3, <3>4, Zenon DEF other
  <2> HIDE DEF new
  <2>5. CachedTyped'
    BY <1>0, <2>1, <2>3, <2>4 DEF CachedTyped
  <2>6. PageTyped'
    <3>1. page' = [page EXCEPT !.streamingId = 0] /\ call' = call
      BY <1>4 DEF TakeAssistantMessage
    <3>2. page' \in PageState /\ page'.streaming = page.streaming /\ page'.ids = page.ids
          /\ page'.streamingId = 0
      BY <1>0, <3>1 DEF PageState
    <3> QED BY <1>0, <3>1, <3>2 DEF PageTyped
  <2> QED BY <1>1, <1>4, <2>5, <2>6, ChatStays DEF TakeAssistantMessage, PageTypes
<1>5. ASSUME call.open, serving' = [serving EXCEPT ![call.n].frames = <<>>, ![call.n].left = TRUE]
      PROVE  RequestsTyped'
  <2>1. <<>> \in Seq(Frames) /\ call.n \in Prompted
    BY <1>5, SomeSession
  <2> DEFINE q == [serving[call.n] EXCEPT !.frames = <<>>, !.left = TRUE]
  <2>2. serving \in [Prompted -> RequestState] /\ serving[call.n] \in RequestState
    BY <1>0, <2>1 DEF RequestsTyped, PageTypes
  <2>3. q \in RequestState
    BY <2>1, <2>2 DEF RequestState
  <2>4. serving' = [serving EXCEPT ![call.n] = q]
    BY <1>5, <2>1, <2>2
  <2> HIDE DEF q
  <2> QED BY <2>1, <2>2, <2>3, <2>4 DEF RequestsTyped
<1>6. CASE StreamDone
  <2>1. call.open /\ call' = NoCall /\ Finally(call.session)
    BY <1>6 DEF StreamDone, Arrives
  <2>2. PageTyped' /\ CallTyped' /\ FetchesTyped' /\ SeenTyped'
    BY <2>1, CallEnds
  <2> QED BY <1>5, <1>6, <2>1, <2>2, ChatStays DEF StreamDone, PageTypes
<1>7. CASE StreamFailed
  <2>1. call.open /\ call' = NoCall /\ Finally(call.session)
    BY <1>7 DEF StreamFailed, Arrives
  <2>2. PageTyped' /\ CallTyped' /\ FetchesTyped' /\ SeenTyped'
    BY <2>1, CallEnds
  <2>3. CachedTyped'
    <3> DEFINE list == Data(call.session)
               marked == Replaced(list, page.streamingId, LAMBDA m : [m EXCEPT !.incomplete = TRUE])
               without == WithoutTemporary(list, page.streamingId)
    <3>1. call.session \in Sessions
      BY <2>1, SomeSession
    <3>2. list \in Seq(Message)
      BY <1>0, <3>1, DataIsList
    <3>3. \/ cached' = cached
          \/ cached' = [cached EXCEPT ![call.session] = marked]
          \/ cached' = [cached EXCEPT ![call.session] = without]
      BY <1>7 DEF StreamFailed
    <3> HIDE DEF list
    <3>4. marked \in Seq(Message) /\ without \in Seq(Message)
      BY <1>0, <3>2, TemporaryMarked, TemporaryRemoved
    <3> HIDE DEF marked, without
    <3> QED BY <1>0, <3>1, <3>3, <3>4 DEF CachedTyped
  <2> QED BY <1>5, <1>7, <2>1, <2>2, <2>3, ChatStays DEF StreamFailed, PageTypes
<1> QED BY <1>2, <1>3, <1>4, <1>6, <1>7 DEF StreamStep

LEMMA QueryTypesStep ==
  ASSUME PageTypes, Serving, QueryStep
  PROVE  PageTypes'
<1>0. /\ page \in PageState /\ page.streaming = call.open /\ page.streamingId <= page.ids
      /\ seen \in Seen /\ fetches \in [Sessions -> FetchState] /\ page.workspace \in PageWorkspaces
      /\ cached \in [Sessions -> Seq(Message) \cup {NoData}]
  BY DEF PageTypes, PageTyped, PageState, SeenTyped, FetchesTyped, CachedTyped
<1>1. CASE SessionCreated
  <2>1. creating.session \in Sessions /\ call' = call /\ page' = Selected(page, creating.session)
    BY <1>1, SomeSession DEF SessionCreated
  <2>2. PageTyped'
    BY <1>0, <2>1, SelectedPage DEF PageTyped
  <2>3. ChangesTyped'
    BY <1>1, BlankChat DEF SessionCreated, ChangesTyped, NoChange, PageTypes
  <2>4. fetches' = fetches \/ fetches' = Mounted(fetches, creating.session, page.workspace)
    BY <1>1 DEF SessionCreated
  <2>5. FetchesTyped'
    BY <1>0, <2>1, <2>4, MountedFetches DEF FetchesTyped
  <2>6. SeenTyped'
    BY <1>0, <1>1 DEF SessionCreated, SeenTyped, Seen
  <2> QED BY <1>1, <2>1, <2>2, <2>3, <2>5, <2>6, ChatStays DEF SessionCreated, PageTypes
<1>2. CASE SessionDeleted
  <2>1. call' = call /\ (page' = page \/ page' = Selected(page, None))
    BY <1>2 DEF SessionDeleted
  <2>2. PageTyped'
    BY <1>0, <2>1, SelectedPage DEF PageTyped
  <2>3. ChangesTyped'
    BY <1>2, BlankChat DEF SessionDeleted, ChangesTyped, NoChange, PageTypes
  <2>4. SeenTyped'
    BY <1>0, <1>2 DEF SessionDeleted, SeenTyped, Seen
  <2> QED BY <1>2, <2>1, <2>2, <2>3, <2>4, ChatStays DEF SessionDeleted, PageTypes
<1>3. ASSUME NEW s \in Sessions, ReceiveFetch(s) PROVE PageTypes'
  <2>1. CachedTyped'
    <3>1. fetches[s].list \in Seq(Message)
      <4>1. fetches[s].list \in Seq(StoredMessage)
        BY <1>0 DEF FetchState
      <4> QED BY <4>1 DEF Message
    <3>2. cached' = cached \/ cached' = [cached EXCEPT ![s] = fetches[s].list]
      BY <1>3 DEF ReceiveFetch
    <3> QED BY <1>0, <3>1, <3>2 DEF CachedTyped
  <2>2. FetchesTyped'
    <3>1. Asked(TRUE) \in FetchState /\ NoFetch \in FetchState
      BY <1>0, AskedIsFetch, BlankChat
    <3>2. fetches' = [fetches EXCEPT ![s] = Asked(TRUE)] \/ fetches' = [fetches EXCEPT ![s] = NoFetch]
      BY <1>3 DEF ReceiveFetch
    <3> QED BY <1>0, <3>1, <3>2 DEF FetchesTyped
  <2>3. SeenTyped'
    <3>1. seen' = seen \/ (\E d \in SUBSET Sessions : seen' = [seen EXCEPT !.doubtful = d])
      BY <1>0, <1>3 DEF ReceiveFetch, Seen
    <3> QED BY <1>0, <3>1 DEF SeenTyped, Seen
  <2> QED BY <1>3, <2>1, <2>2, <2>3, ChatStays DEF ReceiveFetch, PageTypes
<1> QED BY <1>1, <1>2, <1>3 DEF QueryStep

LEMMA PageTypesStep ==
  ASSUME PageTypes, Serving, [PageNext]_pageVars
  PROVE  PageTypes'
<1>1. CASE UNCHANGED pageVars
  BY <1>1, ChatStays DEF pageVars, PageTypes, Quiet
<1> QED BY <1>1, UserTypesStep, ApiTypesStep, StreamTypesStep, QueryTypesStep DEF PageNext

-----------------------------------------------------------------------------
(* The requests.                                                           *)

LEMMA FramesAre ==
  ASSUME NEW f \in Seq(Frames)
  PROVE  DOMAIN f = 1..Len(f) /\ Len(f) \in Nat /\ (\A k \in DOMAIN f : f[k] \in Frames)
         /\ (f = <<>> <=> Len(f) = 0)
<1> QED BY EmptySeq

LEMMA FrameAppended ==
  ASSUME NEW f \in Seq(Frames), NEW a \in Frames
  PROVE  /\ Append(f, a) = f \o <<a>> /\ Append(f, a) \in Seq(Frames)
         /\ DOMAIN Append(f, a) = (DOMAIN f) \cup {Len(f) + 1} /\ Len(f) + 1 \notin DOMAIN f
         /\ \A k \in DOMAIN f : Append(f, a)[k] = f[k]
         /\ Append(f, a)[Len(f) + 1] = a
<1>1. Append(f, a) = f \o <<a>>
  BY AppendIsConcat
<1> QED BY <1>1, AppendProperties

LEMMA TwoAppended ==
  ASSUME NEW f \in Seq(Frames), NEW a \in Frames, NEW b \in Frames
  PROVE  f \o <<a, b>> = Append(Append(f, a), b)
<1> QED OBVIOUS

\* Frames that are in order stay so when one is appended that may come now.
LEMMA OrderKept ==
  ASSUME NEW f \in Seq(Frames), Ordered(f)
  PROVE  /\ Ordered(Append(f, "error"))
         /\ (\A k \in DOMAIN f : f[k] \in {"user_message", "delta"}) =>
              Ordered(Append(f, "delta")) /\ Ordered(Append(f, "assistant_message"))
         /\ f = <<>> => Ordered(Append(f, "user_message"))
<1>0. DOMAIN f = 1..Len(f) /\ Len(f) \in Nat
  BY FramesAre
<1> DEFINE n == Len(f) + 1
<1>1. ASSUME NEW a \in Frames, a # "done",
             a = "user_message" => f = <<>>,
             a # "error" => \A k \in DOMAIN f : f[k] # "assistant_message"
      PROVE  Ordered(Append(f, a))
  <2> DEFINE g == Append(f, a)
  <2>1. DOMAIN g = (DOMAIN f) \cup {n} /\ n \notin DOMAIN f /\ g[n] = a /\ \A k \in DOMAIN f : g[k] = f[k]
    BY <1>1, FrameAppended
  <2> HIDE DEF g
  <2>2. ASSUME NEW k \in DOMAIN g
        PROVE  /\ g[k] = "user_message" => k = 1
               /\ g[k] = "done" /\ k > 1 => g[k - 1] = "assistant_message"
               /\ g[k] = "assistant_message" => \A l \in DOMAIN g : l > k => g[l] \in {"done", "error"}
    <3>1. CASE k = n
      <4>1. g[k] = a /\ (a = "user_message" => n = 1)
        BY <1>1, <2>1, <3>1, FramesAre
      <4>2. \A l \in DOMAIN g : ~(l > n)
        BY <1>0, <2>1
      <4> QED BY <1>1, <3>1, <4>1, <4>2
    <3>2. CASE k # n
      <4>1. k \in DOMAIN f /\ g[k] = f[k]
        BY <2>1, <2>2, <3>2
      <4>2. k > 1 => k - 1 \in DOMAIN f
        BY <1>0, <4>1
      <4>3. \A l \in DOMAIN g : l \in DOMAIN f \/ (l = n /\ g[l] = a)
        BY <2>1
      <4>4. f[k] = "assistant_message" => a = "error"
        BY <1>1, <4>1
      <4>5. /\ f[k] = "user_message" => k = 1
            /\ f[k] = "done" /\ k > 1 => f[k - 1] = "assistant_message"
            /\ f[k] = "assistant_message" => \A l \in DOMAIN f : l > k => f[l] \in {"done", "error"}
        BY <4>1 DEF Ordered
      <4> QED BY <2>1, <4>1, <4>2, <4>3, <4>4, <4>5
    <3> QED BY <3>1, <3>2
  <2> QED BY <2>2 DEF Ordered, g
<1>2. Ordered(Append(f, "error"))
  BY <1>1 DEF Frames
<1>3. ASSUME \A k \in DOMAIN f : f[k] \in {"user_message", "delta"}
      PROVE  Ordered(Append(f, "delta")) /\ Ordered(Append(f, "assistant_message"))
  <2>1. \A k \in DOMAIN f : f[k] # "assistant_message"
    BY <1>3
  <2> QED BY <1>1, <2>1 DEF Frames
<1>4. ASSUME f = <<>> PROVE Ordered(Append(f, "user_message"))
  <2>1. \A k \in DOMAIN f : f[k] # "assistant_message"
    BY <1>4
  <2> QED BY <1>1, <1>4, <2>1 DEF Frames
<1> QED BY <1>2, <1>3, <1>4

\* The last two frames of an answer.
LEMMA OrderEnds ==
  ASSUME NEW f \in Seq(Frames), Ordered(f), NEW b \in {"done", "error"},
         \A k \in DOMAIN f : f[k] \in {"user_message", "delta"}
  PROVE  Ordered(f \o <<"assistant_message", b>>)
<1> DEFINE g == Append(f, "assistant_message")
           n == Len(g) + 1
           h == Append(g, b)
<1>1. g \in Seq(Frames) /\ Ordered(g) /\ b \in Frames /\ h = f \o <<"assistant_message", b>>
  BY OrderKept, FrameAppended, TwoAppended DEF Frames
<1>2. DOMAIN g = 1..Len(g) /\ Len(g) \in Nat /\ Len(g) = Len(f) + 1 /\ g[Len(f) + 1] = "assistant_message"
      /\ \A k \in DOMAIN f : g[k] = f[k]
  BY <1>1, FramesAre, FrameAppended, AppendProperties DEF Frames
<1>3. DOMAIN h = (DOMAIN g) \cup {n} /\ n \notin DOMAIN g /\ h[n] = b /\ \A k \in DOMAIN g : h[k] = g[k]
  BY <1>1, FrameAppended
<1>4. DOMAIN f = 1..Len(f) /\ Len(f) \in Nat
  BY FramesAre
<1> HIDE DEF g, h, n
<1>5. ASSUME NEW k \in DOMAIN h
      PROVE  /\ h[k] = "user_message" => k = 1
             /\ h[k] = "done" /\ k > 1 => h[k - 1] = "assistant_message"
             /\ h[k] = "assistant_message" => \A l \in DOMAIN h : l > k => h[l] \in {"done", "error"}
  <2>1. CASE k = n
    <3>1. h[k - 1] = "assistant_message" /\ h[k] = b
      BY <1>2, <1>3, <1>4, <2>1 DEF n
    <3> QED BY <3>1
  <2>2. CASE k # n
    <3>1. k \in DOMAIN g /\ h[k] = g[k]
      BY <1>3, <1>5, <2>2
    <3>2. k > 1 => k - 1 \in DOMAIN g
      BY <1>2, <3>1
    <3>3. \A l \in DOMAIN h : l \in DOMAIN g \/ (l = n /\ h[l] = b)
      BY <1>3
    <3>4. /\ g[k] = "user_message" => k = 1
          /\ g[k] = "done" /\ k > 1 => g[k - 1] = "assistant_message"
          /\ g[k] = "assistant_message" => \A l \in DOMAIN g : l > k => g[l] \in {"done", "error"}
      BY <1>1, <3>1 DEF Ordered
    <3> QED BY <1>3, <3>1, <3>2, <3>3, <3>4
  <2> QED BY <2>1, <2>2
<1>6. Ordered(h)
  BY <1>5 DEF Ordered
<1> QED BY <1>1, <1>6

\* What is left after the first frame.
LEMMA OrderedTail ==
  ASSUME NEW f \in Seq(Frames), Ordered(f), f # <<>>
  PROVE  /\ Tail(f) \in Seq(Frames) /\ Ordered(Tail(f))
         /\ \A k \in DOMAIN Tail(f) : k + 1 \in DOMAIN f /\ k + 1 > 1 /\ Tail(f)[k] = f[k + 1]
                                      /\ f[k + 1] # "user_message"
<1> DEFINE t == Tail(f)
<1>1. t \in Seq(Frames) /\ Len(t) = Len(f) - 1 /\ \A k \in 1..Len(t) : t[k] = f[k + 1]
  BY HeadTailProperties
<1>2. DOMAIN f = 1..Len(f) /\ Len(f) \in Nat /\ Len(f) # 0
  BY FramesAre
<1>3. DOMAIN t = 1..Len(t)
  BY <1>1, FramesAre
<1> HIDE DEF t
<1>4. \A k \in DOMAIN t : k + 1 \in DOMAIN f /\ k + 1 > 1 /\ t[k] = f[k + 1] /\ k \in Nat
  BY <1>1, <1>2, <1>3
<1>5. \A k \in DOMAIN t : f[k + 1] # "user_message"
  BY <1>2, <1>4 DEF Ordered
<1>6. ASSUME NEW k \in DOMAIN t
      PROVE  /\ t[k] # "user_message"
             /\ t[k] = "done" /\ k > 1 => t[k - 1] = "assistant_message"
             /\ t[k] = "assistant_message" => \A l \in DOMAIN t : l > k => t[l] \in {"done", "error"}
  <2>1. k > 1 => k - 1 \in DOMAIN t /\ (k - 1) + 1 = k /\ (k + 1) - 1 = k
    BY <1>1, <1>2, <1>3, <1>4
  <2>2. k > 1 => t[k - 1] = f[k]
    BY <1>4, <2>1
  <2>3. t[k] = "done" /\ k > 1 => f[k] = "assistant_message"
    <3>1. t[k] = "done" => f[k + 1] = "done" /\ k + 1 \in DOMAIN f /\ k + 1 > 1
      BY <1>4
    <3>2. t[k] = "done" => f[(k + 1) - 1] = "assistant_message"
      BY <3>1 DEF Ordered
    <3> QED BY <2>1, <3>2
  <2>4. t[k] = "assistant_message" => \A l \in DOMAIN t : l > k => t[l] \in {"done", "error"}
    <3>1. t[k] = "assistant_message" => \A l \in DOMAIN f : l > k + 1 => f[l] \in {"done", "error"}
      BY <1>4 DEF Ordered
    <3>2. \A l \in DOMAIN t : l > k => l + 1 > k + 1
      BY <1>4
    <3> QED BY <1>4, <3>1, <3>2
  <2> QED BY <1>4, <1>5, <2>2, <2>3, <2>4
<1>7. Ordered(t)
  BY <1>6 DEF Ordered
<1> QED BY <1>1, <1>4, <1>5, <1>7 DEF t

\* Serving is kept when a request goes on in order, and the call that hears it with it.
LEMMA RequestGoesOn ==
  ASSUME PageTypes, Serving, NEW n \in Prompted, NEW q, serving' = [serving EXCEPT ![n] = q],
         serving[n].pc # "none", q.pc # "none", q.session = serving[n].session,
         serving[n].left => q.left, InOrder(q),
         call'.open = call.open, call'.n = call.n, call'.session = call.session,
         call.open /\ call.n = n =>
           /\ Counting(q, call'.taken)
           /\ q.frames # <<>> /\ q.frames[1] = "done" => page'.streamingId = 0,
         call.open /\ call.n # n => call'.taken = call.taken /\ page'.streamingId = page.streamingId
  PROVE  Serving'
<1>0. serving \in [Prompted -> RequestState] /\ serving'[n] = q
      /\ \A k \in Prompted : k # n => serving'[k] = serving[k]
  BY DEF PageTypes, RequestsTyped
<1>1. ASSUME NEW k \in Prompted PROVE Submitting(k)' /\ InOrder(serving'[k])
  <2>1. Submitting(k) /\ InOrder(serving[k])
    BY DEF Serving
  <2>2. \A m \in Prompted : serving[m].pc # "none" => serving'[m].pc # "none"
    BY <1>0
  <2>3. \A m \in 1..k : m \in Prompted
    BY PageConstants DEF Prompted
  <2>4. CASE k = n
    BY <1>0, <2>1, <2>2, <2>3, <2>4 DEF Submitting
  <2>5. CASE k # n
    BY <1>0, <2>1, <2>2, <2>3, <2>5 DEF Submitting
  <2> QED BY <2>4, <2>5
<1>2. Heard'
  <2> SUFFICES ASSUME call'.open
               PROVE  /\ serving'[call'.n].pc # "none" /\ serving'[call'.n].session = call'.session
                      /\ Counting(serving'[call'.n], call'.taken)
                      /\ serving'[call'.n].frames # <<>> /\ serving'[call'.n].frames[1] = "done" =>
                           page'.streamingId = 0
    BY DEF Heard, Counting
  <2>1. /\ call.n \in Prompted /\ serving[call.n].pc # "none" /\ serving[call.n].session = call.session
        /\ Counting(serving[call.n], call.taken)
        /\ serving[call.n].frames # <<>> /\ serving[call.n].frames[1] = "done" => page.streamingId = 0
    BY SomeSession DEF Serving, Heard
  <2>2. CASE call.n = n
    BY <1>0, <2>1, <2>2
  <2>3. CASE call.n # n
    BY <1>0, <2>1, <2>3
  <2> QED BY <2>2, <2>3
<1> QED BY <1>1, <1>2 DEF Serving

\* Nothing is sent, or the request is left alone.
LEMMA ServingStays ==
  ASSUME Serving, serving' = serving, call'.open = call.open, call'.n = call.n,
         call'.session = call.session, call'.taken = call.taken,
         page'.streamingId \in {0, page.streamingId}
  PROVE  Serving'
<1>1. Heard'
  BY DEF Serving, Heard, Counting
<1>2. \A n \in Prompted : Submitting(n)' /\ InOrder(serving[n])
  BY DEF Serving, Submitting
<1> QED BY <1>1, <1>2 DEF Serving, InOrder, Ordered

LEMMA ServingInit == PageInit => Serving
<1> SUFFICES ASSUME PageInit PROVE Serving
  OBVIOUS
<1>1. call.open = FALSE /\ \A n \in Prompted : serving[n] = NoRequest
  BY DEF PageInit, NoCall
<1>2. NoRequest.pc = "none" /\ NoRequest.frames = <<>> /\ DOMAIN <<>> = {}
  BY DEF NoRequest
<1>3. InOrder(NoRequest)
  BY <1>2 DEF InOrder, Ordered
<1> QED BY <1>1, <1>2, <1>3 DEF Serving, Heard, Submitting

\* The request a prompt is submitted with.
LEMMA ServingSubmitted ==
  ASSUME PageTypes, Serving, SubmitPrompt
  PROVE  Serving'
<1> DEFINE n == Cardinality(Submitted) + 1
           q == [NoRequest EXCEPT !.pc = "asked", !.session = page.selected, !.workspace = page.workspace]
<1>1. Composer /\ Submitted # Prompted
  BY DEF SubmitPrompt
<1>2. n \in Prompted /\ serving[n].pc = "none" /\ \A m \in 1..Cardinality(Submitted) : serving[m].pc # "none"
  BY <1>1, NextPrompt
<1>3. call' = [NoCall EXCEPT !.open = TRUE, !.n = n, !.session = page.selected, !.prompt = page.shown]
      /\ serving' = [serving EXCEPT ![n] = q]
  BY DEF SubmitPrompt
<1>4. page.selected # None /\ ~call.open
  BY <1>1 DEF Composer, PageTypes, PageTyped
<1>5. \A m \in 1..n : m = n \/ m \in 1..Cardinality(Submitted)
  <2>1. Cardinality(Submitted) \in Nat
    BY <1>1, NextPrompt
  <2> QED BY <2>1
<1> HIDE DEF n
<1>6. q.pc = "asked" /\ q.session = page.selected /\ q.frames = <<>> /\ q.pieces = 0 /\ DOMAIN <<>> = {}
  BY DEF NoRequest
<1>7. call'.open = TRUE /\ call'.n = n /\ call'.session = page.selected /\ call'.taken = 0
  BY <1>3 DEF NoCall
<1> HIDE DEF q
<1>8. serving \in [Prompted -> RequestState] /\ serving'[n] = q
      /\ \A k \in Prompted : k # n => serving'[k] = serving[k]
  BY <1>2, <1>3 DEF PageTypes, RequestsTyped
<1>9. InOrder(q) /\ Counting(q, 0)
  BY <1>6 DEF InOrder, Ordered, Counting
<1>10. Heard'
  BY <1>6, <1>7, <1>8, <1>9 DEF Heard, Counting
<1>11. ASSUME NEW k \in Prompted PROVE Submitting(k)' /\ InOrder(serving'[k])
  <2>1. Submitting(k) /\ InOrder(serving[k])
    BY DEF Serving
  <2>2. \A m \in 1..k : m \in Prompted
    BY PageConstants DEF Prompted
  <2>3. CASE k = n
    <3>1. \A m \in 1..n : serving'[m].pc # "none"
      BY <1>2, <1>5, <1>6, <1>8, <2>2, <2>3
    <3> QED BY <1>4, <1>6, <1>7, <1>8, <1>9, <2>3, <3>1 DEF Submitting
  <2>4. CASE k # n
    <3>1. serving'[k] = serving[k]
      BY <1>8, <2>4
    <3>2. serving[k].pc # "none" => serving[k].left
      BY <1>4, <2>1 DEF Submitting
    <3>3. serving[k].pc # "none" => \A m \in 1..k : serving'[m].pc # "none"
      BY <1>6, <1>8, <2>1, <2>2 DEF Submitting
    <3> QED BY <2>1, <3>1, <3>2, <3>3 DEF Submitting
  <2> QED BY <2>3, <2>4
<1> QED BY <1>10, <1>11 DEF Serving

\* A call that has ended has left its request.
LEMMA ServingEnds ==
  ASSUME PageTypes, Serving, call.open, call' = NoCall,
         serving' = [serving EXCEPT ![call.n].frames = <<>>, ![call.n].left = TRUE]
  PROVE  Serving'
<1> DEFINE q == [serving[call.n] EXCEPT !.frames = <<>>, !.left = TRUE]
<1>0. serving \in [Prompted -> RequestState] /\ call.n \in Prompted
  BY SomeSession DEF PageTypes, RequestsTyped
<1>1. serving' = [serving EXCEPT ![call.n] = q]
  BY <1>0
<1>2. q.frames = <<>> /\ q.left = TRUE /\ q.pc = serving[call.n].pc /\ q.session = serving[call.n].session
  <2>1. serving[call.n] \in RequestState
    BY <1>0
  <2> QED BY <2>1 DEF RequestState
<1> HIDE DEF q
<1>3. serving'[call.n] = q /\ \A k \in Prompted : k # call.n => serving'[k] = serving[k]
  BY <1>0, <1>1
<1>4. serving[call.n].pc # "none"
  BY DEF Serving, Heard
<1>5. DOMAIN <<>> = {} /\ call'.open = FALSE
  BY DEF NoCall
<1>6. InOrder(q)
  BY <1>2, <1>5 DEF InOrder, Ordered
<1>7. ASSUME NEW k \in Prompted PROVE Submitting(k)' /\ InOrder(serving'[k])
  <2>1. Submitting(k) /\ InOrder(serving[k])
    BY DEF Serving
  <2>2. \A m \in 1..k : m \in Prompted
    BY PageConstants DEF Prompted
  <2>3. \A m \in Prompted : serving[m].pc # "none" => serving'[m].pc # "none"
    BY <1>2, <1>3
  <2>4. CASE k = call.n
    BY <1>2, <1>3, <1>4, <1>6, <2>1, <2>2, <2>3, <2>4 DEF Submitting
  <2>5. CASE k # call.n
    BY <1>3, <2>1, <2>2, <2>3, <2>5 DEF Submitting
  <2> QED BY <2>4, <2>5
<1> QED BY <1>5, <1>7 DEF Serving, Heard

\* Frames that are appended have no piece the call does not know of.
LEMMA CountingKept ==
  ASSUME NEW q \in RequestState, NEW r, NEW taken \in Nat, Counting(q, taken), NEW a \in Frames \ {"delta"},
         r.pieces = q.pieces, r.frames = Append(q.frames, a)
  PROVE  Counting(r, taken)
<1>1. q.frames \in Seq(Frames) /\ q.pieces \in Nat
  BY PageConstants DEF RequestState
<1>2. /\ DOMAIN r.frames = (DOMAIN q.frames) \cup {Len(q.frames) + 1}
      /\ \A k \in DOMAIN q.frames : r.frames[k] = q.frames[k]
      /\ r.frames[Len(q.frames) + 1] = a
      /\ \A k \in DOMAIN q.frames : 1 \in DOMAIN q.frames
  BY <1>1, FrameAppended, FramesAre
<1>3. taken <= q.pieces
      /\ \A k \in DOMAIN q.frames : q.frames[k] = "delta" =>
           taken + k <= q.pieces + (IF q.frames[1] = "user_message" THEN 1 ELSE 0)
  BY DEF Counting
<1>4. \A k \in DOMAIN r.frames : r.frames[k] = "delta" => k \in DOMAIN q.frames /\ q.frames[k] = "delta"
  BY <1>2
<1>5. \A k \in DOMAIN r.frames : r.frames[k] = "delta" => r.frames[1] = q.frames[1]
  BY <1>2, <1>4
<1> QED BY <1>3, <1>4, <1>5 DEF Counting

LEMMA ApiServingStep ==
  ASSUME PageTypes, Serving, ApiStep
  PROVE  Serving'
<1>0. serving \in [Prompted -> RequestState] /\ RequestsTyped /\ call.taken \in Nat
  BY DEF PageTypes, RequestsTyped, CallTyped, CallState
<1>00. \A n \in Prompted :
         /\ serving[n].frames \in Seq(Frames) /\ serving[n].pieces \in Nat /\ InOrder(serving[n])
         /\ Ordered(serving[n].frames) /\ DOMAIN serving[n].frames = 1..Len(serving[n].frames)
         /\ Len(serving[n].frames) \in Nat
         /\ call.open /\ call.n = n => Counting(serving[n], call.taken) /\ serving[n].pc # "none"
  BY <1>0, RequestFrames, FramesAre, PageConstants DEF Serving, Heard, InOrder
<1>1. ASSUME NEW s \in Sessions, AnswerFetch(s) \/ LoseFetch(s) PROVE Serving'
  BY <1>1, ServingStays DEF AnswerFetch, LoseFetch
<1>2. CASE Change
  BY <1>2, ServingStays DEF Change
\* What the first frame is does not change unless it is the first that comes.
<1>3. ASSUME NEW n \in Prompted, call.open, call.n = n, NEW f \in Seq(Frames),
             NEW a \in Frames, a # "done", f = Append(serving[n].frames, a)
      PROVE  f # <<>> /\ f[1] = "done" => page.streamingId = 0
  <2>1. /\ DOMAIN f = (DOMAIN serving[n].frames) \cup {Len(serving[n].frames) + 1}
        /\ \A k \in DOMAIN serving[n].frames : f[k] = serving[n].frames[k]
        /\ f[Len(serving[n].frames) + 1] = a
    BY <1>00, <1>3, FrameAppended
  <2>2. serving[n].frames # <<>> /\ serving[n].frames[1] = "done" => page.streamingId = 0
    BY <1>3 DEF Serving, Heard
  <2>3. CASE serving[n].frames = <<>>
    <3>1. Len(serving[n].frames) = 0
      BY <2>3
    <3> QED BY <1>3, <2>1, <3>1
  <2>4. CASE serving[n].frames # <<>>
    <3>1. 1 \in DOMAIN serving[n].frames
      BY <1>00, <2>4, FramesAre
    <3> QED BY <2>1, <2>2, <2>4, <3>1
  <2> QED BY <2>3, <2>4
<1>4. ASSUME NEW n \in Prompted, StoreUserMessage(n) PROVE Serving'
  <2> DEFINE f == Written(n, "user_message")
             q == [serving[n] EXCEPT !.pc = "started", !.frames = f]
  <2>1. serving' = [serving EXCEPT ![n] = q] /\ serving[n].pc = "asked" /\ UNCHANGED <<page, call>>
    BY <1>0, <1>4 DEF StoreUserMessage
  <2>2. q.pc = "started" /\ q.frames = f /\ q.session = serving[n].session /\ q.left = serving[n].left
        /\ q.pieces = serving[n].pieces
    BY <1>0 DEF RequestState
  <2>3. CASE serving[n].left
    <3>1. f = serving[n].frames
      BY <2>3 DEF Written
    <3> HIDE DEF q, f
    <3>2. InOrder(q)
      <4>1. \A k \in DOMAIN f : f[k] = "error"
        BY <1>00, <2>1, <3>1 DEF InOrder
      <4> QED BY <1>00, <2>2, <2>3, <3>1, <4>1 DEF InOrder
    <3>3. call.open /\ call.n = n => Counting(q, call.taken)
                                     /\ (q.frames # <<>> /\ q.frames[1] = "done" => page.streamingId = 0)
      BY <1>00, <2>2, <3>1 DEF Counting, Serving, Heard
    <3> QED BY <2>1, <2>2, <3>2, <3>3, RequestGoesOn
  <2>4. CASE ~serving[n].left
    <3>1. serving[n].frames = <<>> /\ f = Append(serving[n].frames, "user_message")
      BY <1>00, <2>1, <2>4 DEF Written, InOrder
    <3> HIDE DEF q, f
    <3>2. f \in Seq(Frames) /\ Ordered(f)
          /\ DOMAIN f = (DOMAIN serving[n].frames) \cup {Len(serving[n].frames) + 1}
          /\ f[Len(serving[n].frames) + 1] = "user_message"
      BY <1>00, <3>1, FrameAppended, OrderKept DEF Frames
    <3>3. \A k \in DOMAIN f : f[k] = "user_message"
      BY <3>1, <3>2
    <3>4. InOrder(q)
      BY <2>2, <2>4, <3>2, <3>3 DEF InOrder
    <3>5. call.open /\ call.n = n => Counting(q, call.taken)
      BY <1>00, <2>2, <3>3 DEF Counting
    <3>6. call.open /\ call.n = n => (f # <<>> /\ f[1] = "done" => page.streamingId = 0)
      BY <1>3, <3>1, <3>2 DEF Frames
    <3> QED BY <2>1, <2>2, <3>4, <3>5, <3>6, RequestGoesOn
  <2> QED BY <2>3, <2>4
<1>5. ASSUME NEW n \in Prompted, SendDelta(n) PROVE Serving'
  <2> DEFINE f == Append(serving[n].frames, "delta")
             q == [serving[n] EXCEPT !.pieces = @ + 1, !.frames = f]
  <2>1. serving' = [serving EXCEPT ![n] = q] /\ serving[n].pc = "started" /\ ~serving[n].left
        /\ UNCHANGED <<page, call>>
    BY <1>0, <1>5 DEF SendDelta, Written
  <2>2. q.pc = "started" /\ q.frames = f /\ q.session = serving[n].session /\ q.left = serving[n].left
        /\ q.pieces = serving[n].pieces + 1
    <3>1. serving[n] \in RequestState
      BY <1>0
    <3>2. q.pc = serving[n].pc /\ q.frames = f /\ q.session = serving[n].session
          /\ q.pieces = serving[n].pieces + 1
      BY <3>1 DEF RequestState
    <3>3. q.left = serving[n].left
      BY <3>1 DEF RequestState
    <3> QED BY <2>1, <3>2, <3>3
  <2>3. \A k \in DOMAIN serving[n].frames : serving[n].frames[k] \in {"user_message", "delta"}
    BY <1>00, <2>1 DEF InOrder
  <2>4. /\ f \in Seq(Frames) /\ DOMAIN f = (DOMAIN serving[n].frames) \cup {Len(serving[n].frames) + 1}
        /\ \A k \in DOMAIN serving[n].frames : f[k] = serving[n].frames[k]
        /\ f[Len(serving[n].frames) + 1] = "delta" /\ Ordered(f)
    BY <1>00, <2>3, FrameAppended, OrderKept DEF Frames
  <2>5. call.open /\ call.n = n => (f # <<>> /\ f[1] = "done" => page.streamingId = 0)
    BY <1>3, <2>4 DEF Frames
  <2> HIDE DEF q, f
  <2>6. InOrder(q)
    BY <2>2, <2>1, <2>3, <2>4 DEF InOrder
  <2>7. ASSUME call.open, call.n = n PROVE Counting(q, call.taken)
    <3> DEFINE g == serving[n].frames
               l == Len(g)
               bonus == IF g[1] = "user_message" THEN 1 ELSE 0
    <3>1. call.taken <= serving[n].pieces
          /\ \A k \in DOMAIN g : g[k] = "delta" => call.taken + k <= serving[n].pieces + bonus
      BY <1>00, <2>7 DEF Counting
    <3>2. DOMAIN g = 1..l /\ l \in Nat /\ serving[n].pieces \in Nat /\ call.taken \in Nat
      BY <1>0, <1>00
    <3>3. CASE l = 0
      <4>1. DOMAIN f = {1} /\ f[1] = "delta"
        BY <2>4, <3>2, <3>3
      <4> QED BY <2>2, <3>1, <3>2, <4>1 DEF Counting
    <3>4. CASE l # 0
      <4>1. 1 \in DOMAIN g /\ l \in DOMAIN g /\ f[1] = g[1]
        BY <2>4, <3>2, <3>4
      <4>2. call.taken + l <= serving[n].pieces + bonus
        <5>1. CASE g[l] = "delta"
          BY <3>1, <4>1, <5>1
        <5>2. CASE g[l] = "user_message"
          <6>1. l = 1 /\ bonus = 1
            BY <1>00, <4>1, <5>2 DEF Ordered
          <6> QED BY <3>1, <3>2, <6>1
        <5> QED BY <2>3, <4>1, <5>1, <5>2
      <4> HIDE DEF l
      <4>3. bonus \in Nat /\ (bonus = IF f[1] = "user_message" THEN 1 ELSE 0)
        BY <4>1
      <4> HIDE DEF bonus
      <4>4. ASSUME NEW k \in DOMAIN f, f[k] = "delta"
            PROVE  call.taken + k <= (serving[n].pieces + 1) + bonus
        <5>1. CASE k \in DOMAIN g
          BY <2>4, <3>1, <3>2, <4>3, <4>4, <5>1
        <5>2. CASE k = l + 1
          BY <3>2, <4>2, <4>3, <5>2
        <5> QED BY <2>4, <5>1, <5>2 DEF l
      <4>5. call.taken <= serving[n].pieces + 1
        BY <3>1, <3>2
      <4> QED BY <2>2, <4>3, <4>4, <4>5 DEF Counting
    <3> QED BY <3>3, <3>4
  <2> QED BY <2>1, <2>2, <2>5, <2>6, <2>7, RequestGoesOn
\* The request ends: what has not been told any more is not told.
<1>6. ASSUME NEW n \in Prompted, serving[n].pc \in {"asked", "started"}, UNCHANGED <<page, call>>, NEW f,
             serving' = [serving EXCEPT ![n].pc = "over", ![n].frames = f],
             IF serving[n].left THEN f = serving[n].frames
             ELSE \/ f = serving[n].frames \o <<"error">>
                  \/ \E b \in {"done", "error"} : f = serving[n].frames \o <<"assistant_message", b>>
      PROVE  Serving'
  <2> DEFINE g == serving[n].frames
             q == [serving[n] EXCEPT !.pc = "over", !.frames = f]
  <2>1. serving' = [serving EXCEPT ![n] = q]
    BY <1>0, <1>6
  <2>2. q.pc = "over" /\ q.frames = f /\ q.session = serving[n].session /\ q.left = serving[n].left
        /\ q.pieces = serving[n].pieces
    BY <1>0 DEF RequestState
  <2> HIDE DEF q
  <2>3. CASE serving[n].left
    <3>1. f = serving[n].frames
      BY <1>6, <2>3
    <3>2. InOrder(q)
      BY <1>00, <2>2, <3>1 DEF InOrder
    <3>3. call.open /\ call.n = n => Counting(q, call.taken)
                                     /\ (q.frames # <<>> /\ q.frames[1] = "done" => page.streamingId = 0)
      BY <1>00, <2>2, <3>1 DEF Counting, Serving, Heard
    <3> QED BY <1>6, <2>1, <2>2, <3>2, <3>3, RequestGoesOn
  <2>4. CASE ~serving[n].left /\ f = g \o <<"error">>
    <3>1. f = Append(g, "error") /\ f \in Seq(Frames)
      BY <1>00, <2>4, FrameAppended DEF Frames
    <3>2. Ordered(f)
      BY <1>00, <3>1, OrderKept
    <3>3. InOrder(q)
      BY <2>2, <3>2 DEF InOrder
    <3>4. call.open /\ call.n = n => Counting(q, call.taken)
      BY <1>0, <1>00, <2>2, <3>1, CountingKept DEF Frames
    <3>5. call.open /\ call.n = n => (f # <<>> /\ f[1] = "done" => page.streamingId = 0)
      BY <1>3, <3>1 DEF Frames
    <3> QED BY <1>6, <2>1, <2>2, <3>3, <3>4, <3>5, RequestGoesOn
  <2>5. ASSUME NEW b \in {"done", "error"}, ~serving[n].left, f = g \o <<"assistant_message", b>> PROVE Serving'
    <3>1. \A k \in DOMAIN g : g[k] \in {"user_message", "delta"}
      <4>1. CASE serving[n].pc = "asked"
        BY <1>00, <2>5, <4>1 DEF InOrder
      <4>2. CASE serving[n].pc = "started"
        BY <1>00, <2>5, <4>2 DEF InOrder
      <4> QED BY <1>6, <4>1, <4>2
    <3>2. Ordered(f)
      BY <1>00, <2>5, <3>1, OrderEnds
    <3> DEFINE h == Append(g, "assistant_message")
    <3>0. g \in Seq(Frames) /\ b \in Frames /\ "assistant_message" \in Frames
      BY <1>00, <2>5 DEF Frames
    <3>00. f = Append(h, b)
      BY <2>5, <3>0, TwoAppended
    <3>3. h \in Seq(Frames) /\ f = Append(h, b) /\ b \in Frames
      BY <3>0, <3>00, FrameAppended
    <3>4. InOrder(q)
      BY <2>2, <3>2 DEF InOrder
    <3>5. ASSUME call.open, call.n = n PROVE Counting(q, call.taken)
      <4> DEFINE r == [serving[n] EXCEPT !.frames = h]
      <4>1. r.frames = h /\ r.pieces = serving[n].pieces /\ r \in RequestState
        BY <1>0, <3>3 DEF RequestState
      <4> HIDE DEF r
      <4>2. Counting(r, call.taken)
        BY <1>0, <1>00, <3>5, <4>1, CountingKept DEF Frames
      <4> HIDE DEF h
      <4> QED BY <1>0, <2>2, <3>3, <4>1, <4>2, CountingKept DEF Frames
    <3>6. ASSUME call.open, call.n = n, f # <<>>, f[1] = "done" PROVE page.streamingId = 0
      <4>1. h[1] = f[1] /\ h # <<>>
        <5>1. 1 \in DOMAIN h
          BY <1>00, <3>3, FrameAppended, FramesAre DEF Frames
        <5> HIDE DEF h
        <5>2. f[1] = h[1] /\ h # <<>>
          BY <3>3, <5>1, FrameAppended, FramesAre
        <5> QED BY <5>2
      <4> QED BY <1>3, <3>3, <3>6, <4>1 DEF Frames
    <3> QED BY <1>6, <2>1, <2>2, <3>4, <3>5, <3>6, RequestGoesOn
  <2> QED BY <1>6, <2>3, <2>4, <2>5
<1>7. ASSUME NEW n \in Prompted, Finish(n) PROVE Serving'
  <2> DEFINE f == IF serving[n].left THEN serving[n].frames
                  ELSE serving[n].frames \o <<"assistant_message", "done">>
  <2>1. serving' = [serving EXCEPT ![n].pc = "over", ![n].frames = f]
    BY <1>0, <1>7 DEF Finish, RequestState
  <2>2. IF serving[n].left THEN f = serving[n].frames
        ELSE \E b \in {"done", "error"} : f = serving[n].frames \o <<"assistant_message", b>>
    OBVIOUS
  <2> HIDE DEF f
  <2> QED BY <1>6, <1>7, <2>1, <2>2 DEF Finish
<1>8. ASSUME NEW n \in Prompted, GiveUp(n) PROVE Serving'
  <2> DEFINE partial == serving[n].pieces > 0 /\ Exists(serving[n].session)
             f == IF serving[n].left THEN serving[n].frames
                  ELSE serving[n].frames \o (IF partial THEN <<"assistant_message", "error">> ELSE <<"error">>)
  <2>1. serving' = [serving EXCEPT ![n].pc = "over", ![n].frames = f] /\ UNCHANGED <<page, call>>
        /\ serving[n].pc \in {"asked", "started"}
    BY <1>0, <1>8 DEF GiveUp, RequestState
  <2> HIDE DEF partial
  <2>2. IF serving[n].left THEN f = serving[n].frames
        ELSE \/ f = serving[n].frames \o <<"error">>
             \/ \E b \in {"done", "error"} : f = serving[n].frames \o <<"assistant_message", b>>
    OBVIOUS
  <2> HIDE DEF f
  <2> QED BY <1>6, <2>1, <2>2
<1>9. ASSUME NEW n \in Prompted, BreakStream(n) PROVE Serving'
  <2> DEFINE g == serving[n].frames
             f == Append(g, "error")
             q == [serving[n] EXCEPT !.left = TRUE, !.frames = f]
  <2>1. serving' = [serving EXCEPT ![n] = q] /\ call.open /\ call.n = n /\ ~serving[n].left
        /\ UNCHANGED <<page, call>>
    BY <1>0, <1>9 DEF BreakStream
  <2>2. q.pc = serving[n].pc /\ q.frames = f /\ q.session = serving[n].session
        /\ q.pieces = serving[n].pieces
    BY <1>0 DEF RequestState
  <2>3. q.left = TRUE
    BY <1>0 DEF RequestState
  <2>4. /\ f \in Seq(Frames) /\ DOMAIN f = (DOMAIN g) \cup {Len(g) + 1}
        /\ \A k \in DOMAIN g : f[k] = g[k]
        /\ f[Len(g) + 1] = "error" /\ Ordered(f)
    BY <1>00, FrameAppended, OrderKept DEF Frames
  <2>5. f # <<>> /\ f[1] = "done" => page.streamingId = 0
    BY <1>3, <2>1, <2>4 DEF Frames
  <2>6. q.frames = Append(serving[n].frames, "error")
    BY <2>2
  <2> HIDE DEF q, f
  <2>8. Counting(q, call.taken)
    BY <1>0, <1>00, <2>1, <2>2, <2>6, CountingKept DEF Frames
  <2>7. InOrder(q)
    <3>1. InOrder(serving[n])
      BY <1>00
    <3> QED BY <2>1, <2>2, <2>3, <2>4, <3>1 DEF InOrder
  <2> QED BY <1>00, <2>1, <2>2, <2>3, <2>5, <2>7, <2>8, RequestGoesOn
<1> QED BY <1>1, <1>2, <1>4, <1>5, <1>7, <1>8, <1>9 DEF ApiStep

\* What is left to hear after the first frame.
LEMMA TakenInOrder ==
  ASSUME PageTypes, Serving, NEW a, Arrives(a), Taken
  PROVE  LET q == [serving[call.n] EXCEPT !.frames = Tail(serving[call.n].frames)] IN
         /\ serving' = [serving EXCEPT ![call.n] = q] /\ InOrder(q)
         /\ q.pc = serving[call.n].pc /\ q.session = serving[call.n].session
         /\ q.left = serving[call.n].left /\ q.pieces = serving[call.n].pieces
         /\ q.frames = Tail(serving[call.n].frames)
         /\ \A k \in DOMAIN q.frames :
              /\ q.frames[k] = serving[call.n].frames[k + 1] /\ k + 1 \in DOMAIN serving[call.n].frames
              /\ q.frames[k] # "user_message" /\ k \in Nat \ {0}
         /\ q.frames # <<>> => 1 \in DOMAIN q.frames
<1> DEFINE f == serving[call.n].frames
           q == [serving[call.n] EXCEPT !.frames = Tail(f)]
<1>1. call.open /\ call.n \in Prompted /\ f # <<>>
  BY ArrivedFrame
<1>2. serving \in [Prompted -> RequestState] /\ f \in Seq(Frames) /\ InOrder(serving[call.n]) /\ Ordered(f)
  BY <1>1, RequestFrames DEF PageTypes, RequestsTyped, Serving, InOrder
<1>3. serving' = [serving EXCEPT ![call.n] = q]
  BY <1>1, <1>2 DEF Taken
<1>4. q.frames = Tail(f) /\ q.pc = serving[call.n].pc /\ q.session = serving[call.n].session
      /\ q.left = serving[call.n].left /\ q.pieces = serving[call.n].pieces
  BY <1>1, <1>2 DEF RequestState
<1>5. /\ Tail(f) \in Seq(Frames) /\ Ordered(Tail(f))
      /\ \A k \in DOMAIN Tail(f) : k + 1 \in DOMAIN f /\ Tail(f)[k] = f[k + 1] /\ f[k + 1] # "user_message"
  BY <1>1, <1>2, OrderedTail
<1>6. (\A k \in DOMAIN Tail(f) : k \in Nat \ {0}) /\ (Tail(f) # <<>> => 1 \in DOMAIN Tail(f))
  <2> DEFINE t == Tail(f)
  <2>1. t \in Seq(Frames)
    BY <1>5
  <2> HIDE DEF t
  <2> QED BY <2>1, FramesAre DEF t
<1>7. f # <<>> /\ serving[call.n].pc = "asked" => serving[call.n].left
  BY <1>2 DEF InOrder
<1> HIDE DEF q
<1>8. InOrder(q)
  <2>1. \A k \in DOMAIN q.frames :
          /\ q.pc = "asked" => q.frames[k] = "error"
          /\ q.pc = "started" /\ ~q.left => q.frames[k] \in {"user_message", "delta"}
          /\ q.pc # "over" => q.frames[k] \in {"user_message", "delta", "error"}
    BY <1>2, <1>4, <1>5 DEF InOrder
  <2> QED BY <1>1, <1>4, <1>5, <1>7, <2>1 DEF InOrder
<1> QED BY <1>3, <1>4, <1>5, <1>6, <1>8 DEF q

LEMMA StreamServingStep ==
  ASSUME PageTypes, Serving, StreamStep
  PROVE  Serving'
<1> DEFINE f == serving[call.n].frames
           q == [serving[call.n] EXCEPT !.frames = Tail(f)]
<1>1. ASSUME NEW a, Arrives(a), Taken,
             call'.open = call.open, call'.n = call.n, call'.session = call.session,
             \/ a = "user_message" /\ UNCHANGED call
             \/ a = "delta" /\ call'.taken = call.taken + 1
             \/ a = "assistant_message" /\ UNCHANGED call /\ page'.streamingId = 0
      PROVE  Serving'
  <2>1. /\ serving' = [serving EXCEPT ![call.n] = q] /\ InOrder(q)
        /\ q.pc = serving[call.n].pc /\ q.session = serving[call.n].session
        /\ q.left = serving[call.n].left /\ q.pieces = serving[call.n].pieces
        /\ \A k \in DOMAIN q.frames :
             /\ q.frames[k] = f[k + 1] /\ k + 1 \in DOMAIN f
             /\ q.frames[k] # "user_message" /\ k \in Nat \ {0}
        /\ q.frames # <<>> => 1 \in DOMAIN q.frames
    BY <1>1, TakenInOrder
  <2> HIDE DEF q
  <2>2. call.open /\ call.n \in Prompted /\ f # <<>> /\ f[1] = a /\ 1 \in DOMAIN f
    BY <1>1, ArrivedFrame
  <2>3. Ordered(f) /\ Counting(serving[call.n], call.taken) /\ serving[call.n].pc # "none"
    BY <2>2 DEF Serving, Heard, InOrder
  <2>4. serving[call.n].pieces \in Nat /\ call.taken \in Nat
    BY <2>2, RequestFrames, PageConstants DEF PageTypes, CallTyped, CallState
  <2> DEFINE p == serving[call.n].pieces
  <2>5. call.taken <= p /\ \A k \in DOMAIN f : f[k] = "delta" =>
          call.taken + k <= p + (IF f[1] = "user_message" THEN 1 ELSE 0)
    BY <2>3 DEF Counting
  <2>6. Counting(q, call'.taken)
    <3>1. CASE a = "user_message"
      <4>1. call'.taken = call.taken
        BY <1>1, <3>1
      <4>2. \A k \in DOMAIN q.frames : q.frames[k] = "delta" => call.taken + (k + 1) <= p + 1
        BY <2>1, <2>2, <2>5, <3>1
      <4>3. \A k \in DOMAIN q.frames : q.frames[k] = "delta" => call.taken + k <= p
        BY <2>1, <2>4, <4>2
      <4>4. q.frames # <<>> => q.frames[1] # "user_message"
        BY <2>1
      <4>5. \A k \in DOMAIN q.frames : q.frames[1] # "user_message"
        BY <2>1, <4>4
      <4> QED BY <2>1, <2>4, <2>5, <4>1, <4>3, <4>5 DEF Counting
    <3>2. CASE a = "delta"
      <4>1. call'.taken = call.taken + 1
        BY <1>1, <3>2
      <4>2. call.taken + 1 <= p
        BY <2>2, <2>4, <2>5, <3>2
      <4>3. \A k \in DOMAIN q.frames : q.frames[k] = "delta" => call.taken + (k + 1) <= p
        BY <2>1, <2>2, <2>4, <2>5, <3>2
      <4>4. \A k \in DOMAIN q.frames : q.frames[k] = "delta" => (call.taken + 1) + k <= p
        BY <2>1, <2>4, <4>3
      <4>5. \A k \in DOMAIN q.frames : q.frames[1] # "user_message"
        BY <2>1
      <4> QED BY <2>1, <2>4, <4>1, <4>2, <4>4, <4>5 DEF Counting
    <3>3. CASE a = "assistant_message"
      <4>1. call'.taken = call.taken
        BY <1>1, <3>3
      <4>2. \A k \in DOMAIN q.frames : k + 1 > 1
        BY <2>1
      <4>3. \A k \in DOMAIN q.frames : q.frames[k] \in {"done", "error"}
        BY <2>1, <2>2, <2>3, <3>3, <4>2 DEF Ordered
      <4> QED BY <2>1, <2>5, <4>1, <4>3 DEF Counting
    <3> QED BY <1>1, <3>1, <3>2, <3>3
  <2>7. ASSUME q.frames # <<>>, q.frames[1] = "done" PROVE page'.streamingId = 0
    <3>1. 1 \in DOMAIN q.frames /\ 1 + 1 \in DOMAIN f /\ f[1 + 1] = "done"
      BY <2>1, <2>7
    <3>2. f[(1 + 1) - 1] = "assistant_message"
      BY <2>3, <3>1 DEF Ordered
    <3>3. a = "assistant_message"
      BY <2>2, <3>2
    <3> QED BY <1>1, <3>3
  <2> QED BY <1>1, <2>1, <2>2, <2>3, <2>6, <2>7, RequestGoesOn
<1>2. CASE TakeUserMessage
  <2>1. Arrives("user_message") /\ Taken /\ UNCHANGED call
    BY <1>2 DEF TakeUserMessage
  <2> QED BY <1>1, <2>1
<1>3. CASE TakeDelta
  <2>1. Arrives("delta") /\ Taken /\ call' = [call EXCEPT !.taken = call.taken + 1] /\ call \in CallState
    BY <1>3 DEF TakeDelta, PageTypes, CallTyped
  <2>2. call'.n = call.n /\ call'.session = call.session /\ call'.taken = call.taken + 1
    BY <2>1 DEF CallState
  <2>3. call'.open = call.open
    BY <2>1 DEF CallState
  <2> QED BY <1>1, <2>1, <2>2, <2>3
<1>4. CASE TakeAssistantMessage
  <2>1. Arrives("assistant_message") /\ Taken /\ UNCHANGED call /\ page' = [page EXCEPT !.streamingId = 0]
        /\ page \in PageState
    BY <1>4 DEF TakeAssistantMessage, PageTypes, PageTyped
  <2>2. page'.streamingId = 0
    BY <2>1 DEF PageState
  <2> QED BY <1>1, <2>1, <2>2
<1>5. CASE StreamDone \/ StreamFailed
  <2>1. call.open /\ call' = NoCall
        /\ serving' = [serving EXCEPT ![call.n].frames = <<>>, ![call.n].left = TRUE]
    BY <1>5 DEF StreamDone, StreamFailed, Arrives
  <2> QED BY <2>1, ServingEnds
<1> QED BY <1>2, <1>3, <1>4, <1>5 DEF StreamStep

LEMMA ServingStep ==
  ASSUME PageTypes, Serving, [PageNext]_pageVars
  PROVE  Serving'
<1>0. page \in PageState /\ call \in CallState
  BY DEF PageTypes, PageTyped, CallTyped
<1>1. ASSUME NEW w \in PageWorkspaces, SwitchWorkspace(w) PROVE Serving'
  BY <1>0, <1>1, SwitchedPage, ServingStays DEF SwitchWorkspace
<1>2. ASSUME NEW s \in Sessions, SelectSession(s) PROVE Serving'
  BY <1>0, <1>2, SelectedPage, ServingStays DEF SelectSession
<1>3. ASSUME NEW s \in Sessions, ConfirmDeleteSession(s) PROVE Serving'
  BY <1>3, ServingStays DEF ConfirmDeleteSession
<1>4. ASSUME NEW text \in Prompts \cup {None}, UpdatePromptDraft(text) PROVE Serving'
  <2>1. page.selected \in Sessions
    BY <1>4, SomeSession DEF UpdatePromptDraft, Composer
  <2> QED BY <1>0, <1>4, <2>1, EditedPage, ServingStays DEF UpdatePromptDraft
<1>5. CASE StopStreaming
  <2>1. call' = [call EXCEPT !.aborted = TRUE] /\ serving' = serving /\ page' = page
    BY <1>5 DEF StopStreaming
  <2>2. call'.n = call.n /\ call'.session = call.session /\ call'.taken = call.taken
    BY <1>0, <2>1 DEF CallState
  <2>3. call'.open = call.open
    BY <1>0, <2>1 DEF CallState
  <2> QED BY <2>1, <2>2, <2>3, ServingStays
<1>6. CASE CreateSession
  BY <1>6, ServingStays DEF CreateSession
<1>7. CASE SessionCreated
  BY <1>0, <1>7, SomeSession, SelectedPage, ServingStays DEF SessionCreated
<1>8. CASE SessionDeleted
  <2>1. page' = page \/ page' = Selected(page, None)
    BY <1>8 DEF SessionDeleted
  <2>2. page'.streamingId = page.streamingId
    BY <1>0, <2>1, SelectedPage
  <2> QED BY <1>8, <2>2, ServingStays DEF SessionDeleted
<1>9. ASSUME NEW s \in Sessions, ReceiveFetch(s) PROVE Serving'
  BY <1>9, ServingStays DEF ReceiveFetch
<1>10. CASE UNCHANGED pageVars
  BY <1>10, ServingStays DEF pageVars
<1> QED BY <1>1, <1>2, <1>3, <1>4, <1>5, <1>6, <1>7, <1>8, <1>9, <1>10, ServingSubmitted, ApiServingStep,
       StreamServingStep DEF PageNext, UserStep, QueryStep

-----------------------------------------------------------------------------
(* The composer and the drafts.                                            *)

LooksSame ==
  /\ page'.selected = page.selected /\ page'.shown = page.shown
  /\ page'.drafts = page.drafts /\ page'.workspace = page.workspace

\* What is stored of a session, it still has when more is stored.
LEMMA StoredExists ==
  ASSUME PageTypes, NEW n \in Prompted, serving[n].session \in Sessions, Exists(serving[n].session),
         NEW m \in StoredMessage, Store(n, m)
  PROVE  \A s \in Sessions : Exists(s) = Exists(s)'
<1> DEFINE s == serving[n].session
<1>1. stored' = [stored EXCEPT ![s] = Append(stored[s], m)] /\ s \in Sessions /\ Exists(s)
  BY DEF Store
<1> HIDE DEF s
<1>2. stored[s] \in Seq(StoredMessage)
  BY <1>1 DEF Exists, PageTypes, StoredTyped
<1>3. Append(stored[s], m) \in Seq(StoredMessage)
  BY <1>2, AppendProperties
<1>4. stored'[s] = Append(stored[s], m) /\ \A x \in Sessions : x # s => stored'[x] = stored[x]
  BY <1>1 DEF PageTypes, StoredTyped
<1>5. stored'[s] \notin {Unborn, Deleted}
  BY <1>3, <1>4, NoLists
<1>6. TAKE x \in Sessions
<1>7. CASE x = s
  BY <1>1, <1>5, <1>7 DEF Exists
<1>8. CASE x # s
  BY <1>4, <1>8 DEF Exists
<1> QED BY <1>7, <1>8

\* A step of the API stores messages, of a session that is there, or leaves the sessions alone.
LEMMA ApiStores ==
  ASSUME PageTypes, Serving, NEW n \in Prompted,
         StoreUserMessage(n) \/ SendDelta(n) \/ Finish(n) \/ GiveUp(n) \/ BreakStream(n)
  PROVE  /\ UNCHANGED <<page, call, cached, creating, deleting>>
         /\ \A s \in Sessions : Exists(s) = Exists(s)'
         /\ seen'.moved = seen.moved /\ seen'.wiped = seen.wiped /\ seen'.stray = seen.stray
         /\ \/ UNCHANGED <<stored, seen, fetches>>
            \/ /\ serving[n].session \in Sessions /\ Exists(serving[n].session)
               /\ serving[n].pc \in {"asked", "started"}
               /\ \/ StoreUserMessage(n) /\ Store(n, User(n)) /\ serving[n].pc = "asked"
                  \/ (Finish(n) \/ GiveUp(n)) /\ Store(n, Reply(n))
<1>1. UNCHANGED <<page, call, cached, creating, deleting>>
  BY DEF StoreUserMessage, SendDelta, Finish, GiveUp, BreakStream
<1>2. \/ UNCHANGED <<stored, seen, fetches>>
      \/ /\ serving[n].pc \in {"asked", "started"} /\ Exists(serving[n].session)
         /\ \/ StoreUserMessage(n) /\ Store(n, User(n)) /\ serving[n].pc = "asked"
            \/ (Finish(n) \/ GiveUp(n)) /\ Store(n, Reply(n))
  <2>1. CASE StoreUserMessage(n)
    BY <2>1 DEF StoreUserMessage, Accepted
  <2>2. CASE SendDelta(n) \/ BreakStream(n)
    BY <2>2 DEF SendDelta, BreakStream
  <2>3. CASE Finish(n)
    BY <2>3 DEF Finish
  <2>4. CASE GiveUp(n)
    BY <2>4 DEF GiveUp
  <2> QED BY <2>1, <2>2, <2>3, <2>4
<1>3. CASE UNCHANGED <<stored, seen, fetches>>
  BY <1>1, <1>3 DEF Exists
<1>4. CASE /\ serving[n].pc \in {"asked", "started"} /\ Exists(serving[n].session)
           /\ \/ StoreUserMessage(n) /\ Store(n, User(n)) /\ serving[n].pc = "asked"
              \/ (Finish(n) \/ GiveUp(n)) /\ Store(n, Reply(n))
  <2>1. serving[n].session \in Sessions
    BY <1>4, SomeSession
  <2>2. \A s \in Sessions : Exists(s) = Exists(s)'
    BY <1>4, <2>1, MessagesAre, StoredExists
  <2>3. \E m : Store(n, m)
    BY <1>4
  <2>4. seen \in Seen /\ (seen' = seen \/ seen' = [seen EXCEPT !.doubtful = @ \cup {serving[n].session}])
    BY <2>3 DEF Store, PageTypes, SeenTyped
  <2>5. seen'.moved = seen.moved /\ seen'.wiped = seen.wiped
    BY <2>4 DEF Seen
  <2>6. seen'.stray = seen.stray
    BY <2>4 DEF Seen
  <2> QED BY <1>1, <1>4, <2>1, <2>2, <2>5, <2>6
<1> QED BY <1>2, <1>3, <1>4

LEMMA ComposedStays ==
  ASSUME PageTypes, Composed, LooksSame, \A s \in Sessions : Exists(s) => Exists(s)',
         seen.stray => seen'.stray, seen'.wiped = seen.wiped
  PROVE  Composed'
<1>1. page.selected # None => page.selected \in Sessions
  BY DEF PageTypes, PageTyped, PageState
<1> QED BY <1>1 DEF Composed, LooksSame

\* What a reply's events do to the page, but for the prompt that leaves the composer.
LEMMA StreamLooks ==
  ASSUME PageTypes, TakeDelta \/ TakeAssistantMessage \/ StreamDone \/ StreamFailed
  PROVE  /\ LooksSame /\ stored' = stored
         /\ seen'.stray = seen.stray /\ seen'.wiped = seen.wiped /\ seen'.moved = seen.moved
<1>0. page \in PageState
  BY DEF PageTypes, PageTyped
<1>1. CASE TakeDelta
  <2>1. call.open /\ AppendDelta /\ seen' = seen
    BY <1>1 DEF TakeDelta, Arrives
  <2>2. \E id, last : page' = [page EXCEPT !.streamingId = id, !.hasOutput = TRUE, !.ids = last]
    BY <2>1 DEF AppendDelta
  <2>3. LooksSame
    BY <1>0, <2>2 DEF LooksSame, PageState
  <2> QED BY <1>1, <2>1, <2>3 DEF TakeDelta
<1>2. CASE TakeAssistantMessage
  <2>1. page' = [page EXCEPT !.streamingId = 0]
    BY <1>2 DEF TakeAssistantMessage
  <2>2. LooksSame
    BY <1>0, <2>1 DEF LooksSame, PageState
  <2> QED BY <1>2, <2>2 DEF TakeAssistantMessage
<1>3. CASE StreamDone \/ StreamFailed
  <2>1. call.open /\ call' = NoCall /\ Finally(call.session) /\ stored' = stored
    BY <1>3 DEF StreamDone, StreamFailed, Arrives
  <2> QED BY <2>1, CallEnds DEF LooksSame
<1> QED BY <1>1, <1>2, <1>3

\* The prompt leaves the composer, and the draft of its session.
LEMMA SentPage ==
  ASSUME PageTypes, TakeUserMessage
  PROVE  /\ page'.selected = page.selected /\ page'.workspace = page.workspace /\ page'.shown = None
         /\ page'.drafts = [page.drafts EXCEPT ![call.session] = None]
         /\ page.drafts \in [Sessions -> Prompts \cup {None}] /\ call.session \in Sessions
<1>1. page \in PageState /\ page' = Sent(page, call.session)
  BY DEF TakeUserMessage, PageTypes, PageTyped
<1> DEFINE d == [page.drafts EXCEPT ![call.session] = None]
<1>2. page' = [page EXCEPT !.shown = None, !.drafts = d]
  BY <1>1 DEF Sent, PageState
<1> HIDE DEF d
<1>3. page'.selected = page.selected /\ page'.workspace = page.workspace /\ page'.shown = None
      /\ page'.drafts = d
  BY <1>1, <1>2 DEF PageState
<1>4. call.session \in Sessions
  BY ArrivedFrame DEF TakeUserMessage
<1> QED BY <1>1, <1>3, <1>4 DEF d, PageState

LEMMA ComposedStep ==
  ASSUME PageTypes, Serving, Composed, [PageNext]_pageVars
  PROVE  Composed'
<1>0. page \in PageState /\ seen \in Seen /\ (page.selected # None => page.selected \in Sessions)
  BY SomeSession DEF PageTypes, PageTyped, SeenTyped
<1>1. ASSUME UNCHANGED <<page, seen, stored>> PROVE Composed'
  BY <1>1, ComposedStays DEF LooksSame, Exists
<1>2. ASSUME NEW w \in PageWorkspaces, SwitchWorkspace(w) PROVE Composed'
  BY <1>0, <1>2, SwitchedPage DEF Composed
<1>3. ASSUME NEW s \in Sessions, SelectSession(s) PROVE Composed'
  <2>1. page'.selected = s /\ page'.shown = page.drafts[s] /\ page'.drafts = page.drafts
        /\ page'.workspace = page.workspace /\ stored' = stored
    BY <1>0, <1>3, SelectedPage, PageConstants DEF SelectSession
  <2>2. workspaceOf[s] = page.workspace
    BY <1>3 DEF SelectSession, Listed
  <2>3. seen'.stray = ~Exists(s)
    BY <1>0, <1>3 DEF SelectSession, Seen
  <2> QED BY <2>1, <2>2, <2>3 DEF Composed, Exists
<1>4. ASSUME NEW text \in Prompts \cup {None}, UpdatePromptDraft(text) PROVE Composed'
  <2>1. page.selected \in Sessions /\ page.selected # None
    BY <1>0, <1>4 DEF UpdatePromptDraft, Composer
  <2>2. page'.shown = text /\ page'.drafts = [page.drafts EXCEPT ![page.selected] = text]
        /\ page'.selected = page.selected /\ page'.workspace = page.workspace
    BY <1>0, <1>4, <2>1, EditedPage
  <2>3. page'.drafts[page.selected] = text
    BY <1>0, <2>1, <2>2 DEF PageState
  <2>4. seen'.stray = seen.stray /\ stored' = stored
    BY <1>0, <1>4 DEF UpdatePromptDraft, Seen
  <2> QED BY <2>1, <2>2, <2>3, <2>4 DEF Composed, Exists
<1>5. CASE SubmitPrompt
  <2>1. LooksSame
    BY <1>0, <1>5, SubmittedPage DEF LooksSame
  <2> QED BY <1>5, <2>1, ComposedStays DEF SubmitPrompt, Exists
<1>6. CASE StopStreaming \/ CreateSession \/ \E s \in Sessions : ConfirmDeleteSession(s)
  BY <1>1, <1>6 DEF StopStreaming, CreateSession, ConfirmDeleteSession
<1>7. ASSUME NEW s \in Sessions, AnswerFetch(s) \/ LoseFetch(s) PROVE Composed'
  BY <1>1, <1>7 DEF AnswerFetch, LoseFetch
<1>8. ASSUME NEW n \in Prompted,
             StoreUserMessage(n) \/ SendDelta(n) \/ Finish(n) \/ GiveUp(n) \/ BreakStream(n)
      PROVE  Composed'
  <2>1. /\ UNCHANGED page /\ \A s \in Sessions : Exists(s) = Exists(s)'
        /\ seen'.wiped = seen.wiped /\ seen'.stray = seen.stray
    BY <1>8, ApiStores
  <2> QED BY <2>1, ComposedStays DEF LooksSame
<1>9. CASE Change
  <2>1. CASE creating.pc = "asked" /\ stored' = [stored EXCEPT ![creating.session] = <<>>] /\ UNCHANGED seen
    <3>1. \A s \in Sessions : Exists(s) => Exists(s)'
      BY <2>1, NoLists DEF Exists, PageTypes, StoredTyped
    <3> QED BY <1>9, <2>1, <3>1, ComposedStays DEF Change, LooksSame
  <2>2. CASE stored' = [stored EXCEPT ![deleting.session] = Deleted]
             /\ seen' = [seen EXCEPT !.stray = @ \/ page.selected = deleting.session]
    <3>1. \A s \in Sessions : s # deleting.session /\ Exists(s) => Exists(s)'
      BY <2>2 DEF Exists, PageTypes, StoredTyped
    <3>2. seen'.wiped = seen.wiped
      BY <1>0, <2>2 DEF Seen
    <3>3. seen'.stray = (seen.stray \/ page.selected = deleting.session)
      BY <1>0, <2>2 DEF Seen
    <3>4. page' = page
      BY <1>9 DEF Change
    <3> QED BY <1>0, <3>1, <3>2, <3>3, <3>4 DEF Composed
  <2> QED BY <1>9, <2>1, <2>2 DEF Change
<1>10. CASE TakeUserMessage
  <2>1. /\ page'.selected = page.selected /\ page'.workspace = page.workspace /\ page'.shown = None
        /\ page'.drafts = [page.drafts EXCEPT ![call.session] = None]
        /\ page.drafts \in [Sessions -> Prompts \cup {None}] /\ call.session \in Sessions
    BY <1>10, SentPage
  <2>2. /\ stored' = stored /\ seen'.stray = seen.stray
    BY <1>0, <1>10 DEF TakeUserMessage, Seen
  <2>3. page.selected \notin {None, call.session} => page.selected \in seen'.wiped
    BY <1>0, <1>10 DEF TakeUserMessage, Seen
  <2>4. page'.drafts[call.session] = None
    BY <2>1
  <2> QED BY <2>1, <2>2, <2>3, <2>4 DEF Composed, Exists
<1>11. CASE TakeDelta \/ TakeAssistantMessage \/ StreamDone \/ StreamFailed
  BY <1>11, StreamLooks, ComposedStays DEF Exists
<1>12. CASE SessionCreated
  <2> DEFINE s == creating.session
  <2>1. s \in Sessions /\ s # None
    BY <1>12, SomeSession, PageConstants DEF SessionCreated
  <2>2. page'.selected = s /\ page'.shown = page.drafts[s] /\ page'.drafts = page.drafts
        /\ page'.workspace = page.workspace /\ stored' = stored
    BY <1>0, <1>12, <2>1, SelectedPage DEF SessionCreated
  <2>3. seen'.stray = (~Exists(s) \/ workspaceOf[s] # page.workspace)
    BY <1>0, <1>12 DEF SessionCreated, Seen
  <2> QED BY <2>2, <2>3 DEF Composed, Exists
<1>13. CASE SessionDeleted
  <2>1. CASE page' = Selected(page, None)
    <3>1. page'.selected = None
      BY <1>0, <2>1, SelectedPage
    <3> QED BY <3>1 DEF Composed
  <2>2. CASE page' = page
    <3>1. seen'.wiped = seen.wiped /\ stored' = stored
      BY <1>0, <1>13 DEF SessionDeleted, Seen
    <3>2. seen'.stray = (page.selected # None /\ seen.stray)
      BY <1>0, <1>13, <2>2 DEF SessionDeleted, Seen
    <3> QED BY <2>2, <3>1, <3>2 DEF Composed, Exists
  <2> QED BY <1>13, <2>1, <2>2 DEF SessionDeleted
<1>14. ASSUME NEW s \in Sessions, ReceiveFetch(s) PROVE Composed'
  <2>1. UNCHANGED <<page, stored>>
    BY <1>14 DEF ReceiveFetch
  <2>2. seen' = seen \/ \E d : seen' = [seen EXCEPT !.doubtful = d]
    BY <1>0, <1>14 DEF ReceiveFetch, Seen
  <2>3. seen'.wiped = seen.wiped
    BY <1>0, <2>2 DEF Seen
  <2>4. seen'.stray = seen.stray
    BY <1>0, <2>2 DEF Seen
  <2> QED BY <2>1, <2>3, <2>4, ComposedStays DEF LooksSame, Exists
<1>15. CASE UNCHANGED pageVars
  BY <1>1, <1>15 DEF pageVars
<1> QED BY <1>2, <1>3, <1>4, <1>5, <1>6, <1>7, <1>8, <1>9, <1>10, <1>11, <1>12, <1>13, <1>14, <1>15
       DEF PageNext, UserStep, ApiStep, StreamStep, QueryStep

LEMMA ComposedInit == PageInit => Composed
<1> SUFFICES ASSUME PageInit PROVE Composed
  OBVIOUS
<1>1. PICK w \in PageWorkspaces : page = OpenedPage(w)
  BY DEF PageInit
<1>2. page.selected = None
  BY <1>1 DEF OpenedPage
<1> QED BY <1>2 DEF Composed

\* Which steps touch the drafts.
LEMMA DraftsKept ==
  ASSUME PageTypes, Serving, [PageNext]_pageVars
  PROVE  \/ page'.drafts = page.drafts
         \/ \E w \in PageWorkspaces : SwitchWorkspace(w)
         \/ \E text \in Prompts \cup {None} : UpdatePromptDraft(text)
         \/ TakeUserMessage
<1>0. page \in PageState
  BY DEF PageTypes, PageTyped
<1>1. ASSUME NEW s \in Sessions, SelectSession(s) PROVE page'.drafts = page.drafts
  BY <1>0, <1>1, SelectedPage DEF SelectSession
<1>2. CASE SubmitPrompt
  BY <1>0, <1>2, SubmittedPage
<1>3. CASE SessionCreated
  BY <1>0, <1>3, SomeSession, SelectedPage DEF SessionCreated
<1>4. CASE SessionDeleted
  <2>1. page' = page \/ page' = Selected(page, None)
    BY <1>4 DEF SessionDeleted
  <2> QED BY <1>0, <2>1, SelectedPage
<1>5. CASE TakeDelta \/ TakeAssistantMessage \/ StreamDone \/ StreamFailed
  BY <1>5, StreamLooks DEF LooksSame
<1>6. CASE StopStreaming \/ CreateSession \/ Change \/ UNCHANGED pageVars
  BY <1>6 DEF StopStreaming, CreateSession, Change, pageVars
<1>7. ASSUME NEW s \in Sessions, ConfirmDeleteSession(s) \/ AnswerFetch(s) \/ LoseFetch(s) \/ ReceiveFetch(s)
      PROVE  page'.drafts = page.drafts
  BY <1>7 DEF ConfirmDeleteSession, AnswerFetch, LoseFetch, ReceiveFetch
<1>8. ASSUME NEW n \in Prompted,
             StoreUserMessage(n) \/ SendDelta(n) \/ Finish(n) \/ GiveUp(n) \/ BreakStream(n)
      PROVE  page'.drafts = page.drafts
  BY <1>8, ApiStores
<1> QED BY <1>1, <1>2, <1>3, <1>4, <1>5, <1>6, <1>7, <1>8
       DEF PageNext, UserStep, ApiStep, StreamStep, QueryStep

\* A call goes on, ends, or begins with a prompt.
LEMMA CallKept ==
  ASSUME PageTypes, Serving, [PageNext]_pageVars
  PROVE  \/ call' = NoCall
         \/ SubmitPrompt
         \/ /\ call'.open = call.open /\ call'.n = call.n
            /\ call'.session = call.session /\ call'.prompt = call.prompt
<1>0. call \in CallState
  BY DEF PageTypes, CallTyped
<1>1. CASE StopStreaming
  <2>1. call' = [call EXCEPT !.aborted = TRUE]
    BY <1>1 DEF StopStreaming
  <2>2. call'.n = call.n /\ call'.session = call.session /\ call'.prompt = call.prompt
    BY <1>0, <2>1 DEF CallState
  <2>3. call'.open = call.open
    BY <1>0, <2>1 DEF CallState
  <2> QED BY <2>2, <2>3
<1>2. CASE TakeDelta
  <2>1. call' = [call EXCEPT !.taken = call.taken + 1]
    BY <1>2 DEF TakeDelta
  <2>2. call'.n = call.n /\ call'.session = call.session /\ call'.prompt = call.prompt
    BY <1>0, <2>1 DEF CallState
  <2>3. call'.open = call.open
    BY <1>0, <2>1 DEF CallState
  <2> QED BY <2>2, <2>3
<1>3. CASE StreamDone \/ StreamFailed
  BY <1>3 DEF StreamDone, StreamFailed
<1>4. ASSUME \/ \E w \in PageWorkspaces : SwitchWorkspace(w)
             \/ \E s \in Sessions : SelectSession(s) \/ ConfirmDeleteSession(s)
             \/ \E text \in Prompts \cup {None} : UpdatePromptDraft(text)
             \/ CreateSession \/ Change \/ SessionCreated \/ SessionDeleted
             \/ TakeUserMessage \/ TakeAssistantMessage \/ UNCHANGED pageVars
      PROVE  call' = call
  BY <1>4 DEF SwitchWorkspace, SelectSession, ConfirmDeleteSession, UpdatePromptDraft, CreateSession,
       Change, SessionCreated, SessionDeleted, TakeUserMessage, TakeAssistantMessage, pageVars
<1>5. ASSUME NEW s \in Sessions, AnswerFetch(s) \/ LoseFetch(s) \/ ReceiveFetch(s) PROVE call' = call
  BY <1>5 DEF AnswerFetch, LoseFetch, ReceiveFetch
<1>6. ASSUME NEW n \in Prompted,
             StoreUserMessage(n) \/ SendDelta(n) \/ Finish(n) \/ GiveUp(n) \/ BreakStream(n)
      PROVE  call' = call
  BY <1>6, ApiStores
<1> QED BY <1>1, <1>2, <1>3, <1>4, <1>5, <1>6
       DEF PageNext, UserStep, ApiStep, StreamStep, QueryStep

LEMMA DraftedInit == PageInit => Drafted
<1> SUFFICES ASSUME PageInit PROVE Drafted
  OBVIOUS
<1>1. call.open = FALSE
  BY DEF PageInit, NoCall
<1> QED BY <1>1 DEF Drafted

LEMMA DraftedStep ==
  ASSUME PageTypes, Serving, Composed, Drafted, [PageNext]_pageVars
  PROVE  Drafted'
<1>0. page \in PageState /\ (call.open => call.session \in Sessions) /\ page.streaming = call.open
      /\ (page.selected # None => page.selected \in Sessions)
  BY SomeSession DEF PageTypes, PageTyped
<1>1. CASE call' = NoCall
  <2>1. call'.open = FALSE
    BY <1>1 DEF NoCall
  <2> QED BY <2>1 DEF Drafted
<1>2. CASE SubmitPrompt
  <2>1. page'.drafts = page.drafts
    BY <1>0, <1>2, SubmittedPage
  <2>2. call'.session = page.selected /\ call'.prompt = page.shown
    BY <1>2 DEF SubmitPrompt, NoCall
  <2>3. page.selected # None /\ page.shown # None
    BY <1>2 DEF SubmitPrompt, Composer
  <2> QED BY <2>1, <2>2, <2>3 DEF Composed, Drafted
<1>3. ASSUME call'.open = call.open, call'.session = call.session, call'.prompt = call.prompt, call.open
      PROVE  page'.drafts[call.session] \in {call.prompt, None}
  <2>1. page.drafts[call.session] \in {call.prompt, None} /\ call.session \in Sessions
    BY <1>0, <1>3 DEF Drafted
  <2>2. CASE page'.drafts = page.drafts
    BY <2>1, <2>2
  <2>3. ASSUME NEW w \in PageWorkspaces, SwitchWorkspace(w) PROVE page'.drafts[call.session] = None
    BY <1>0, <2>1, <2>3, SwitchedPage
  <2>4. ASSUME NEW text \in Prompts \cup {None}, UpdatePromptDraft(text) PROVE FALSE
    BY <1>0, <1>3, <2>4 DEF UpdatePromptDraft, Composer
  <2>5. CASE TakeUserMessage
    <3>1. /\ page'.drafts = [page.drafts EXCEPT ![call.session] = None]
          /\ page.drafts \in [Sessions -> Prompts \cup {None}]
      BY <2>5, SentPage
    <3> QED BY <2>1, <3>1
  <2> QED BY <2>2, <2>3, <2>4, <2>5, DraftsKept
<1>4. CASE /\ call'.open = call.open /\ call'.session = call.session /\ call'.prompt = call.prompt
  BY <1>3, <1>4 DEF Drafted
<1> QED BY <1>1, <1>2, <1>4, CallKept

LEMMA DraftsLeave ==
  ASSUME PageTypes, Serving, Composed, Drafted, [PageNext]_pageVars,
         NEW s \in Sessions, page'.drafts[s] # page.drafts[s]
  PROVE  \/ page'.workspace # page.workspace
         \/ page.selected = s /\ page'.shown = page'.drafts[s] /\ ~page'.streaming
         \/ /\ call.open /\ call.session = s /\ call.prompt = page.drafts[s] /\ page'.drafts[s] = None
            /\ serving[call.n].pc # "asked"
<1>0. page \in PageState /\ (page.selected # None => page.selected \in Sessions)
  BY SomeSession DEF PageTypes, PageTyped
<1>1. ASSUME NEW w \in PageWorkspaces, SwitchWorkspace(w) PROVE page'.workspace # page.workspace
  BY <1>0, <1>1, SwitchedPage DEF SwitchWorkspace
<1>2. ASSUME NEW text \in Prompts \cup {None}, UpdatePromptDraft(text)
      PROVE  page.selected = s /\ page'.shown = page'.drafts[s] /\ ~page'.streaming
  <2>1. page.selected \in Sessions /\ ~page.streaming
    BY <1>0, <1>2 DEF UpdatePromptDraft, Composer
  <2>2. page'.shown = text /\ page'.drafts = [page.drafts EXCEPT ![page.selected] = text]
    BY <1>0, <1>2, <2>1, EditedPage
  <2>3. page'.streaming = page.streaming
    BY <1>0, <1>2, <2>1, EditedPage
  <2>4. page.drafts \in [Sessions -> Prompts \cup {None}]
    BY <1>0 DEF PageState
  <2> QED BY <2>1, <2>2, <2>3, <2>4
<1>3. CASE TakeUserMessage
  <2>1. /\ page'.drafts = [page.drafts EXCEPT ![call.session] = None]
        /\ page.drafts \in [Sessions -> Prompts \cup {None}] /\ call.session \in Sessions
    BY <1>3, SentPage
  <2>2. s = call.session /\ page'.drafts[s] = None
    BY <2>1
  <2>3. Arrives("user_message")
    BY <1>3 DEF TakeUserMessage
  <2>4. call.open /\ call.n \in Prompted /\ serving[call.n].frames[1] = "user_message"
        /\ 1 \in DOMAIN serving[call.n].frames
    BY <2>3, ArrivedFrame
  <2>5. serving[call.n].pc # "asked"
    BY <2>4 DEF Serving, InOrder
  <2> QED BY <2>2, <2>4, <2>5 DEF Drafted
<1> QED BY <1>1, <1>2, <1>3, DraftsKept

-----------------------------------------------------------------------------
(* What a step makes of the requests, of the sessions and of the fetches.  *)

\* A request goes on: it is of the same session, and has gone as far.
Advanced(q, r) ==
  q.pc # "none" =>
    /\ r.session = q.session /\ r.pc # "none"
    /\ (q.pc # "asked" => r.pc # "asked") /\ (q.pc = "over" => r.pc = "over")

LEMMA ApiAdvances ==
  ASSUME PageTypes, NEW n \in Prompted,
         StoreUserMessage(n) \/ SendDelta(n) \/ Finish(n) \/ GiveUp(n) \/ BreakStream(n)
  PROVE  /\ \A k \in Prompted : k # n => serving'[k] = serving[k]
         /\ serving'[n].session = serving[n].session /\ Advanced(serving[n], serving'[n])
         /\ StoreUserMessage(n) => serving'[n].pc = "started"
         /\ Finish(n) \/ GiveUp(n) => serving'[n].pc = "over"
<1>0. serving \in [Prompted -> RequestState] /\ serving[n] \in RequestState
  BY DEF PageTypes, RequestsTyped
<1>1. ASSUME NEW pc, NEW f, serving' = [serving EXCEPT ![n].pc = pc, ![n].frames = f]
      PROVE  /\ \A k \in Prompted : k # n => serving'[k] = serving[k]
             /\ serving'[n].session = serving[n].session /\ serving'[n].pc = pc
  BY <1>0, <1>1 DEF RequestState
<1>2. ASSUME StoreUserMessage(n) PROVE serving'[n].pc = "started" /\ serving[n].pc = "asked"
                                       /\ \E f : serving' = [serving EXCEPT ![n].pc = "started", ![n].frames = f]
  <2>1. serving[n].pc = "asked"
        /\ serving' = [serving EXCEPT ![n].pc = "started", ![n].frames = Written(n, "user_message")]
    BY <1>2 DEF StoreUserMessage
  <2> QED BY <1>1, <2>1
<1>3. ASSUME Finish(n) \/ GiveUp(n) PROVE serving'[n].pc = "over"
                                         /\ \E f : serving' = [serving EXCEPT ![n].pc = "over", ![n].frames = f]
  <2>1. PICK f : serving' = [serving EXCEPT ![n].pc = "over", ![n].frames = f]
    BY <1>0, <1>3 DEF Finish, GiveUp
  <2> QED BY <1>1, <2>1
<1>4. ASSUME SendDelta(n) \/ BreakStream(n)
      PROVE  /\ \A k \in Prompted : k # n => serving'[k] = serving[k]
             /\ serving'[n].session = serving[n].session /\ serving'[n].pc = serving[n].pc
  <2>1. CASE SendDelta(n)
    <3>1. serving' = [serving EXCEPT ![n].pieces = @ + 1, ![n].frames = Written(n, "delta")]
      BY <2>1 DEF SendDelta
    <3> QED BY <1>0, <3>1 DEF RequestState
  <2>2. CASE BreakStream(n)
    <3>1. serving' = [serving EXCEPT ![n].left = TRUE, ![n].frames = Append(@, "error")]
      BY <2>2 DEF BreakStream
    <3> QED BY <1>0, <3>1 DEF RequestState
  <2> QED BY <1>4, <2>1, <2>2
<1>5. /\ \A k \in Prompted : k # n => serving'[k] = serving[k]
      /\ serving'[n].session = serving[n].session /\ Advanced(serving[n], serving'[n])
  <2>1. CASE StoreUserMessage(n)
    BY <1>1, <1>2, <2>1 DEF Advanced
  <2>2. CASE Finish(n) \/ GiveUp(n)
    BY <1>1, <1>3, <2>2 DEF Advanced
  <2>3. CASE SendDelta(n) \/ BreakStream(n)
    BY <1>4, <2>3 DEF Advanced
  <2> QED BY <2>1, <2>2, <2>3
<1> QED BY <1>2, <1>3, <1>5

LEMMA StreamAdvances ==
  ASSUME PageTypes, Serving, StreamStep
  PROVE  \A n \in Prompted : serving'[n].session = serving[n].session /\ serving'[n].pc = serving[n].pc
<1>0. serving \in [Prompted -> RequestState]
  BY DEF PageTypes, RequestsTyped
<1>1. call.open /\ call.n \in Prompted
  BY SomeSession DEF StreamStep, TakeUserMessage, TakeDelta, TakeAssistantMessage, StreamDone, StreamFailed,
       Arrives
<1>2. CASE TakeUserMessage \/ TakeDelta \/ TakeAssistantMessage
  <2>1. serving' = [serving EXCEPT ![call.n].frames = Tail(@)]
    BY <1>2 DEF TakeUserMessage, TakeDelta, TakeAssistantMessage, Taken
  <2> QED BY <1>0, <1>1, <2>1 DEF RequestState
<1>3. CASE StreamDone \/ StreamFailed
  <2>1. serving' = [serving EXCEPT ![call.n].frames = <<>>, ![call.n].left = TRUE]
    BY <1>3 DEF StreamDone, StreamFailed
  <2> QED BY <1>0, <1>1, <2>1 DEF RequestState
<1> QED BY <1>2, <1>3 DEF StreamStep

LEMMA RequestsAdvance ==
  ASSUME PageTypes, Serving, [PageNext]_pageVars
  PROVE  \A n \in Prompted : Advanced(serving[n], serving'[n])
<1>1. CASE serving' = serving
  BY <1>1 DEF Advanced
<1>2. CASE SubmitPrompt
  <2> DEFINE n == Cardinality(Submitted) + 1
             q == [NoRequest EXCEPT !.pc = "asked", !.session = page.selected, !.workspace = page.workspace]
  <2>1. Submitted # Prompted /\ serving' = [serving EXCEPT ![n] = q]
    BY <1>2 DEF SubmitPrompt
  <2>2. n \in Prompted /\ serving[n].pc = "none"
    BY <2>1, NextPrompt
  <2> HIDE DEF n, q
  <2>3. \A k \in Prompted : k # n => serving'[k] = serving[k]
    BY <2>1, <2>2 DEF PageTypes, RequestsTyped
  <2> QED BY <2>2, <2>3 DEF Advanced
<1>3. ASSUME NEW n \in Prompted,
             StoreUserMessage(n) \/ SendDelta(n) \/ Finish(n) \/ GiveUp(n) \/ BreakStream(n)
      PROVE  \A k \in Prompted : Advanced(serving[k], serving'[k])
  <2>1. (\A k \in Prompted : k # n => serving'[k] = serving[k]) /\ Advanced(serving[n], serving'[n])
    BY <1>3, ApiAdvances
  <2> QED BY <2>1 DEF Advanced
<1>4. CASE StreamStep
  BY <1>4, StreamAdvances DEF Advanced
<1>5. ASSUME \/ \E w \in PageWorkspaces : SwitchWorkspace(w)
             \/ \E s \in Sessions : SelectSession(s) \/ ConfirmDeleteSession(s)
             \/ \E text \in Prompts \cup {None} : UpdatePromptDraft(text)
             \/ StopStreaming \/ CreateSession \/ Change \/ SessionCreated \/ SessionDeleted
             \/ UNCHANGED pageVars
      PROVE  serving' = serving
  BY <1>5 DEF SwitchWorkspace, SelectSession, ConfirmDeleteSession, UpdatePromptDraft, CreateSession,
       StopStreaming, Change, SessionCreated, SessionDeleted, pageVars
<1>6. ASSUME NEW s \in Sessions, AnswerFetch(s) \/ LoseFetch(s) \/ ReceiveFetch(s) PROVE serving' = serving
  BY <1>6 DEF AnswerFetch, LoseFetch, ReceiveFetch
<1> QED BY <1>1, <1>2, <1>3, <1>4, <1>5, <1>6 DEF PageNext, UserStep, ApiStep, QueryStep

\* What becomes of what is stored: a message more of a session that is there, a session that
\* is created, or one that is deleted.
LEMMA StoredMoves ==
  ASSUME PageTypes, Serving, [PageNext]_pageVars
  PROVE  \/ stored' = stored
         \/ /\ creating.pc = "asked" /\ stored' = [stored EXCEPT ![creating.session] = <<>>]
            /\ creating' = [creating EXCEPT !.pc = "done"]
            /\ UNCHANGED <<page, call, cached, fetches, deleting, serving, seen>>
         \/ /\ deleting.pc = "asked" /\ stored' = [stored EXCEPT ![deleting.session] = Deleted]
            /\ UNCHANGED <<page, call, cached, fetches, creating, serving>>
            /\ deleting' = [deleting EXCEPT !.pc = "done"]
            /\ seen' = [seen EXCEPT !.stray = @ \/ page.selected = deleting.session]
         \/ \E n \in Prompted :
              /\ serving[n].session \in Sessions /\ Exists(serving[n].session)
              /\ UNCHANGED <<page, call, cached, creating, deleting>>
              /\ serving[n].pc \in {"asked", "started"}
              /\ \/ StoreUserMessage(n) /\ Store(n, User(n)) /\ serving[n].pc = "asked"
                 \/ (Finish(n) \/ GiveUp(n)) /\ Store(n, Reply(n))
<1>1. ASSUME NEW n \in Prompted,
             StoreUserMessage(n) \/ SendDelta(n) \/ Finish(n) \/ GiveUp(n) \/ BreakStream(n)
      PROVE  \/ stored' = stored
             \/ /\ serving[n].session \in Sessions /\ Exists(serving[n].session)
                /\ UNCHANGED <<page, call, cached, creating, deleting>>
                /\ serving[n].pc \in {"asked", "started"}
                /\ \/ StoreUserMessage(n) /\ Store(n, User(n)) /\ serving[n].pc = "asked"
                   \/ (Finish(n) \/ GiveUp(n)) /\ Store(n, Reply(n))
  <2>1. /\ UNCHANGED <<page, call, cached, creating, deleting>>
        /\ \/ UNCHANGED <<stored, seen, fetches>>
           \/ /\ serving[n].session \in Sessions /\ Exists(serving[n].session)
              /\ serving[n].pc \in {"asked", "started"}
              /\ \/ StoreUserMessage(n) /\ Store(n, User(n)) /\ serving[n].pc = "asked"
                 \/ (Finish(n) \/ GiveUp(n)) /\ Store(n, Reply(n))
    BY <1>1, ApiStores
  <2> QED BY <2>1
<1>2. CASE StreamStep
  BY <1>2 DEF StreamStep, TakeUserMessage, TakeDelta, TakeAssistantMessage, StreamDone, StreamFailed
<1>3. ASSUME \/ \E w \in PageWorkspaces : SwitchWorkspace(w)
             \/ \E s \in Sessions : SelectSession(s) \/ ConfirmDeleteSession(s)
             \/ \E text \in Prompts \cup {None} : UpdatePromptDraft(text)
             \/ SubmitPrompt \/ StopStreaming \/ CreateSession \/ SessionCreated \/ SessionDeleted
             \/ UNCHANGED pageVars
      PROVE  stored' = stored
  BY <1>3 DEF SwitchWorkspace, SelectSession, ConfirmDeleteSession, UpdatePromptDraft, CreateSession,
       SubmitPrompt, StopStreaming, SessionCreated, SessionDeleted, pageVars
<1>4. ASSUME NEW s \in Sessions, AnswerFetch(s) \/ LoseFetch(s) \/ ReceiveFetch(s) PROVE stored' = stored
  BY <1>4 DEF AnswerFetch, LoseFetch, ReceiveFetch
<1>5. CASE Change
  BY <1>5 DEF Change
<1> QED BY <1>1, <1>2, <1>3, <1>4, <1>5 DEF PageNext, UserStep, ApiStep, QueryStep

\* What the end of a call makes of the fetches: its session's is asked again, or what is
\* shown of it is in doubt.
LEMMA FinallyFetches ==
  ASSUME PageTypes, call.open, Finally(call.session)
  PROVE  /\ call.session \in Sessions
         /\ \A x \in Sessions : x # call.session => fetches'[x] = fetches[x]
         /\ \A x \in Sessions : fetches'[x].pc = "answered" =>
              fetches[x].pc = "answered" /\ fetches'[x].list = fetches[x].list
         /\ seen.doubtful \subseteq seen'.doubtful
         /\ \/ fetches'[call.session].pc = "asked"
            \/ call.session \in seen'.doubtful /\ fetches'[call.session].sure = FALSE
<1> DEFINE s == call.session
           alone == cached[s] = NoData /\ fetches[s].pc # "asked"
           again == RefetchMessages(s)
<1>0. s \in Sessions /\ page \in PageState /\ seen \in Seen /\ fetches \in [Sessions -> FetchState]
  BY DEF PageTypes, CallTyped, CallState, PageTyped, SeenTyped, FetchesTyped
<1>1. /\ again \in [Sessions -> FetchState]
      /\ \A x \in Sessions : again[x] = fetches[x] \/ (x = s /\ again[x].pc = "asked")
      /\ ~alone => again[s].pc = "asked"
  BY <1>0, MessagesRefetched
<1>2. \/ fetches' = [fetches EXCEPT ![s].sure = FALSE] /\ seen' = [seen EXCEPT !.doubtful = @ \cup {s}]
      \/ fetches' = [again EXCEPT ![s].sure = FALSE] /\ seen' = [seen EXCEPT !.doubtful = @ \cup {s}]
      \/ fetches' = again /\ ~alone /\ seen' = [seen EXCEPT !.doubtful = @]
  <2>1. CASE page.streamingId # 0 /\ page.hasOutput
    BY <2>1 DEF Finally
  <2>2. CASE ~(page.streamingId # 0 /\ page.hasOutput)
    <3>1. /\ fetches' = IF alone THEN [again EXCEPT ![s].sure = FALSE] ELSE again
          /\ seen' = [seen EXCEPT !.doubtful = IF alone THEN @ \cup {s} ELSE @]
      BY <2>2 DEF Finally
    <3> HIDE DEF alone, again, s
    <3> QED BY <3>1
  <2> QED BY <2>1, <2>2
<1> HIDE DEF again, s, alone
<1>3. ASSUME NEW f \in [Sessions -> FetchState], fetches' = [f EXCEPT ![s].sure = FALSE],
             seen' = [seen EXCEPT !.doubtful = @ \cup {s}],
             \A x \in Sessions : f[x] = fetches[x] \/ (x = s /\ f[x].pc = "asked")
      PROVE  /\ \A x \in Sessions : x # s => fetches'[x] = fetches[x]
             /\ \A x \in Sessions : fetches'[x].pc = "answered" =>
                  fetches[x].pc = "answered" /\ fetches'[x].list = fetches[x].list
             /\ seen.doubtful \subseteq seen'.doubtful
             /\ s \in seen'.doubtful /\ fetches'[s].sure = FALSE
  <2>1. \A x \in Sessions : fetches'[x].pc = f[x].pc /\ fetches'[x].list = f[x].list
    BY <1>0, <1>3, UnsureFetches
  <2>2. fetches'[s].sure = FALSE
    BY <1>0, <1>3, UnsureFetches
  <2>3. \A x \in Sessions : x # s => fetches'[x] = fetches[x]
    BY <1>3
  <2>4. seen'.doubtful = seen.doubtful \cup {s}
    BY <1>0, <1>3 DEF Seen
  <2> QED BY <1>3, <2>1, <2>2, <2>3, <2>4
<1>4. CASE fetches' = [fetches EXCEPT ![s].sure = FALSE] /\ seen' = [seen EXCEPT !.doubtful = @ \cup {s}]
  BY <1>0, <1>3, <1>4 DEF s
<1>5. CASE fetches' = [again EXCEPT ![s].sure = FALSE] /\ seen' = [seen EXCEPT !.doubtful = @ \cup {s}]
  BY <1>0, <1>1, <1>3, <1>5 DEF s
<1>6. CASE fetches' = again /\ ~alone /\ seen' = [seen EXCEPT !.doubtful = @]
  <2>1. seen'.doubtful = seen.doubtful
    BY <1>0, <1>6 DEF Seen
  <2>2. /\ \A x \in Sessions : x # s => fetches'[x] = fetches[x]
        /\ \A x \in Sessions : fetches'[x].pc = "answered" =>
             fetches[x].pc = "answered" /\ fetches'[x].list = fetches[x].list
        /\ fetches'[s].pc = "asked"
    BY <1>1, <1>6
  <2> QED BY <1>0, <2>1, <2>2 DEF s
<1> QED BY <1>2, <1>4, <1>5, <1>6

\* An answer is of a session that is there, and has what is stored when it is given.
LEMMA FetchAnswers ==
  ASSUME PageTypes, Serving, [PageNext]_pageVars
  PROVE  \A s \in Sessions : fetches'[s].pc = "answered" =>
           \/ fetches[s].pc = "answered" /\ fetches'[s].list = fetches[s].list
           \/ Exists(s) /\ fetches'[s].list = stored[s] /\ UNCHANGED <<stored, serving>>
<1>0. fetches \in [Sessions -> FetchState] /\ page \in PageState /\ page.workspace \in PageWorkspaces
  BY DEF PageTypes, FetchesTyped, PageTyped, PageState
<1>1. CASE fetches' = fetches
  BY <1>1
<1>2. ASSUME NEW s \in Sessions, fetches' = Mounted(fetches, s, page.workspace)
      PROVE  \A x \in Sessions : fetches'[x].pc = "answered" => fetches'[x] = fetches[x]
  BY <1>0, <1>2, MountedFetches
<1>3. ASSUME NEW s \in Sessions, AnswerFetch(s)
      PROVE  \A x \in Sessions : fetches'[x].pc = "answered" =>
               \/ fetches[x].pc = "answered" /\ fetches'[x].list = fetches[x].list
               \/ Exists(x) /\ fetches'[x].list = stored[x] /\ UNCHANGED <<stored, serving>>
  <2>1. CASE fetches' = [fetches EXCEPT ![s].pc = "answered", ![s].list = stored[s], ![s].sure = TRUE]
             /\ Exists(s)
    <3> DEFINE f == [fetches[s] EXCEPT !.pc = "answered", !.list = stored[s], !.sure = TRUE]
    <3>1. fetches' = [fetches EXCEPT ![s] = f]
      BY <1>0, <2>1
    <3>2. f.list = stored[s]
      BY <1>0 DEF FetchState
    <3> HIDE DEF f
    <3> QED BY <1>0, <1>3, <2>1, <3>1, <3>2 DEF AnswerFetch
  <2>2. CASE fetches' = [fetches EXCEPT ![s].pc = "refused"]
    BY <1>0, <2>2 DEF FetchState
  <2> QED BY <1>3, <2>1, <2>2 DEF AnswerFetch
<1>4. ASSUME NEW s \in Sessions, LoseFetch(s) \/ ReceiveFetch(s)
      PROVE  \A x \in Sessions : fetches'[x].pc = "answered" => fetches'[x] = fetches[x]
  <2>1. CASE fetches' = [fetches EXCEPT ![s].pc = "refused"]
    BY <1>0, <2>1 DEF FetchState
  <2>2. CASE fetches' = [fetches EXCEPT ![s] = Asked(TRUE)]
    <3>1. Asked(TRUE).pc = "asked"
      BY <1>0, AskedIsFetch
    <3> QED BY <1>0, <2>2, <3>1
  <2>3. CASE fetches' = [fetches EXCEPT ![s] = NoFetch]
    BY <1>0, <2>3 DEF NoFetch
  <2> QED BY <1>4, <2>1, <2>2, <2>3 DEF LoseFetch, ReceiveFetch
<1>5. ASSUME NEW n \in Prompted,
             StoreUserMessage(n) \/ SendDelta(n) \/ Finish(n) \/ GiveUp(n) \/ BreakStream(n)
      PROVE  \A x \in Sessions : fetches'[x].pc = "answered" =>
               fetches[x].pc = "answered" /\ fetches'[x].list = fetches[x].list
  <2>1. \/ fetches' = fetches
        \/ serving[n].session \in Sessions /\ (Store(n, User(n)) \/ Store(n, Reply(n)))
    <3>1. \/ UNCHANGED <<stored, seen, fetches>>
          \/ /\ serving[n].session \in Sessions /\ Exists(serving[n].session)
             /\ \/ StoreUserMessage(n) /\ Store(n, User(n)) /\ serving[n].pc = "asked"
                \/ (Finish(n) \/ GiveUp(n)) /\ Store(n, Reply(n))
      BY <1>5, ApiStores
    <3> QED BY <3>1
  <2>2. \/ fetches' = fetches
        \/ serving[n].session \in Sessions /\ fetches' = [fetches EXCEPT ![serving[n].session].sure = FALSE]
    <3>1. ASSUME NEW m, Store(n, m)
          PROVE  fetches' = fetches \/ fetches' = [fetches EXCEPT ![serving[n].session].sure = FALSE]
      BY <3>1 DEF Store
    <3> QED BY <2>1, <3>1
  <2>3. ASSUME NEW s \in Sessions, fetches' = [fetches EXCEPT ![s].sure = FALSE]
        PROVE  \A x \in Sessions : fetches'[x].pc = fetches[x].pc /\ fetches'[x].list = fetches[x].list
    BY <1>0, <2>3, UnsureFetches
  <2> QED BY <2>2, <2>3
<1>6. CASE StreamDone \/ StreamFailed
  <2>1. call.open /\ Finally(call.session)
    BY <1>6 DEF StreamDone, StreamFailed, Arrives
  <2> QED BY <2>1, FinallyFetches
<1>7. CASE SessionCreated
  <2>1. fetches' = fetches \/ fetches' = Mounted(fetches, creating.session, page.workspace)
    BY <1>7 DEF SessionCreated
  <2>2. creating.session \in Sessions
    BY <1>7, SomeSession DEF SessionCreated
  <2> QED BY <1>1, <1>2, <2>1, <2>2
<1>8. ASSUME NEW s \in Sessions, SelectSession(s) \/ ConfirmDeleteSession(s)
      PROVE  \A x \in Sessions : fetches'[x].pc = "answered" => fetches'[x] = fetches[x]
  BY <1>2, <1>8 DEF SelectSession, ConfirmDeleteSession
<1>9. ASSUME \/ \E w \in PageWorkspaces : SwitchWorkspace(w)
             \/ \E text \in Prompts \cup {None} : UpdatePromptDraft(text)
             \/ SubmitPrompt \/ StopStreaming \/ CreateSession \/ Change \/ SessionDeleted
             \/ TakeUserMessage \/ TakeDelta \/ TakeAssistantMessage \/ UNCHANGED pageVars
      PROVE  fetches' = fetches
  BY <1>9 DEF SwitchWorkspace, UpdatePromptDraft, CreateSession, SubmitPrompt, StopStreaming, Change,
       SessionDeleted, TakeUserMessage, TakeDelta, TakeAssistantMessage, pageVars
<1> QED BY <1>1, <1>3, <1>4, <1>5, <1>6, <1>7, <1>8, <1>9
       DEF PageNext, UserStep, ApiStep, StreamStep, QueryStep

LEMMA BirthsInit == PageInit => Births
<1> SUFFICES ASSUME PageInit PROVE Births
  OBVIOUS
<1>1. PICK w \in PageWorkspaces : page = OpenedPage(w)
  BY DEF PageInit
<1>2. page.selected = None
  BY <1>1 DEF OpenedPage
<1>3. call.open = FALSE /\ creating.pc = "none" /\ deleting.pc = "none"
  BY DEF PageInit, NoCall, NoChange
<1>4. \A s \in Sessions : cached[s] = NoData /\ fetches[s].pc = "none"
  BY DEF PageInit, NoFetch
<1> QED BY <1>2, <1>3, <1>4 DEF Births

\* Only a creation makes a session that has not been.
LEMMA BornStays ==
  ASSUME PageTypes, Serving, Births, [PageNext]_pageVars, NEW s \in Sessions
  PROVE  /\ Born(s) => Born(s)'
         /\ ~Born(s) /\ Born(s)' => /\ creating.pc = "asked" /\ creating.session = s
                                    /\ creating'.pc = "done"
<1>0. stored \in [Sessions -> Seq(StoredMessage) \cup {Unborn, Deleted}] /\ creating \in ChangeState
  BY DEF PageTypes, StoredTyped, ChangesTyped
<1>1. CASE stored' = stored
  BY <1>1 DEF Born
<1>2. CASE creating.pc = "asked" /\ stored' = [stored EXCEPT ![creating.session] = <<>>]
           /\ creating' = [creating EXCEPT !.pc = "done"]
  <2>1. creating.session \in Sessions /\ creating'.pc = "done"
    BY <1>0, <1>2, SomeSession DEF ChangeState
  <2> QED BY <1>0, <1>2, <2>1, NoLists DEF Born
<1>3. CASE deleting.pc = "asked" /\ stored' = [stored EXCEPT ![deleting.session] = Deleted]
  <2>1. deleting.session \in Sessions /\ Born(deleting.session)
    BY <1>3, SomeSession DEF Births
  <2> QED BY <1>0, <1>3, <2>1, NoLists DEF Born
<1>4. ASSUME NEW n \in Prompted, serving[n].session \in Sessions, Exists(serving[n].session),
             NEW m \in StoredMessage, Store(n, m)
      PROVE  (Born(s) => Born(s)') /\ (~Born(s) => ~Born(s)')
  <2>1. stored' = [stored EXCEPT ![serving[n].session] = Append(stored[serving[n].session], m)]
    BY <1>4 DEF Store
  <2>2. stored[serving[n].session] \in Seq(StoredMessage)
    BY <1>0, <1>4 DEF Exists
  <2>3. Append(stored[serving[n].session], m) \in Seq(StoredMessage)
    BY <1>4, <2>2, AppendProperties
  <2>4. stored'[serving[n].session] # Unborn /\ stored[serving[n].session] # Unborn
    BY <1>0, <1>4, <2>1, <2>3, NoLists DEF Exists
  <2>5. s # serving[n].session => stored'[s] = stored[s]
    BY <1>0, <2>1
  <2> QED BY <2>4, <2>5 DEF Born
<1> QED BY <1>1, <1>2, <1>3, <1>4, StoredMoves, MessagesAre

LEMMA BirthsStep ==
  ASSUME PageTypes, Serving, Births, [PageNext]_pageVars
  PROVE  Births'
<1>0. /\ \A s \in Sessions : Born(s) => Born(s)'
      /\ \A s \in Sessions : ~Born(s) /\ Born(s)' => creating'.pc = "done"
  BY BornStays
<1>00. page \in PageState /\ creating \in ChangeState /\ deleting \in ChangeState
       /\ (page.selected # None => page.selected \in Sessions)
       /\ (call.open => call.session \in Sessions)
       /\ (creating.pc # "none" => creating.session \in Sessions)
       /\ (deleting.pc # "none" => deleting.session \in Sessions)
  BY SomeSession DEF PageTypes, PageTyped, ChangesTyped
<1>1. /\ creating'.pc = "asked" => stored'[creating'.session] = Unborn
      /\ creating'.pc = "done" => stored'[creating'.session] # Unborn
  <2>1. CASE creating' = creating
    BY <1>0, <1>00, <2>1 DEF Births, Born
  <2>2. CASE CreateSession
    <3>1. PICK s \in Sessions : stored[s] = Unborn
                                /\ creating' = [NoChange EXCEPT !.pc = "asked", !.session = s]
      BY <2>2 DEF CreateSession
    <3>2. creating'.pc = "asked" /\ creating'.session = s /\ stored' = stored
      BY <2>2, <3>1 DEF CreateSession, NoChange
    <3> QED BY <3>1, <3>2
  <2>3. CASE Change /\ creating' # creating
    <3>1. /\ creating.pc = "asked" /\ stored' = [stored EXCEPT ![creating.session] = <<>>]
          /\ creating' = [creating EXCEPT !.pc = "done"]
      BY <2>3 DEF Change
    <3>2. creating'.pc = "done" /\ creating'.session = creating.session /\ creating.session \in Sessions
      BY <1>00, <3>1 DEF ChangeState
    <3>3. stored'[creating.session] = <<>>
      BY <3>1, <3>2 DEF PageTypes, StoredTyped
    <3> QED BY <3>2, <3>3, NoLists
  <2>4. CASE creating' = NoChange
    BY <2>4 DEF NoChange
  <2>5. creating' = creating \/ CreateSession \/ Change \/ creating' = NoChange
    <3>1. ASSUME \/ \E w \in PageWorkspaces : SwitchWorkspace(w)
                 \/ \E s \in Sessions : SelectSession(s) \/ ConfirmDeleteSession(s)
                 \/ \E text \in Prompts \cup {None} : UpdatePromptDraft(text)
                 \/ SubmitPrompt \/ StopStreaming \/ SessionDeleted \/ UNCHANGED pageVars
          PROVE  creating' = creating
      BY <3>1 DEF SwitchWorkspace, SelectSession, ConfirmDeleteSession, UpdatePromptDraft, SubmitPrompt,
           StopStreaming, SessionDeleted, pageVars
    <3>2. ASSUME StreamStep PROVE creating' = creating
      BY <3>2 DEF StreamStep, TakeUserMessage, TakeDelta, TakeAssistantMessage, StreamDone, StreamFailed
    <3>3. ASSUME NEW s \in Sessions, AnswerFetch(s) \/ LoseFetch(s) \/ ReceiveFetch(s)
          PROVE  creating' = creating
      BY <3>3 DEF AnswerFetch, LoseFetch, ReceiveFetch
    <3>4. ASSUME NEW n \in Prompted,
                 StoreUserMessage(n) \/ SendDelta(n) \/ Finish(n) \/ GiveUp(n) \/ BreakStream(n)
          PROVE  creating' = creating
      BY <3>4, ApiStores
    <3> QED BY <3>1, <3>2, <3>3, <3>4 DEF PageNext, UserStep, ApiStep, QueryStep, SessionCreated
  <2> QED BY <2>1, <2>2, <2>3, <2>4, <2>5
<1>2. deleting'.pc # "none" => deleting'.session \in Sessions /\ Born(deleting'.session)
  <2>1. CASE deleting' = deleting
    BY <1>00, <2>1 DEF Births
  <2>2. ASSUME NEW s \in Sessions, ConfirmDeleteSession(s) PROVE deleting'.session = s /\ Born(s)
    BY <2>2, NoLists DEF ConfirmDeleteSession, Exists, Born
  <2>3. CASE deleting.pc = "asked" /\ deleting' = [deleting EXCEPT !.pc = "done"]
    <3>1. deleting'.session = deleting.session
      BY <1>00, <2>3 DEF ChangeState
    <3> QED BY <1>00, <2>3, <3>1 DEF Births
  <2>4. CASE deleting' = NoChange
    BY <2>4 DEF NoChange
  <2>5. \/ deleting' = deleting \/ deleting' = NoChange
        \/ deleting.pc = "asked" /\ deleting' = [deleting EXCEPT !.pc = "done"]
        \/ \E s \in Sessions : ConfirmDeleteSession(s)
    <3>1. ASSUME \/ \E w \in PageWorkspaces : SwitchWorkspace(w)
                 \/ \E s \in Sessions : SelectSession(s)
                 \/ \E text \in Prompts \cup {None} : UpdatePromptDraft(text)
                 \/ SubmitPrompt \/ StopStreaming \/ CreateSession \/ SessionCreated \/ UNCHANGED pageVars
          PROVE  deleting' = deleting
      BY <3>1 DEF SwitchWorkspace, SelectSession, UpdatePromptDraft, SubmitPrompt, CreateSession,
           StopStreaming, SessionCreated, pageVars
    <3>2. ASSUME StreamStep PROVE deleting' = deleting
      BY <3>2 DEF StreamStep, TakeUserMessage, TakeDelta, TakeAssistantMessage, StreamDone, StreamFailed
    <3>3. ASSUME NEW s \in Sessions, AnswerFetch(s) \/ LoseFetch(s) \/ ReceiveFetch(s)
          PROVE  deleting' = deleting
      BY <3>3 DEF AnswerFetch, LoseFetch, ReceiveFetch
    <3>4. ASSUME NEW n \in Prompted,
                 StoreUserMessage(n) \/ SendDelta(n) \/ Finish(n) \/ GiveUp(n) \/ BreakStream(n)
          PROVE  deleting' = deleting
      BY <3>4, ApiStores
    <3> QED BY <3>1, <3>2, <3>3, <3>4 DEF PageNext, UserStep, ApiStep, QueryStep, SessionDeleted, Change
  <2> QED BY <2>1, <2>2, <2>3, <2>4, <2>5
<1>3. page'.selected # None => page'.selected \in Sessions /\ Born(page'.selected)
  <2>1. page'.selected = page.selected \/ page'.selected = None
        \/ (\E s \in Sessions : SelectSession(s) /\ page'.selected = s)
        \/ (creating.pc = "done" /\ page'.selected = creating.session)
    <3>1. ASSUME \E w \in PageWorkspaces : SwitchWorkspace(w) PROVE page'.selected = None
      BY <1>00, <3>1, SwitchedPage
    <3>2. ASSUME NEW s \in Sessions, SelectSession(s) PROVE page'.selected = s
      BY <1>00, <3>2, SelectedPage DEF SelectSession
    <3>3. ASSUME NEW text \in Prompts \cup {None}, UpdatePromptDraft(text) PROVE page'.selected = page.selected
      <4>1. page.selected \in Sessions
        BY <1>00, <3>3 DEF UpdatePromptDraft, Composer
      <4> QED BY <1>00, <3>3, <4>1, EditedPage
    <3>4. ASSUME SubmitPrompt PROVE page'.selected = page.selected
      BY <1>00, <3>4, SubmittedPage
    <3>5. ASSUME SessionCreated PROVE creating.pc = "done" /\ page'.selected = creating.session
      BY <1>00, <3>5, SelectedPage DEF SessionCreated
    <3>6. ASSUME SessionDeleted PROVE page'.selected = None \/ page'.selected = page.selected
      BY <1>00, <3>6, SelectedPage DEF SessionDeleted
    <3>7. ASSUME StreamStep PROVE page'.selected = page.selected
      BY <3>7, SentPage, StreamLooks DEF StreamStep, LooksSame
    <3>8. ASSUME NEW n \in Prompted,
                 StoreUserMessage(n) \/ SendDelta(n) \/ Finish(n) \/ GiveUp(n) \/ BreakStream(n)
          PROVE  page'.selected = page.selected
      BY <3>8, ApiStores
    <3>9. ASSUME NEW s \in Sessions,
                 AnswerFetch(s) \/ LoseFetch(s) \/ ReceiveFetch(s) \/ ConfirmDeleteSession(s)
          PROVE  page'.selected = page.selected
      BY <3>9 DEF AnswerFetch, LoseFetch, ReceiveFetch, ConfirmDeleteSession
    <3>10. ASSUME StopStreaming \/ CreateSession \/ Change \/ UNCHANGED pageVars
           PROVE  page'.selected = page.selected
      BY <3>10 DEF StopStreaming, CreateSession, Change, pageVars
    <3> QED BY <3>1, <3>2, <3>3, <3>4, <3>5, <3>6, <3>7, <3>8, <3>9, <3>10
           DEF PageNext, UserStep, ApiStep, QueryStep
  <2>2. ASSUME NEW s \in Sessions, SelectSession(s) PROVE Born(s)
    <3>1. Exists(s) \/ (deleting.pc # "none" /\ deleting.session = s)
      BY <2>2 DEF SelectSession, Listed
    <3> QED BY <3>1 DEF Births, Exists, Born
  <2> QED BY <1>00, <2>1, <2>2 DEF Births
<1>4. call'.open => call'.session \in Sessions /\ Born(call'.session)
  <2>1. call' = NoCall => call'.open = FALSE
    BY DEF NoCall
  <2>2. SubmitPrompt => call'.session = page.selected /\ page.selected # None
    BY DEF SubmitPrompt, Composer, NoCall
  <2> QED BY <1>00, <2>1, <2>2, CallKept DEF Births
<1>5. ASSUME NEW s \in Sessions, fetches'[s].pc = "answered" PROVE Born(s)
  <2>1. fetches[s].pc = "answered" \/ Exists(s)
    BY <1>5, FetchAnswers
  <2> QED BY <2>1 DEF Births, Exists, Born
<1>6. ASSUME NEW s \in Sessions, cached'[s] # NoData PROVE Born(s)
  <2>0. cached \in [Sessions -> Seq(Message) \cup {NoData}]
    BY DEF PageTypes, CachedTyped
  <2>1. CASE cached' = cached
    BY <1>6, <2>1 DEF Births
  <2>2. ASSUME NEW x \in Sessions, ReceiveFetch(x) PROVE Born(s)
    <3>1. cached' = cached \/ (fetches[x].pc = "answered" /\ cached' = [cached EXCEPT ![x] = fetches[x].list])
      BY <2>2 DEF ReceiveFetch
    <3> QED BY <1>6, <2>0, <3>1 DEF Births
  <2>3. CASE StreamStep
    <3>1. call.open /\ \E l : cached' = cached \/ cached' = [cached EXCEPT ![call.session] = l]
      BY <2>3 DEF StreamStep, TakeUserMessage, TakeDelta, AppendDelta, TakeAssistantMessage, StreamDone,
           StreamFailed, Arrives
    <3> QED BY <1>6, <2>0, <3>1 DEF Births
  <2>4. ASSUME \/ \E w \in PageWorkspaces : SwitchWorkspace(w)
               \/ \E x \in Sessions : SelectSession(x) \/ ConfirmDeleteSession(x)
               \/ \E text \in Prompts \cup {None} : UpdatePromptDraft(text)
               \/ SubmitPrompt \/ StopStreaming \/ CreateSession \/ Change \/ SessionCreated
               \/ SessionDeleted \/ UNCHANGED pageVars
        PROVE  cached' = cached
    BY <2>4 DEF SwitchWorkspace, SelectSession, ConfirmDeleteSession, UpdatePromptDraft, SubmitPrompt,
         StopStreaming, CreateSession, Change, SessionCreated, SessionDeleted, pageVars
  <2>5. ASSUME NEW x \in Sessions, AnswerFetch(x) \/ LoseFetch(x) PROVE cached' = cached
    BY <2>5 DEF AnswerFetch, LoseFetch
  <2>6. ASSUME NEW n \in Prompted,
               StoreUserMessage(n) \/ SendDelta(n) \/ Finish(n) \/ GiveUp(n) \/ BreakStream(n)
        PROVE  cached' = cached
    BY <2>6, ApiStores
  <2> QED BY <2>1, <2>2, <2>3, <2>4, <2>5, <2>6 DEF PageNext, UserStep, ApiStep, QueryStep
<1> QED BY <1>0, <1>1, <1>2, <1>3, <1>4, <1>5, <1>6 DEF Births, Born

-----------------------------------------------------------------------------
(* Caches at rest.                                                         *)

LEMMA SettledInit == PageInit => Settled
<1> SUFFICES ASSUME PageInit, NEW s \in Sessions PROVE Settling(s)
  BY DEF Settled
<1>1. cached[s] = NoData /\ fetches[s].pc = "none"
  BY DEF PageInit, NoFetch
<1> QED BY <1>1 DEF Settling

LEMMA SettlingStays ==
  ASSUME NEW x \in Sessions, Settling(x), stored'[x] = stored[x], cached'[x] = cached[x],
         x \in seen.doubtful => x \in seen'.doubtful,
         call.open /\ call.session = x => call'.open /\ call'.session = x,
         fetches'[x] = fetches[x] \/ fetches'[x].pc \in {"asked", "refused"}
  PROVE  Settling(x)'
<1>1. CASE fetches'[x] = fetches[x]
  BY <1>1 DEF Settling, Exists
<1>2. CASE fetches'[x].pc \in {"asked", "refused"}
  BY <1>2 DEF Settling
<1> QED BY <1>1, <1>2

LEMMA SettlingCalled ==
  ASSUME NEW x \in Sessions, Settling(x), call'.open, call'.session = x, fetches'[x] = fetches[x],
         x \in seen.doubtful => x \in seen'.doubtful
  PROVE  Settling(x)'
<1> QED BY DEF Settling

\* What the API stores for a client that has left is in doubt; what it stores for one that
\* waits, that one will read of.
LEMMA StoreSettles ==
  ASSUME PageTypes, Serving, Settled, UNCHANGED <<call, cached>>, NEW n \in Prompted,
         serving[n].session \in Sessions, serving[n].pc # "none", NEW m \in StoredMessage, Store(n, m)
  PROVE  Settled'
<1> DEFINE s == serving[n].session
<1>0. s \in Sessions /\ seen \in Seen /\ fetches \in [Sessions -> FetchState]
      /\ stored \in [Sessions -> Seq(StoredMessage) \cup {Unborn, Deleted}]
  BY DEF PageTypes, SeenTyped, FetchesTyped, StoredTyped
<1>1. stored' = [stored EXCEPT ![s] = Append(stored[s], m)]
  BY DEF Store
<1>2. \/ serving[n].left /\ seen' = [seen EXCEPT !.doubtful = @ \cup {s}]
         /\ fetches' = [fetches EXCEPT ![s].sure = FALSE]
      \/ ~serving[n].left /\ UNCHANGED <<seen, fetches>>
  BY DEF Store
<1>3. ~serving[n].left => call.open /\ call.session = s
  <2>1. ~serving[n].left => call.open /\ call.n = n
    BY DEF Serving, Submitting
  <2> QED BY <2>1 DEF Serving, Heard
<1> HIDE DEF s
<1> SUFFICES ASSUME NEW x \in Sessions PROVE Settling(x)'
  BY DEF Settled
<1>4. Settling(x)
  BY DEF Settled
<1>5. CASE ~serving[n].left
  <2>1. UNCHANGED <<seen, fetches>> /\ call'.open /\ call'.session = s
    BY <1>2, <1>3, <1>5
  <2>2. CASE x = s
    BY <1>4, <2>1, <2>2, SettlingCalled
  <2>3. CASE x # s
    <3>1. stored'[x] = stored[x]
      BY <1>0, <1>1, <2>3
    <3> QED BY <1>4, <2>1, <3>1, SettlingStays
  <2> QED BY <2>2, <2>3
<1>6. CASE serving[n].left
  <2>1. seen'.doubtful = seen.doubtful \cup {s}
    BY <1>0, <1>2, <1>6 DEF Seen
  <2>2. fetches' = [fetches EXCEPT ![s].sure = FALSE]
    BY <1>2, <1>6
  <2>3. CASE x = s
    <3>1. fetches'[x].sure = FALSE
      BY <1>0, <2>2, <2>3, UnsureFetches
    <3> QED BY <2>1, <2>3, <3>1 DEF Settling
  <2>4. CASE x # s
    <3>1. stored'[x] = stored[x] /\ fetches'[x] = fetches[x]
      BY <1>0, <1>1, <2>2, <2>4
    <3> QED BY <1>4, <2>1, <3>1, SettlingStays
  <2> QED BY <2>3, <2>4
<1> QED BY <1>5, <1>6

\* What comes from the API replaces what is cached, or leaves it in doubt.
LEMMA ReceivedSettles ==
  ASSUME PageTypes, Settled, NEW s \in Sessions, ReceiveFetch(s)
  PROVE  Settled'
<1>0. seen \in Seen /\ fetches \in [Sessions -> FetchState]
      /\ cached \in [Sessions -> Seq(Message) \cup {NoData}] /\ page \in PageState
  BY DEF PageTypes, SeenTyped, FetchesTyped, CachedTyped, PageTyped
<1>00. UNCHANGED <<call, stored>>
  BY DEF ReceiveFetch
<1> SUFFICES ASSUME NEW x \in Sessions PROVE Settling(x)'
  BY DEF Settled
<1>1. Settling(x)
  BY DEF Settled
<1>2. NoFetch.pc = "none" /\ Asked(TRUE).pc = "asked"
  BY <1>0, AskedIsFetch DEF NoFetch, PageState
<1>3. CASE /\ fetches[s].pc = "answered" /\ cached' = [cached EXCEPT ![s] = fetches[s].list]
           /\ fetches' = [fetches EXCEPT ![s] = NoFetch]
           /\ seen' = [seen EXCEPT !.doubtful = IF fetches[s].sure THEN @ \ {s} ELSE @]
  <2>1. seen'.doubtful = IF fetches[s].sure THEN seen.doubtful \ {s} ELSE seen.doubtful
    BY <1>0, <1>3 DEF Seen
  <2>2. CASE x = s
    <3>1. fetches'[x].pc = "none" /\ cached'[x] = fetches[x].list
      BY <1>0, <1>2, <1>3, <2>2
    <3>2. x \notin seen'.doubtful => fetches[x].sure
      BY <1>1, <1>3, <2>1, <2>2 DEF Settling
    <3> QED BY <1>00, <1>1, <1>3, <2>2, <3>1, <3>2 DEF Settling, Exists
  <2>3. CASE x # s
    <3>1. fetches'[x] = fetches[x] /\ cached'[x] = cached[x]
      BY <1>0, <1>3, <2>3
    <3> QED BY <1>00, <1>1, <2>1, <2>3, <3>1, SettlingStays
  <2> QED BY <2>2, <2>3
<1>4. CASE fetches' = [fetches EXCEPT ![s] = Asked(TRUE)] /\ UNCHANGED <<cached, seen>>
  BY <1>0, <1>00, <1>1, <1>2, <1>4, SettlingStays
<1>5. CASE /\ fetches' = [fetches EXCEPT ![s] = NoFetch]
           /\ seen' = [seen EXCEPT !.doubtful = @ \cup {s}] /\ UNCHANGED cached
  <2>1. seen'.doubtful = seen.doubtful \cup {s}
    BY <1>0, <1>5 DEF Seen
  <2>2. CASE x = s
    <3>1. fetches'[x].pc = "none"
      BY <1>0, <1>2, <1>5, <2>2
    <3> QED BY <2>1, <2>2, <3>1 DEF Settling
  <2>3. CASE x # s
    <3>1. fetches'[x] = fetches[x] /\ cached'[x] = cached[x]
      BY <1>0, <1>5, <2>3
    <3> QED BY <1>00, <1>1, <2>1, <3>1, SettlingStays
  <2> QED BY <2>2, <2>3
<1> QED BY <1>3, <1>4, <1>5 DEF ReceiveFetch

LEMMA StreamSettles ==
  ASSUME PageTypes, Settled, StreamStep
  PROVE  Settled'
<1>0. cached \in [Sessions -> Seq(Message) \cup {NoData}] /\ call \in CallState /\ seen \in Seen
  BY DEF PageTypes, CachedTyped, CallTyped, SeenTyped
<1>1. call.open /\ call.session \in Sessions
  BY DEF StreamStep, TakeUserMessage, TakeDelta, TakeAssistantMessage, StreamDone, StreamFailed, Arrives,
         PageTypes, CallTyped, CallState
<1> SUFFICES ASSUME NEW x \in Sessions PROVE Settling(x)'
  BY DEF Settled
<1>2. Settling(x)
  BY DEF Settled
<1>3. stored' = stored /\ (x # call.session => cached'[x] = cached[x])
  <2>1. PICK l : cached' = cached \/ cached' = [cached EXCEPT ![call.session] = l]
    BY DEF StreamStep, TakeUserMessage, TakeDelta, AppendDelta, TakeAssistantMessage, StreamDone, StreamFailed
  <2> QED BY <1>0, <2>1 DEF StreamStep, TakeUserMessage, TakeDelta, TakeAssistantMessage, StreamDone,
       StreamFailed
<1>4. ASSUME call'.open = call.open, call'.session = call.session, fetches' = fetches,
             seen.doubtful = seen'.doubtful
      PROVE  Settling(x)'
  BY <1>1, <1>2, <1>3, <1>4, SettlingCalled, SettlingStays
<1>5. CASE TakeUserMessage
  <2>1. seen'.doubtful = seen.doubtful
    BY <1>0, <1>5 DEF TakeUserMessage, Seen
  <2> QED BY <1>4, <1>5, <2>1 DEF TakeUserMessage
<1>6. CASE TakeDelta
  <2>1. call' = [call EXCEPT !.taken = @ + 1] /\ UNCHANGED <<fetches, seen>>
    BY <1>6 DEF TakeDelta
  <2>2. call'.open = call.open
    BY <1>0, <2>1 DEF CallState
  <2>3. call'.session = call.session
    BY <1>0, <2>1 DEF CallState
  <2> QED BY <1>4, <2>1, <2>2, <2>3
<1>7. CASE TakeAssistantMessage
  BY <1>4, <1>7 DEF TakeAssistantMessage
<1>8. CASE StreamDone \/ StreamFailed
  <2>1. Finally(call.session)
    BY <1>8 DEF StreamDone, StreamFailed
  <2>2. /\ x # call.session => fetches'[x] = fetches[x]
        /\ seen.doubtful \subseteq seen'.doubtful
        /\ \/ fetches'[call.session].pc = "asked"
           \/ call.session \in seen'.doubtful /\ fetches'[call.session].sure = FALSE
    BY <1>1, <2>1, FinallyFetches
  <2>3. CASE x = call.session
    BY <2>2, <2>3 DEF Settling
  <2>4. CASE x # call.session
    BY <1>2, <1>3, <2>2, <2>4, SettlingStays
  <2> QED BY <2>3, <2>4
<1> QED BY <1>5, <1>6, <1>7, <1>8 DEF StreamStep

LEMMA SettledStep ==
  ASSUME PageTypes, Serving, Births, Settled, [PageNext]_pageVars
  PROVE  Settled'
<1>0. seen \in Seen /\ fetches \in [Sessions -> FetchState] /\ page \in PageState
      /\ call \in CallState /\ page.workspace \in PageWorkspaces
      /\ stored \in [Sessions -> Seq(StoredMessage) \cup {Unborn, Deleted}]
  BY DEF PageTypes, SeenTyped, FetchesTyped, PageTyped, CallTyped, StoredTyped, PageState
<1>1. ASSUME UNCHANGED <<stored, cached>>, seen'.doubtful = seen.doubtful,
             call.open => call'.open /\ call'.session = call.session,
             \A x \in Sessions : fetches'[x] = fetches[x] \/ fetches'[x].pc \in {"asked", "refused"}
      PROVE  Settled'
  <2> SUFFICES ASSUME NEW x \in Sessions PROVE Settling(x)'
    BY DEF Settled
  <2> QED BY <1>1, SettlingStays DEF Settled
<1>2. ASSUME NEW w \in PageWorkspaces, SwitchWorkspace(w) PROVE Settled'
  <2>1. seen'.doubtful = seen.doubtful
    BY <1>0, <1>2 DEF SwitchWorkspace, Seen
  <2> QED BY <1>1, <1>2, <2>1 DEF SwitchWorkspace
<1>3. ASSUME NEW s \in Sessions, SelectSession(s) PROVE Settled'
  <2>1. seen'.doubtful = seen.doubtful
    BY <1>0, <1>3 DEF SelectSession, Seen
  <2>2. \A x \in Sessions : fetches'[x] = fetches[x] \/ fetches'[x].pc = "asked"
    BY <1>0, <1>3, MountedFetches DEF SelectSession
  <2> QED BY <1>1, <1>3, <2>1, <2>2 DEF SelectSession
<1>4. ASSUME NEW text \in Prompts \cup {None}, UpdatePromptDraft(text) PROVE Settled'
  <2>1. seen'.doubtful = seen.doubtful
    BY <1>0, <1>4 DEF UpdatePromptDraft, Seen
  <2> QED BY <1>1, <1>4, <2>1 DEF UpdatePromptDraft
<1>5. CASE SubmitPrompt
  <2>1. ~call.open /\ UNCHANGED <<stored, cached, seen, fetches>>
    BY <1>5 DEF SubmitPrompt, Composer, PageTypes, PageTyped
  <2> QED BY <1>1, <2>1
<1>6. CASE StopStreaming
  <2>1. call' = [call EXCEPT !.aborted = TRUE] /\ UNCHANGED <<stored, cached, seen, fetches>>
    BY <1>6 DEF StopStreaming
  <2>2. call'.session = call.session
    BY <1>0, <2>1 DEF CallState
  <2>3. call'.open = call.open
    BY <1>0, <2>1 DEF CallState
  <2> QED BY <1>1, <2>1, <2>2, <2>3
<1>7. ASSUME CreateSession \/ (\E s \in Sessions : ConfirmDeleteSession(s)) \/ UNCHANGED pageVars PROVE Settled'
  <2>1. UNCHANGED <<stored, cached, seen, fetches, call>>
    BY <1>7 DEF CreateSession, ConfirmDeleteSession, pageVars
  <2> QED BY <1>1, <2>1
<1>8. ASSUME NEW s \in Sessions, AnswerFetch(s) PROVE Settled'
  <2>1. UNCHANGED <<stored, cached, seen, call>>
    BY <1>8 DEF AnswerFetch
  <2>2. CASE fetches' = [fetches EXCEPT ![s].pc = "refused"]
    <3>1. fetches'[s].pc = "refused" /\ \A x \in Sessions : x # s => fetches'[x] = fetches[x]
      BY <1>0, <2>2 DEF FetchState
    <3>2. \A x \in Sessions : fetches'[x] = fetches[x] \/ fetches'[x].pc \in {"asked", "refused"}
      BY <3>1
    <3> QED BY <1>1, <2>1, <3>2
  <2>3. CASE fetches' = [fetches EXCEPT ![s].pc = "answered", ![s].list = stored[s], ![s].sure = TRUE]
    <3> DEFINE f == [fetches[s] EXCEPT !.pc = "answered", !.list = stored[s], !.sure = TRUE]
    <3>1. fetches' = [fetches EXCEPT ![s] = f]
      BY <1>0, <2>3
    <3>2. f.pc = "answered" /\ f.list = stored[s]
      BY <1>0 DEF FetchState
    <3>3. f.sure = TRUE
      BY <1>0 DEF FetchState
    <3> HIDE DEF f
    <3>4. fetches'[s] = f /\ \A x \in Sessions : x # s => fetches'[x] = fetches[x]
      BY <1>0, <3>1
    <3> SUFFICES ASSUME NEW x \in Sessions PROVE Settling(x)'
      BY DEF Settled
    <3>5. CASE x = s
      BY <2>1, <3>2, <3>3, <3>4, <3>5 DEF Settling, Exists
    <3>6. CASE x # s
      BY <2>1, <3>4, <3>6, SettlingStays DEF Settled
    <3> QED BY <3>5, <3>6
  <2> QED BY <1>8, <2>2, <2>3 DEF AnswerFetch
<1>9. ASSUME NEW s \in Sessions, LoseFetch(s) PROVE Settled'
  <2>1. fetches' = [fetches EXCEPT ![s].pc = "refused"] /\ UNCHANGED <<stored, cached, seen, call>>
    BY <1>9 DEF LoseFetch
  <2>2. fetches'[s].pc = "refused" /\ \A x \in Sessions : x # s => fetches'[x] = fetches[x]
    BY <1>0, <2>1 DEF FetchState
  <2>3. \A x \in Sessions : fetches'[x] = fetches[x] \/ fetches'[x].pc \in {"asked", "refused"}
    BY <2>2
  <2> QED BY <1>1, <2>1, <2>3
<1>10. ASSUME NEW n \in Prompted,
              StoreUserMessage(n) \/ SendDelta(n) \/ Finish(n) \/ GiveUp(n) \/ BreakStream(n)
       PROVE  Settled'
  <2>1. /\ UNCHANGED <<page, call, cached, creating, deleting>>
        /\ \/ UNCHANGED <<stored, seen, fetches>>
           \/ /\ serving[n].session \in Sessions /\ Exists(serving[n].session)
              /\ serving[n].pc \in {"asked", "started"}
              /\ \/ StoreUserMessage(n) /\ Store(n, User(n)) /\ serving[n].pc = "asked"
                 \/ (Finish(n) \/ GiveUp(n)) /\ Store(n, Reply(n))
    BY <1>10, ApiStores
  <2>2. CASE UNCHANGED <<stored, seen, fetches>>
    BY <1>1, <2>1, <2>2
  <2>3. CASE serving[n].session \in Sessions /\ serving[n].pc # "none" /\ Store(n, User(n))
    BY <2>1, <2>3, MessagesAre, StoreSettles
  <2>4. CASE serving[n].session \in Sessions /\ serving[n].pc # "none" /\ Store(n, Reply(n))
    BY <2>1, <2>4, MessagesAre, StoreSettles
  <2> QED BY <2>1, <2>2, <2>3, <2>4
<1>11. CASE Change
  <2>1. UNCHANGED <<call, cached, fetches>>
    BY <1>11 DEF Change
  <2>2. CASE creating.pc = "asked" /\ stored' = [stored EXCEPT ![creating.session] = <<>>] /\ UNCHANGED seen
    <3>1. creating.session \in Sessions /\ ~Born(creating.session)
      BY <2>2, SomeSession DEF Births
    <3>2. cached[creating.session] = NoData /\ fetches[creating.session].pc # "answered"
      BY <3>1 DEF Births
    <3>3. \A x \in Sessions : x # creating.session => stored'[x] = stored[x]
      BY <1>0, <2>2, <3>1
    <3> SUFFICES ASSUME NEW x \in Sessions PROVE Settling(x)'
      BY DEF Settled
    <3>4. CASE x = creating.session
      BY <2>1, <3>2, <3>4 DEF Settling
    <3>5. CASE x # creating.session
      BY <2>1, <2>2, <3>3, <3>5, SettlingStays DEF Settled
    <3> QED BY <3>4, <3>5
  <2>3. CASE deleting.pc = "asked" /\ stored' = [stored EXCEPT ![deleting.session] = Deleted]
             /\ seen' = [seen EXCEPT !.stray = @ \/ page.selected = deleting.session]
    <3>1. deleting.session \in Sessions
      BY <2>3, SomeSession
    <3>2. stored'[deleting.session] = Deleted /\ \A x \in Sessions : x # deleting.session => stored'[x] = stored[x]
      BY <1>0, <2>3, <3>1
    <3>3. seen'.doubtful = seen.doubtful
      BY <1>0, <2>3 DEF Seen
    <3> SUFFICES ASSUME NEW x \in Sessions PROVE Settling(x)'
      BY DEF Settled
    <3>4. Settling(x)
      BY DEF Settled
    <3>5. CASE x = deleting.session
      BY <2>1, <3>2, <3>3, <3>4, <3>5 DEF Settling, Exists
    <3>6. CASE x # deleting.session
      BY <2>1, <3>2, <3>3, <3>4, <3>6, SettlingStays
    <3> QED BY <3>5, <3>6
  <2> QED BY <1>11, <2>2, <2>3 DEF Change
<1>12. CASE SessionCreated
  <2>1. UNCHANGED <<stored, cached, call>> /\ seen'.doubtful = seen.doubtful
    BY <1>0, <1>12 DEF SessionCreated, Seen
  <2>2. creating.session \in Sessions
        /\ (fetches' = fetches \/ fetches' = Mounted(fetches, creating.session, page.workspace))
    BY <1>12, SomeSession DEF SessionCreated
  <2>3. \A x \in Sessions : fetches'[x] = fetches[x] \/ fetches'[x].pc = "asked"
    BY <1>0, <2>2, MountedFetches
  <2> QED BY <1>1, <2>1, <2>3
<1>13. CASE SessionDeleted
  <2>1. seen'.doubtful = seen.doubtful
    BY <1>0, <1>13 DEF SessionDeleted, Seen
  <2> QED BY <1>1, <1>13, <2>1 DEF SessionDeleted
<1> QED BY <1>2, <1>3, <1>4, <1>5, <1>6, <1>7, <1>8, <1>9, <1>10, <1>11, <1>12, <1>13, StreamSettles,
       ReceivedSettles DEF PageNext, UserStep, ApiStep, QueryStep

-----------------------------------------------------------------------------
(* What is stored of a session, and what a fetch has of it.                *)

LEMMA OfStoredStays ==
  ASSUME NEW list \in Seq(StoredMessage), NEW s \in Sessions, NEW r, NEW q, OfStored(s, list, r),
         \A n \in Prompted : r[n].session = s => r[n].pc # "none",
         \A n \in Prompted : Advanced(r[n], q[n])
  PROVE  OfStored(s, list, q)
<1>1. \A i \in DOMAIN list : list[i].n \in Prompted
  <2>1. \A i \in DOMAIN list : list[i] \in StoredMessage
    OBVIOUS
  <2> QED BY <2>1 DEF StoredMessage
<1>2. ASSUME NEW i \in DOMAIN list
      PROVE  /\ q[list[i].n].session = s /\ q[list[i].n].pc # "asked"
             /\ list[i].kind = "answer" => q[list[i].n].pc = "over"
  <2>1. list[i].n \in Prompted /\ r[list[i].n].session = s /\ r[list[i].n].pc \notin {"none", "asked"}
        /\ (list[i].kind = "answer" => r[list[i].n].pc = "over")
    BY <1>1 DEF OfStored
  <2>2. Advanced(r[list[i].n], q[list[i].n])
    BY <2>1
  <2> QED BY <2>1, <2>2 DEF Advanced
<1>3. \A i, j \in DOMAIN list : i # j => list[i] # list[j]
  BY DEF OfStored
<1> QED BY <1>2, <1>3 DEF OfStored

LEMMA OfStoredAppended ==
  ASSUME NEW list \in Seq(StoredMessage), NEW s \in Sessions, NEW r, OfStored(s, list, r),
         NEW m \in StoredMessage, r[m.n].session = s, r[m.n].pc # "asked",
         m.kind = "answer" => r[m.n].pc = "over", \A i \in DOMAIN list : list[i] # m
  PROVE  OfStored(s, Append(list, m), r)
<1> DEFINE new == Append(list, m)
<1>1. /\ DOMAIN new = (DOMAIN list) \cup {Len(list) + 1} /\ Len(list) + 1 \notin DOMAIN list
      /\ \A i \in DOMAIN list : new[i] = list[i]
      /\ new[Len(list) + 1] = m
  BY AppendProperties
<1> HIDE DEF new
<1>2. /\ \A i \in DOMAIN list :
           /\ r[list[i].n].session = s /\ r[list[i].n].pc # "asked"
           /\ list[i].kind = "answer" => r[list[i].n].pc = "over"
      /\ \A i, j \in DOMAIN list : i # j => list[i] # list[j]
  BY DEF OfStored
<1>3. \A i \in DOMAIN new :
        /\ r[new[i].n].session = s /\ r[new[i].n].pc # "asked"
        /\ new[i].kind = "answer" => r[new[i].n].pc = "over"
  BY <1>1, <1>2
<1>4. \A i, j \in DOMAIN new : i # j => new[i] # new[j]
  BY <1>1, <1>2
<1>5. OfStored(s, new, r)
  BY <1>3, <1>4 DEF OfStored
<1> QED BY <1>5 DEF new

LEMMA StoredOwnInit == PageInit => StoredAreTheirOwn
<1> SUFFICES ASSUME PageInit, NEW s \in Sessions
             PROVE  /\ Exists(s) => OfStored(s, stored[s], serving)
                    /\ fetches[s].pc = "answered" => OfStored(s, fetches[s].list, serving)
  BY DEF StoredAreTheirOwn
<1>1. fetches[s].pc = "none" /\ stored[s] \in {<<>>, Unborn}
  BY DEF PageInit, NoFetch
<1>2. DOMAIN <<>> = {}
  OBVIOUS
<1> QED BY <1>1, <1>2 DEF Exists, OfStored

\* A message is stored once, of the session its request is of.
LEMMA StoreOfItsOwn ==
  ASSUME PageTypes, Serving, StoredAreTheirOwn, NEW n \in Prompted, serving[n].session \in Sessions,
         Exists(serving[n].session), NEW m \in StoredMessage, m.n = n, Store(n, m),
         serving[n].pc \in {"asked", "started"}, m.kind = "user" => serving[n].pc = "asked",
         serving'[n].session = serving[n].session, serving'[n].pc # "asked",
         m.kind = "answer" => serving'[n].pc = "over",
         \A k \in Prompted : Advanced(serving[k], serving'[k]),
         NEW s \in Sessions, Exists(s)'
  PROVE  OfStored(s, stored'[s], serving')
<1>0. stored \in [Sessions -> Seq(StoredMessage) \cup {Unborn, Deleted}]
  BY DEF PageTypes, StoredTyped
<1>1. \A k \in Prompted : serving[k].session = s => serving[k].pc # "none"
  <2>1. s # None
    BY PageConstants
  <2>2. NoRequest.session = None
    BY DEF NoRequest
  <2> QED BY <2>1, <2>2 DEF Serving, Submitting
<1>2. stored' = [stored EXCEPT ![serving[n].session] = Append(stored[serving[n].session], m)]
  BY DEF Store
<1>3. CASE s # serving[n].session
  <2>1. stored'[s] = stored[s] /\ Exists(s)
    BY <1>0, <1>2, <1>3 DEF Exists
  <2>2. OfStored(s, stored[s], serving) /\ stored[s] \in Seq(StoredMessage)
    BY <1>0, <2>1 DEF StoredAreTheirOwn, Exists
  <2> QED BY <1>1, <2>1, <2>2, OfStoredStays
<1>4. CASE s = serving[n].session
  <2> DEFINE list == stored[s]
  <2>1. stored'[s] = Append(list, m) /\ list \in Seq(StoredMessage) /\ OfStored(s, list, serving)
    BY <1>0, <1>2, <1>4 DEF Exists, StoredAreTheirOwn
  <2> HIDE DEF list
  <2>2. OfStored(s, list, serving')
    BY <1>1, <2>1, OfStoredStays
  <2>3. m.kind \in {"user", "answer"}
    BY DEF StoredMessage
  <2>4. \A i \in DOMAIN list : list[i] # m
    BY <2>1, <2>3 DEF OfStored
  <2>5. serving'[n].session = s
    BY <1>4
  <2> QED BY <2>1, <2>2, <2>4, <2>5, OfStoredAppended
<1> QED BY <1>3, <1>4

LEMMA StoredOwnStep ==
  ASSUME PageTypes, Serving, StoredAreTheirOwn, [PageNext]_pageVars
  PROVE  StoredAreTheirOwn'
<1>0. stored \in [Sessions -> Seq(StoredMessage) \cup {Unborn, Deleted}]
      /\ fetches \in [Sessions -> FetchState]
  BY DEF PageTypes, StoredTyped, FetchesTyped
<1>1. \A n \in Prompted : Advanced(serving[n], serving'[n])
  BY RequestsAdvance
<1> SUFFICES ASSUME NEW s \in Sessions
             PROVE  /\ Exists(s)' => OfStored(s, stored'[s], serving')
                    /\ fetches'[s].pc = "answered" => OfStored(s, fetches'[s].list, serving')
  BY DEF StoredAreTheirOwn, OfStored
<1>2. \A k \in Prompted : serving[k].session = s => serving[k].pc # "none"
  <2>1. s # None
    BY PageConstants
  <2>2. NoRequest.session = None
    BY DEF NoRequest
  <2> QED BY <2>1, <2>2 DEF Serving, Submitting
<1>3. ASSUME stored'[s] = stored[s], Exists(s)' PROVE OfStored(s, stored'[s], serving')
  <2>1. Exists(s) /\ stored[s] \in Seq(StoredMessage)
    BY <1>0, <1>3 DEF Exists
  <2>2. OfStored(s, stored[s], serving)
    BY <2>1 DEF StoredAreTheirOwn
  <2> QED BY <1>1, <1>2, <1>3, <2>1, <2>2, OfStoredStays
<1>4. ASSUME Exists(s)' PROVE OfStored(s, stored'[s], serving')
  <2>1. CASE stored' = stored
    BY <1>3, <1>4, <2>1
  <2>2. CASE creating.pc = "asked" /\ stored' = [stored EXCEPT ![creating.session] = <<>>]
    <3>1. creating.session \in Sessions
      BY <2>2, SomeSession
    <3>2. stored'[s] = stored[s] \/ stored'[s] = <<>>
      BY <1>0, <2>2, <3>1
    <3>3. DOMAIN <<>> = {}
      OBVIOUS
    <3> QED BY <1>3, <1>4, <3>2, <3>3 DEF OfStored
  <2>3. CASE deleting.pc = "asked" /\ stored' = [stored EXCEPT ![deleting.session] = Deleted]
    <3>1. deleting.session \in Sessions
      BY <2>3, SomeSession
    <3>2. stored'[s] = stored[s]
      BY <1>0, <1>4, <2>3, <3>1 DEF Exists
    <3> QED BY <1>3, <1>4, <3>2
  <2>4. ASSUME NEW n \in Prompted, serving[n].session \in Sessions, Exists(serving[n].session),
               serving[n].pc \in {"asked", "started"},
               \/ StoreUserMessage(n) /\ Store(n, User(n)) /\ serving[n].pc = "asked"
               \/ (Finish(n) \/ GiveUp(n)) /\ Store(n, Reply(n))
        PROVE  OfStored(s, stored'[s], serving')
    <3>1. serving'[n].session = serving[n].session
          /\ (StoreUserMessage(n) => serving'[n].pc = "started")
          /\ (Finish(n) \/ GiveUp(n) => serving'[n].pc = "over")
      BY <2>4, ApiAdvances
    <3>2. CASE StoreUserMessage(n) /\ Store(n, User(n)) /\ serving[n].pc = "asked"
      <4>1. User(n) \in StoredMessage /\ User(n).n = n /\ User(n).kind = "user"
        BY MessagesAre
      <4> QED BY <1>1, <1>4, <2>4, <3>1, <3>2, <4>1, StoreOfItsOwn
    <3>3. CASE (Finish(n) \/ GiveUp(n)) /\ Store(n, Reply(n))
      <4>1. Reply(n) \in StoredMessage /\ Reply(n).n = n /\ Reply(n).kind = "answer"
        BY MessagesAre
      <4> QED BY <1>1, <1>4, <2>4, <3>1, <3>3, <4>1, StoreOfItsOwn
    <3> QED BY <2>4, <3>2, <3>3
  <2> QED BY <2>1, <2>2, <2>3, <2>4, StoredMoves
<1>5. ASSUME fetches'[s].pc = "answered" PROVE OfStored(s, fetches'[s].list, serving')
  <2>1. CASE fetches[s].pc = "answered" /\ fetches'[s].list = fetches[s].list
    <3>1. OfStored(s, fetches[s].list, serving) /\ fetches[s].list \in Seq(StoredMessage)
      BY <1>0, <2>1 DEF StoredAreTheirOwn, FetchState
    <3> QED BY <1>1, <1>2, <2>1, <3>1, OfStoredStays
  <2>2. CASE Exists(s) /\ fetches'[s].list = stored[s] /\ UNCHANGED <<stored, serving>>
    BY <2>2 DEF StoredAreTheirOwn
  <2> QED BY <1>5, <2>1, <2>2, FetchAnswers
<1> QED BY <1>4, <1>5

-----------------------------------------------------------------------------
(* The lists, and what keeps them a session's own.                         *)

LEMMA OwnStays ==
  ASSUME NEW list \in Seq(Message), NEW s, NEW r, NEW q, NEW a, NEW b, NEW id, NEW jd, NEW p, NEW t,
         OwnList(list, s, r, a, id, p),
         \A n \in Prompted : r[n].session = s => q[n].session = s,
         \A n \in Prompted : r[n].session = s /\ n = b => a = b /\ jd = id,
         \A n \in Prompted : r[n].session = s /\ n \in p => n \in t
  PROVE  OwnList(list, s, q, b, jd, t)
<1>1. \A i \in DOMAIN list : list[i].n \in Prompted
  BY ListsOfMessages, TemporaryOnes
<1>2. \A i \in DOMAIN list :
        /\ r[list[i].n].session = s
        /\ list[i].kind = "temporary" /\ list[i].n = a => list[i].id = id
  BY DEF OwnList
<1>3. \A i, j \in DOMAIN list : Superseded(list[i], list[j], p) /\ (i # j => Apart(list[i], list[j]))
  BY DEF OwnList
<1>4. \A i \in DOMAIN list :
        /\ q[list[i].n].session = s
        /\ list[i].kind = "temporary" /\ list[i].n = b => list[i].id = jd
  BY <1>1, <1>2
<1>5. \A i, j \in DOMAIN list : Superseded(list[i], list[j], t)
  BY <1>1, <1>2, <1>3 DEF Superseded
<1> QED BY <1>3, <1>4, <1>5 DEF OwnList

LEMMA OwnNothing ==
  ASSUME NEW s, NEW r, NEW a, NEW id, NEW p
  PROVE  OwnList(<<>>, s, r, a, id, p)
<1>1. DOMAIN <<>> = {}
  OBVIOUS
<1> QED BY <1>1 DEF OwnList

\* What comes from the API has no temporary message.
LEMMA OwnStored ==
  ASSUME NEW list \in Seq(StoredMessage), NEW s, NEW r, NEW a, NEW id, NEW p, OfStored(s, list, r)
  PROVE  OwnList(list, s, r, a, id, p)
<1>1. \A i \in DOMAIN list : list[i] \in StoredMessage
  OBVIOUS
<1>2. \A i \in DOMAIN list : list[i].kind # "temporary" /\ r[list[i].n].session = s
  BY <1>1 DEF StoredMessage, OfStored
<1>3. ASSUME NEW i \in DOMAIN list, NEW j \in DOMAIN list, i # j PROVE Apart(list[i], list[j])
  <2>1. list[i] # list[j]
    BY <1>3 DEF OfStored
  <2>2. \A x, y \in StoredMessage : x.kind = y.kind /\ x.n = y.n => x = y
    BY DEF StoredMessage
  <2>3. list[i].kind = list[j].kind => list[i].n # list[j].n
    BY <1>1, <2>1, <2>2
  <2> QED BY <1>2, <2>3 DEF Apart
<1>4. \A i, j \in DOMAIN list : Superseded(list[i], list[j], p)
  BY <1>2 DEF Superseded
<1> QED BY <1>2, <1>3, <1>4 DEF OwnList

LEMMA OwnAppended ==
  ASSUME NEW list \in Seq(Message), NEW s, NEW r, NEW a, NEW id, NEW p, OwnList(list, s, r, a, id, p),
         NEW m \in Message, r[m.n].session = s, m.kind = "temporary" /\ m.n = a => m.id = id,
         \A i \in DOMAIN list :
           Superseded(m, list[i], p) /\ Superseded(list[i], m, p) /\ Apart(m, list[i])
  PROVE  OwnList(Append(list, m), s, r, a, id, p)
<1> DEFINE new == Append(list, m)
<1>1. /\ DOMAIN new = (DOMAIN list) \cup {Len(list) + 1} /\ Len(list) + 1 \notin DOMAIN list
      /\ \A i \in DOMAIN list : new[i] = list[i]
      /\ new[Len(list) + 1] = m
  BY MessageAppended
<1> HIDE DEF new
<1>2. /\ \A i \in DOMAIN list :
           /\ r[list[i].n].session = s
           /\ list[i].kind = "temporary" /\ list[i].n = a => list[i].id = id
      /\ \A i, j \in DOMAIN list : Superseded(list[i], list[j], p) /\ (i # j => Apart(list[i], list[j]))
  BY DEF OwnList
<1>3. \A i \in DOMAIN new :
           /\ r[new[i].n].session = s
           /\ new[i].kind = "temporary" /\ new[i].n = a => new[i].id = id
  BY <1>1, <1>2
<1>4. Superseded(m, m, p)
  BY DEF Superseded
<1>5. \A i \in DOMAIN list : Apart(list[i], m)
  BY DEF Apart
<1>6. \A i, j \in DOMAIN new : Superseded(new[i], new[j], p)
  BY <1>1, <1>2, <1>4
<1>7. \A i, j \in DOMAIN new : i # j => Apart(new[i], new[j])
  BY <1>1, <1>2, <1>5
<1>8. OwnList(new, s, r, a, id, p)
  BY <1>3, <1>6, <1>7 DEF OwnList
<1> QED BY <1>8 DEF new

LEMMA OwnPicked ==
  ASSUME NEW list, NEW new, NEW s, NEW r, NEW a, NEW id, NEW p, OwnList(list, s, r, a, id, p),
         Picked(new, list)
  PROVE  OwnList(new, s, r, a, id, p)
<1>1. /\ \A i \in DOMAIN list :
           /\ r[list[i].n].session = s
           /\ list[i].kind = "temporary" /\ list[i].n = a => list[i].id = id
      /\ \A i, j \in DOMAIN list : Superseded(list[i], list[j], p) /\ (i # j => Apart(list[i], list[j]))
  BY DEF OwnList
<1>2. ASSUME NEW i \in DOMAIN new, NEW j \in DOMAIN new
      PROVE  /\ r[new[i].n].session = s
             /\ new[i].kind = "temporary" /\ new[i].n = a => new[i].id = id
             /\ Superseded(new[i], new[j], p) /\ (i # j => Apart(new[i], new[j]))
  <2>1. PICK x \in DOMAIN list, y \in DOMAIN list : (i # j => x # y) /\ new[i] = list[x] /\ new[j] = list[y]
    BY DEF Picked
  <2> QED BY <1>1, <2>1
<1> QED BY <1>2 DEF OwnList

LEMMA OwnSame ==
  ASSUME NEW list, NEW new, NEW s, NEW r, NEW a, NEW id, NEW p, OwnList(list, s, r, a, id, p),
         DOMAIN new = DOMAIN list, \A i \in DOMAIN list : Same(new[i], list[i])
  PROVE  OwnList(new, s, r, a, id, p)
<1>1. /\ \A i \in DOMAIN list :
           /\ r[list[i].n].session = s
           /\ list[i].kind = "temporary" /\ list[i].n = a => list[i].id = id
      /\ \A i, j \in DOMAIN list : Superseded(list[i], list[j], p) /\ (i # j => Apart(list[i], list[j]))
  BY DEF OwnList
<1>2. \A i \in DOMAIN new :
        /\ r[new[i].n].session = s
        /\ new[i].kind = "temporary" /\ new[i].n = a => new[i].id = id
  BY <1>1 DEF Same
<1>3. ASSUME NEW i \in DOMAIN new, NEW j \in DOMAIN new PROVE Superseded(new[i], new[j], p)
  <2>1. Superseded(list[i], list[j], p) /\ Same(new[i], list[i]) /\ Same(new[j], list[j])
    BY <1>1
  <2> QED BY <2>1 DEF Superseded, Same
<1>4. ASSUME NEW i \in DOMAIN new, NEW j \in DOMAIN new, i # j PROVE Apart(new[i], new[j])
  <2>1. Apart(list[i], list[j]) /\ Same(new[i], list[i]) /\ Same(new[j], list[j])
    BY <1>1, <1>4
  <2> QED BY <2>1 DEF Apart, Same
<1> QED BY <1>2, <1>3, <1>4 DEF OwnList

\* No temporary message has the id 0, so while it stands for none, it may be given.
LEMMA OwnRenamed ==
  ASSUME NEW list \in Seq(Message), NEW s, NEW r, NEW a, NEW id, NEW jd, NEW p,
         OwnList(list, s, r, a, id, p),
         \A i \in DOMAIN list : list[i].kind = "temporary" /\ list[i].n = a => list[i].id # id
  PROVE  OwnList(list, s, r, a, jd, p)
<1>1. \A i \in DOMAIN list : list[i].kind = "temporary" /\ list[i].n = a => list[i].id = jd
  BY DEF OwnList
<1> QED BY <1>1 DEF OwnList

\* The temporary message of this id is the only one.
LEMMA OneTemporary ==
  ASSUME NEW list \in Seq(Message), NEW s, NEW r, NEW a, NEW id, NEW jd, NEW p,
         OwnList(list, s, r, a, id, p)
  PROVE  \A x, y \in DOMAIN list : IsTemporary(list[x], jd) /\ IsTemporary(list[y], jd) => x = y
<1>1. \A x, y \in DOMAIN list : x # y => Apart(list[x], list[y])
  BY DEF OwnList
<1> QED BY <1>1 DEF Apart, IsTemporary

\* The stored answer takes the place of what was shown of it.
LEMMA OwnAnswered ==
  ASSUME NEW list \in Seq(Message), NEW new, NEW s, NEW r, NEW a, NEW id, NEW jd, NEW p,
         OwnList(list, s, r, a, id, p), NEW n \in Prompted, r[n].session = s, n \in p,
         ~Has(list, Reply(n)), DOMAIN new = DOMAIN list,
         \A i \in DOMAIN list : new[i] = IF IsTemporary(list[i], id) THEN Reply(n) ELSE list[i]
  PROVE  OwnList(new, s, r, a, jd, p)
<1>1. /\ \A i \in DOMAIN list :
           /\ r[list[i].n].session = s
           /\ list[i].kind = "temporary" /\ list[i].n = a => list[i].id = id
      /\ \A i, j \in DOMAIN list : Superseded(list[i], list[j], p) /\ (i # j => Apart(list[i], list[j]))
  BY DEF OwnList
<1>2. Reply(n).kind = "answer" /\ Reply(n).n = n /\ Reply(n) \in StoredMessage
  BY MessagesAre
<1>3. \A i \in DOMAIN list : ~(list[i].kind = "answer" /\ list[i].n = n)
  <2> SUFFICES ASSUME NEW i \in DOMAIN list, list[i].kind = "answer", list[i].n = n PROVE FALSE
    OBVIOUS
  <2>1. list[i] \in StoredMessage
    BY ListsOfMessages, TemporaryOnes
  <2>2. list[i] = Reply(n)
    BY <1>2, <2>1 DEF StoredMessage
  <2> QED BY <2>2 DEF Has
<1>4. \A i \in DOMAIN new :
        /\ r[new[i].n].session = s
        /\ new[i].kind = "temporary" /\ new[i].n = a => new[i].id = jd
  BY <1>1, <1>2 DEF IsTemporary
<1>5. ASSUME NEW i \in DOMAIN new, NEW j \in DOMAIN new PROVE Superseded(new[i], new[j], p)
  <2>1. CASE IsTemporary(list[i], id)
    BY <1>2, <2>1 DEF Superseded
  <2>2. CASE ~IsTemporary(list[i], id) /\ IsTemporary(list[j], id)
    BY <1>2, <2>2 DEF Superseded
  <2>3. CASE ~IsTemporary(list[i], id) /\ ~IsTemporary(list[j], id)
    BY <1>1, <2>3
  <2> QED BY <2>1, <2>2, <2>3
<1>6. ASSUME NEW i \in DOMAIN new, NEW j \in DOMAIN new, i # j PROVE Apart(new[i], new[j])
  <2>0. Apart(list[i], list[j])
    BY <1>1, <1>6
  <2>1. CASE IsTemporary(list[i], id) /\ IsTemporary(list[j], id)
    BY <2>0, <2>1 DEF Apart, IsTemporary
  <2>2. CASE IsTemporary(list[i], id) /\ ~IsTemporary(list[j], id)
    BY <1>2, <1>3, <2>2 DEF Apart
  <2>3. CASE ~IsTemporary(list[i], id) /\ IsTemporary(list[j], id)
    BY <1>2, <1>3, <2>3 DEF Apart
  <2>4. CASE ~IsTemporary(list[i], id) /\ ~IsTemporary(list[j], id)
    BY <2>0, <2>4
  <2> QED BY <2>1, <2>2, <2>3, <2>4
<1> QED BY <1>4, <1>5, <1>6 DEF OwnList

\* A call ends: what it showed of an answer is marked, or gone.
LEMMA OwnCloses ==
  ASSUME NEW list \in Seq(Message), NEW s, NEW r, NEW q, NEW a, NEW b, NEW id, NEW jd, NEW p, NEW t,
         OwnList(list, s, r, a, id, p),
         \A n \in Prompted : r[n].session = s => q[n].session = s,
         b \notin Prompted,
         \A n \in Prompted : r[n].session = s /\ n \in p => n \in t \/ n = a,
         \A i \in DOMAIN list : list[i].kind = "temporary" /\ list[i].n = a => list[i].incomplete
  PROVE  OwnList(list, s, q, b, jd, t)
<1>1. \A i \in DOMAIN list : list[i].n \in Prompted
  BY ListsOfMessages, TemporaryOnes
<1>2. /\ \A i \in DOMAIN list : r[list[i].n].session = s
      /\ \A i, j \in DOMAIN list : Superseded(list[i], list[j], p) /\ (i # j => Apart(list[i], list[j]))
  BY DEF OwnList
<1>3. \A i \in DOMAIN list :
        /\ q[list[i].n].session = s
        /\ list[i].kind = "temporary" /\ list[i].n = b => list[i].id = jd
  BY <1>1, <1>2
<1>4. ASSUME NEW i \in DOMAIN list, NEW j \in DOMAIN list PROVE Superseded(list[i], list[j], t)
  <2>1. Superseded(list[i], list[j], p) /\ list[i].n \in Prompted /\ r[list[i].n].session = s
    BY <1>1, <1>2
  <2>2. list[j].kind = "temporary" /\ list[j].n = a => list[j].incomplete
    OBVIOUS
  <2> QED BY <2>1, <2>2 DEF Superseded
<1> QED BY <1>2, <1>3, <1>4 DEF OwnList

LEMMA ListsInit == PageInit => Lists
<1> SUFFICES ASSUME PageInit PROVE Lists
  OBVIOUS
<1>1. \A s \in Sessions : cached[s] = NoData
  BY DEF PageInit
<1> QED BY <1>1 DEF Lists

\* A list that is left alone stays a session's own.
LEMMA ListStays ==
  ASSUME PageTypes, Serving, Lists, [PageNext]_pageVars, NEW s \in Sessions, cached[s] # NoData,
         \A n \in Prompted : serving[n].session = s /\ n = Awaited' =>
           Awaited = n /\ page'.streamingId = page.streamingId,
         \A n \in Prompted : serving[n].session = s /\ n \in Unreconciled => n \in Unreconciled'
  PROVE  OwnList(cached[s], s, serving', Awaited', page'.streamingId, Unreconciled')
<1>1. OwnList(cached[s], s, serving, Awaited, page.streamingId, Unreconciled) /\ cached[s] \in Seq(Message)
  BY DEF Lists, PageTypes, CachedTyped
<1>2. \A n \in Prompted : serving[n].session = s => serving'[n].session = s
  <2>1. \A n \in Prompted : Advanced(serving[n], serving'[n])
    BY RequestsAdvance
  <2>2. s # None /\ NoRequest.session = None
    BY PageConstants DEF NoRequest
  <2>3. \A n \in Prompted : serving[n].session = s => serving[n].pc # "none"
    BY <2>2 DEF Serving, Submitting
  <2> QED BY <2>1, <2>3 DEF Advanced
<1> DEFINE a == Awaited
           b == Awaited'
           id == page.streamingId
           jd == page'.streamingId
           p == Unreconciled
           t == Unreconciled'
<1>3. /\ OwnList(cached[s], s, serving, a, id, p)
      /\ \A n \in Prompted : serving[n].session = s /\ n = b => a = b /\ jd = id
      /\ \A n \in Prompted : serving[n].session = s /\ n \in p => n \in t
  BY <1>1
<1> HIDE DEF a, b, id, jd, p, t
<1>4. OwnList(cached[s], s, serving', b, jd, t)
  BY <1>1, <1>2, <1>3, OwnStays
<1> QED BY <1>4 DEF b, jd, t

\* The lists are left alone by a step that has nothing to do with them.
LEMMA ListsStay ==
  ASSUME PageTypes, Serving, Lists, [PageNext]_pageVars, cached' = cached,
         call'.open = call.open, call'.n = call.n, seen'.moved = seen.moved,
         page'.streamingId = page.streamingId
  PROVE  Lists'
<1>1. Awaited' = Awaited /\ Unreconciled' = Unreconciled
  BY DEF Awaited, Unreconciled
<1> SUFFICES ASSUME NEW s \in Sessions, cached'[s] # NoData
             PROVE  OwnList(cached'[s], s, serving', Awaited', page'.streamingId, Unreconciled')
  BY DEF Lists
<1> QED BY <1>1, ListStays

\* The other sessions' lists, while a reply's events are taken.
LEMMA OtherListsStay ==
  ASSUME PageTypes, Serving, Lists, [PageNext]_pageVars, call.open,
         NEW s \in Sessions, s # call.session, cached[s] # NoData,
         Awaited' \in {Awaited, 0}, seen'.moved = seen.moved
  PROVE  OwnList(cached[s], s, serving', Awaited', page'.streamingId, Unreconciled')
<1>1. call.n \in Prompted /\ serving[call.n].session = call.session
  BY SomeSession DEF Serving, Heard
<1>2. \A n \in Prompted : serving[n].session = s => n # call.n
  BY <1>1
<1>3. 0 \notin Prompted
  BY DEF Prompted
<1>4. \A n \in Prompted : ~(serving[n].session = s /\ n = Awaited')
  BY <1>2, <1>3 DEF Awaited
<1>5. \A n \in Prompted : serving[n].session = s /\ n \in Unreconciled => n \in Unreconciled'
  BY <1>2 DEF Unreconciled
<1> QED BY <1>4, <1>5, ListStays

\* The list of the call's session before an event is taken, with the requests after it.
LEMMA CalledList ==
  ASSUME PageTypes, Serving, Lists, [PageNext]_pageVars, call.open,
         call'.open = call.open, call'.n = call.n, seen'.moved = seen.moved
  PROVE  /\ call.session \in Sessions /\ call.n \in Prompted /\ Data(call.session) \in Seq(Message)
         /\ serving'[call.n].session = call.session
         /\ Awaited' = Awaited /\ Unreconciled' = Unreconciled /\ call.n \in Unreconciled
         /\ (Awaited = call.n \/ Awaited = 0)
         /\ OwnList(Data(call.session), call.session, serving', Awaited, page.streamingId, Unreconciled)
<1> DEFINE s == call.session
           list == Data(s)
<1>1. s \in Sessions /\ call.n \in Prompted
  BY SomeSession
<1>2. list \in Seq(Message)
  BY <1>1, DataIsList DEF PageTypes
<1>3. Awaited' = Awaited /\ Unreconciled' = Unreconciled /\ call.n \in Unreconciled /\ (Awaited = call.n \/ Awaited = 0)
  BY DEF Awaited, Unreconciled
<1>4. \A n \in Prompted : Advanced(serving[n], serving'[n])
  BY RequestsAdvance
<1>5. serving'[call.n].session = s
  <2>1. serving[call.n].pc # "none" /\ serving[call.n].session = s
    BY DEF Serving, Heard
  <2> QED BY <1>1, <1>4, <2>1 DEF Advanced
<1>6. OwnList(list, s, serving', Awaited, page.streamingId, Unreconciled)
  <2>1. CASE cached[s] = NoData
    BY <2>1, OwnNothing DEF Data
  <2>2. CASE cached[s] # NoData
    <3>1. OwnList(cached[s], s, serving, Awaited, page.streamingId, Unreconciled) /\ cached[s] \in Seq(Message)
      BY <1>1, <2>2 DEF Lists, PageTypes, CachedTyped
    <3>2. s # None /\ NoRequest.session = None
      BY <1>1, PageConstants DEF NoRequest
    <3>3. \A n \in Prompted : serving[n].session = s => serving[n].pc # "none"
      BY <3>2 DEF Serving, Submitting
    <3>4. \A n \in Prompted : serving[n].session = s => serving'[n].session = s
      BY <1>4, <3>3 DEF Advanced
    <3> HIDE DEF s
    <3>5. OwnList(cached[s], s, serving', Awaited, page.streamingId, Unreconciled)
      BY <3>1, <3>4, OwnStays
    <3> QED BY <2>2, <3>5 DEF Data
  <2> QED BY <2>1, <2>2
<1> QED BY <1>1, <1>2, <1>3, <1>5, <1>6

\* A step changes the list of the call's session only.
LEMMA ListsFollow ==
  ASSUME PageTypes, Serving, Lists, [PageNext]_pageVars, call.open, NEW new,
         cached' = [cached EXCEPT ![call.session] = new],
         Awaited' \in {Awaited, 0}, seen'.moved = seen.moved,
         OwnList(new, call.session, serving', Awaited', page'.streamingId, Unreconciled')
  PROVE  Lists'
<1>1. call.session \in Sessions /\ cached \in [Sessions -> Seq(Message) \cup {NoData}]
  BY SomeSession DEF PageTypes, CachedTyped
<1> SUFFICES ASSUME NEW s \in Sessions, cached'[s] # NoData
             PROVE  OwnList(cached'[s], s, serving', Awaited', page'.streamingId, Unreconciled')
  BY DEF Lists
<1>2. CASE s = call.session
  BY <1>1, <1>2
<1>3. CASE s # call.session
  <2>1. cached'[s] = cached[s]
    BY <1>1, <1>3
  <2> QED BY <1>3, <2>1, OtherListsStay
<1> QED BY <1>2, <1>3

LEMMA ListsUserMessage ==
  ASSUME PageTypes, Serving, Lists, TakeUserMessage
  PROVE  Lists'
<1> DEFINE s == call.session
           list == Data(s)
           m == User(call.n)
           new == IF Has(list, m) THEN list ELSE Append(list, m)
<1>0. [PageNext]_pageVars /\ call.open /\ call' = call /\ seen \in Seen /\ page \in PageState
  BY DEF PageNext, StreamStep, TakeUserMessage, Arrives, PageTypes, SeenTyped, PageTyped
<1>1. seen'.moved = seen.moved
  BY <1>0 DEF TakeUserMessage, Seen
<1>2. page'.streamingId = page.streamingId
  BY <1>0 DEF TakeUserMessage, Sent, PageState
<1>3. cached' = [cached EXCEPT ![s] = new]
  BY DEF TakeUserMessage
<1>4. /\ s \in Sessions /\ call.n \in Prompted /\ list \in Seq(Message)
      /\ serving'[call.n].session = s /\ Awaited' = Awaited /\ Unreconciled' = Unreconciled
      /\ OwnList(list, s, serving', Awaited, page.streamingId, Unreconciled)
  BY <1>0, <1>1, CalledList
<1>5. m \in Message /\ m \in StoredMessage /\ m.kind = "user" /\ m.n = call.n
  BY <1>4, MessagesAre
<1> HIDE DEF s, list, m
<1>6. ASSUME ~Has(list, m) PROVE OwnList(new, s, serving', Awaited, page.streamingId, Unreconciled)
  <2>1. \A i \in DOMAIN list : ~(list[i].kind = "user" /\ list[i].n = call.n)
    <3> SUFFICES ASSUME NEW i \in DOMAIN list, list[i].kind = "user", list[i].n = call.n PROVE FALSE
      OBVIOUS
    <3>1. list[i] \in StoredMessage
      BY <1>4, ListsOfMessages, TemporaryOnes
    <3>2. list[i] = m
      BY <1>5, <3>1 DEF StoredMessage
    <3> QED BY <1>6, <3>2 DEF Has
  <2>2. \A i \in DOMAIN list :
          Superseded(m, list[i], Unreconciled) /\ Superseded(list[i], m, Unreconciled) /\ Apart(m, list[i])
    BY <1>5, <2>1 DEF Superseded, Apart
  <2>3. OwnList(Append(list, m), s, serving', Awaited, page.streamingId, Unreconciled)
    BY <1>4, <1>5, <2>2, OwnAppended
  <2> QED BY <1>6, <2>3
<1>7. OwnList(new, s, serving', Awaited, page.streamingId, Unreconciled)
  BY <1>4, <1>6
<1>8. OwnList(new, s, serving', Awaited', page'.streamingId, Unreconciled')
  BY <1>2, <1>4, <1>7
<1> HIDE DEF new
<1> QED BY <1>0, <1>1, <1>3, <1>4, <1>8, ListsFollow DEF s

LEMMA ListsDelta ==
  ASSUME PageTypes, Serving, Lists, TakeDelta
  PROVE  Lists'
<1> DEFINE id == IF page.streamingId = 0 THEN page.ids + 1 ELSE page.streamingId
           s == call.session
           list == Data(s)
           piece == call.taken + 1
           m == Temporary(id, call.n, <<piece>>)
           added == Replaced(list, id, LAMBDA k : [k EXCEPT !.pieces = Append(@, piece)])
           new == IF HasTemporary(list, id) THEN added ELSE Append(list, m)
<1>0. [PageNext]_pageVars /\ call.open /\ AppendDelta /\ page \in PageState /\ call \in CallState
  BY DEF PageNext, StreamStep, TakeDelta, Arrives, PageTypes, PageTyped, CallTyped
<1>1. call'.open = call.open /\ call'.n = call.n /\ seen' = seen
  <2>1. call' = [call EXCEPT !.taken = @ + 1] /\ seen' = seen
    BY DEF TakeDelta
  <2>2. call'.open = call.open
    BY <1>0, <2>1 DEF CallState
  <2> QED BY <1>0, <2>1, <2>2 DEF CallState
<1>2. id \in Nat \ {0} /\ page'.streamingId = id /\ piece \in Nat
  <2>1. id \in Nat \ {0} /\ page' \in PageState
        /\ page' = [page EXCEPT !.streamingId = id, !.hasOutput = TRUE, !.ids = page'.ids]
    BY <1>0, DeltaAppended
  <2> HIDE DEF id
  <2>2. page'.streamingId = id
    BY <1>0, <2>1 DEF PageState
  <2> QED BY <1>0, <2>1, <2>2 DEF CallState
<1>3. cached' = [cached EXCEPT ![s] = new]
  BY <1>0 DEF AppendDelta
<1>4. /\ s \in Sessions /\ call.n \in Prompted /\ list \in Seq(Message)
      /\ serving'[call.n].session = s /\ Awaited' = Awaited /\ Unreconciled' = Unreconciled /\ call.n \in Unreconciled
      /\ OwnList(list, s, serving', Awaited, page.streamingId, Unreconciled)
  BY <1>0, <1>1, CalledList
<1>5. OwnList(list, s, serving', Awaited, id, Unreconciled)
  <2>1. CASE page.streamingId = 0
    <3>1. \A i \in DOMAIN list : list[i].kind = "temporary" => list[i].id # page.streamingId
      BY <1>4, <2>1, ListsOfMessages, TemporaryOnes
    <3> HIDE DEF id, list, s
    <3> QED BY <1>4, <3>1, OwnRenamed
  <2>2. CASE page.streamingId # 0
    BY <1>4, <2>2
  <2> QED BY <2>1, <2>2
<1> HIDE DEF id, s, list, piece
<1>6. m \in TemporaryMessage /\ m.kind = "temporary" /\ m.n = call.n /\ m.id = id
  <2>1. call.n \in Prompted /\ id \in Nat \ {0} /\ piece \in Nat
    BY <1>2, <1>4
  <2>2. <<piece>> \in Seq(Nat)
    BY <2>1
  <2> QED BY <2>1, <2>2 DEF Temporary, TemporaryMessage
<1> HIDE DEF m
<1>7. ASSUME HasTemporary(list, id) PROVE OwnList(new, s, serving', Awaited, id, Unreconciled)
  <2>1. DOMAIN added = DOMAIN list /\ \A i \in DOMAIN list : Same(added[i], list[i])
    BY <1>2, <1>4, PieceAdded
  <2> HIDE DEF added
  <2>2. OwnList(added, s, serving', Awaited, id, Unreconciled)
    BY <1>5, <2>1, OwnSame
  <2> QED BY <1>7, <2>2
<1>8. ASSUME ~HasTemporary(list, id) PROVE OwnList(new, s, serving', Awaited, id, Unreconciled)
  <2>1. \A i \in DOMAIN list : ~IsTemporary(list[i], id)
    BY <1>8 DEF HasTemporary
  <2>2. \A i \in DOMAIN list :
          Superseded(m, list[i], Unreconciled) /\ Superseded(list[i], m, Unreconciled) /\ Apart(m, list[i])
    BY <1>4, <1>6, <2>1 DEF Superseded, Apart, IsTemporary
  <2>3. m \in Message
    BY <1>6 DEF Message
  <2>4. OwnList(Append(list, m), s, serving', Awaited, id, Unreconciled)
    BY <1>4, <1>5, <1>6, <2>2, <2>3, OwnAppended
  <2> QED BY <1>8, <2>4
<1>9. OwnList(new, s, serving', Awaited', page'.streamingId, Unreconciled')
  BY <1>2, <1>4, <1>7, <1>8
<1> HIDE DEF new
<1> QED BY <1>0, <1>1, <1>3, <1>4, <1>9, ListsFollow DEF s

LEMMA ListsAnswered ==
  ASSUME PageTypes, Serving, Lists, TakeAssistantMessage
  PROVE  Lists'
<1> DEFINE id == page.streamingId
           s == call.session
           list == Data(s)
           m == Reply(call.n)
           new == Reconciled(list, m)
<1>0. [PageNext]_pageVars /\ call.open /\ page \in PageState /\ UNCHANGED <<call, seen>> /\ id \in Nat
  BY DEF PageNext, StreamStep, TakeAssistantMessage, Arrives, PageTypes, PageTyped, PageState
<1>1. page'.streamingId = 0
  BY <1>0 DEF TakeAssistantMessage, PageState
<1>2. cached' = [cached EXCEPT ![s] = new]
  BY DEF TakeAssistantMessage
<1>3. /\ s \in Sessions /\ call.n \in Prompted /\ list \in Seq(Message)
      /\ serving'[call.n].session = s /\ Awaited' = Awaited /\ Unreconciled' = Unreconciled /\ call.n \in Unreconciled
      /\ OwnList(list, s, serving', Awaited, id, Unreconciled)
  BY <1>0, CalledList
<1>4. m.kind = "answer" /\ m.n = call.n /\ m \in Message /\ m \in StoredMessage
  BY <1>3, MessagesAre
<1>5. new = IF Has(list, m) THEN WithoutTemporary(list, id)
            ELSE IF id = 0 THEN Append(list, m) ELSE Replaced(list, id, LAMBDA k : m)
  BY DEF Reconciled
<1> HIDE DEF id, s, list, new
<1>6. ASSUME Has(list, m) PROVE OwnList(new, s, serving', Awaited, 0, Unreconciled)
  <2> DEFINE w == WithoutTemporary(list, id)
  <2>1. /\ w \in Seq(Message) /\ Picked(w, list)
        /\ (\A x, y \in DOMAIN list : IsTemporary(list[x], id) /\ IsTemporary(list[y], id) => x = y) =>
             \A i \in DOMAIN w : ~IsTemporary(w[i], id)
    BY <1>0, <1>3, TemporaryRemoved
  <2>2. \A x, y \in DOMAIN list : IsTemporary(list[x], id) /\ IsTemporary(list[y], id) => x = y
    BY <1>3, OneTemporary
  <2> HIDE DEF w
  <2>3. OwnList(w, s, serving', Awaited, id, Unreconciled)
    BY <1>3, <2>1, OwnPicked
  <2>4. \A i \in DOMAIN w : w[i].kind = "temporary" => w[i].id # id
    BY <2>1, <2>2 DEF IsTemporary
  <2>5. OwnList(w, s, serving', Awaited, 0, Unreconciled)
    BY <2>1, <2>3, <2>4, OwnRenamed
  <2> QED BY <1>5, <1>6, <2>5 DEF w
<1>7. ASSUME ~Has(list, m), id = 0 PROVE OwnList(new, s, serving', Awaited, 0, Unreconciled)
  <2>1. \A i \in DOMAIN list : ~(list[i].kind = "answer" /\ list[i].n = call.n)
    <3> SUFFICES ASSUME NEW i \in DOMAIN list, list[i].kind = "answer", list[i].n = call.n PROVE FALSE
      OBVIOUS
    <3>1. list[i] \in StoredMessage
      BY <1>3, ListsOfMessages, TemporaryOnes
    <3>2. list[i] = m
      BY <1>4, <3>1 DEF StoredMessage
    <3> QED BY <1>7, <3>2 DEF Has
  <2> HIDE DEF m
  <2>2. \A i \in DOMAIN list :
          Superseded(m, list[i], Unreconciled) /\ Superseded(list[i], m, Unreconciled) /\ Apart(m, list[i])
    BY <1>3, <1>4, <2>1 DEF Superseded, Apart
  <2>3. OwnList(Append(list, m), s, serving', Awaited, id, Unreconciled)
    BY <1>3, <1>4, <2>2, OwnAppended
  <2> QED BY <1>5, <1>7, <2>3
<1>8. ASSUME ~Has(list, m), id # 0 PROVE OwnList(new, s, serving', Awaited, 0, Unreconciled)
  <2> DEFINE w == Replaced(list, id, LAMBDA k : m)
  <2>1. /\ DOMAIN w = DOMAIN list
        /\ \A i \in DOMAIN list : w[i] = IF IsTemporary(list[i], id) THEN m ELSE list[i]
    BY <1>0, <1>3, <1>4, TemporaryAnswered
  <2>2. new = w
    BY <1>5, <1>8
  <2> HIDE DEF w
  <2>3. OwnList(w, s, serving', Awaited, 0, Unreconciled)
    BY <1>3, <1>8, <2>1, OwnAnswered DEF m
  <2> QED BY <2>2, <2>3
<1>9. OwnList(new, s, serving', Awaited', page'.streamingId, Unreconciled')
  BY <1>1, <1>3, <1>6, <1>7, <1>8
<1> QED BY <1>0, <1>2, <1>3, <1>9, ListsFollow DEF s

\* When a call ends, its list is a session's own if what it showed of an answer is marked.
LEMMA ClosedList ==
  ASSUME PageTypes, Serving, [PageNext]_pageVars, call.open, call' = NoCall, seen'.moved = seen.moved,
         NEW list \in Seq(Message),
         OwnList(list, call.session, serving, Awaited, page.streamingId, Unreconciled),
         \A i \in DOMAIN list : list[i].kind = "temporary" /\ list[i].n = Awaited => list[i].incomplete
  PROVE  OwnList(list, call.session, serving', Awaited', page'.streamingId, Unreconciled')
<1> DEFINE a == Awaited
           b == Awaited'
           id == page.streamingId
           jd == page'.streamingId
           p == Unreconciled
           t == Unreconciled'
           s == call.session
<1>0. s \in Sessions
  BY SomeSession
<1>1. b \notin Prompted
  BY DEF NoCall, Awaited, Prompted
<1>2. \A n \in Prompted : n \in p => n \in t \/ n = a
  BY DEF Unreconciled, Awaited
<1>3. \A n \in Prompted : serving[n].session = s => serving'[n].session = s
  <2>1. \A n \in Prompted : Advanced(serving[n], serving'[n])
    BY RequestsAdvance
  <2>2. s # None /\ NoRequest.session = None
    BY <1>0, PageConstants DEF NoRequest
  <2>3. \A n \in Prompted : serving[n].session = s => serving[n].pc # "none"
    BY <2>2 DEF Serving, Submitting
  <2> QED BY <2>1, <2>3 DEF Advanced
<1>4. /\ OwnList(list, s, serving, a, id, p)
      /\ \A i \in DOMAIN list : list[i].kind = "temporary" /\ list[i].n = a => list[i].incomplete
  OBVIOUS
<1> HIDE DEF a, b, id, jd, p, t, s
<1>5. OwnList(list, s, serving', b, jd, t)
  BY <1>1, <1>2, <1>3, <1>4, OwnCloses
<1> QED BY <1>5 DEF b, jd, t, s

LEMMA CalledOwn ==
  ASSUME PageTypes, Serving, Lists, call.open
  PROVE  /\ call.session \in Sessions /\ Data(call.session) \in Seq(Message) /\ page.streamingId \in Nat
         /\ OwnList(Data(call.session), call.session, serving, Awaited, page.streamingId, Unreconciled)
<1>1. call.session \in Sessions
  BY SomeSession
<1>2. Data(call.session) \in Seq(Message)
  BY <1>1, DataIsList DEF PageTypes
<1>3. page.streamingId \in Nat
  BY DEF PageTypes, PageTyped, PageState
<1>4. CASE cached[call.session] = NoData
  BY <1>1, <1>2, <1>3, <1>4, OwnNothing DEF Data
<1>5. CASE cached[call.session] # NoData
  BY <1>1, <1>2, <1>3, <1>5 DEF Data, Lists
<1> QED BY <1>4, <1>5

LEMMA ListsEnd ==
  ASSUME PageTypes, Serving, Lists, StreamDone \/ StreamFailed
  PROVE  Lists'
<1> DEFINE id == page.streamingId
           s == call.session
           list == Data(s)
<1>0. [PageNext]_pageVars /\ call.open /\ call' = NoCall /\ Finally(s)
  BY DEF PageNext, StreamStep, StreamDone, StreamFailed, Arrives
<1>1. seen'.moved = seen.moved
  BY <1>0, CallEnds
<1>2. Awaited' \in {Awaited, 0}
  BY <1>0 DEF Awaited, NoCall
<1>3. s \in Sessions /\ list \in Seq(Message) /\ OwnList(list, s, serving, Awaited, id, Unreconciled) /\ id \in Nat
      /\ cached \in [Sessions -> Seq(Message) \cup {NoData}]
  BY <1>0, CalledOwn DEF PageTypes, CachedTyped
\* Nothing is shown of the answer.
<1>4. ASSUME cached' = cached, id = 0 PROVE Lists'
  <2>1. \A i \in DOMAIN list : list[i].kind = "temporary" /\ list[i].n = Awaited => list[i].incomplete
    <3>1. \A i \in DOMAIN list : list[i].kind = "temporary" => list[i].id # 0
      BY <1>3, ListsOfMessages, TemporaryOnes
    <3>2. \A i \in DOMAIN list : list[i].kind = "temporary" /\ list[i].n = Awaited => list[i].id = 0
      BY <1>3, <1>4 DEF OwnList
    <3> QED BY <3>1, <3>2
  <2> HIDE DEF list
  <2>2. OwnList(list, s, serving', Awaited', page'.streamingId, Unreconciled')
    BY <1>0, <1>1, <1>3, <2>1, ClosedList
  <2>3. cached[s] # NoData => cached[s] = list
    BY DEF list, Data
  <2> SUFFICES ASSUME NEW x \in Sessions, cached'[x] # NoData
               PROVE  OwnList(cached'[x], x, serving', Awaited', page'.streamingId, Unreconciled')
    BY DEF Lists
  <2>4. CASE x = s
    BY <1>4, <2>2, <2>3, <2>4
  <2>5. CASE x # s
    BY <1>0, <1>1, <1>2, <1>4, <2>5, OtherListsStay
  <2> QED BY <2>4, <2>5
<1>5. CASE StreamDone
  <2>1. Arrives("done") /\ cached' = cached
    BY <1>5 DEF StreamDone
  <2>2. serving[call.n].frames # <<>> /\ serving[call.n].frames[1] = "done"
    BY <2>1, ArrivedFrame
  <2>3. id = 0
    BY <1>0, <2>2 DEF Serving, Heard
  <2> QED BY <1>4, <2>1, <2>3
<1>6. CASE StreamFailed
  <2>1. cached' = IF id = 0 THEN cached
                  ELSE [cached EXCEPT ![s] =
                          IF page.hasOutput
                          THEN Replaced(list, id, LAMBDA m : [m EXCEPT !.incomplete = TRUE])
                          ELSE WithoutTemporary(list, id)]
    BY <1>6 DEF StreamFailed
  <2> HIDE DEF id, s, list
  <2>2. CASE id = 0
    BY <1>4, <2>1, <2>2
  <2>3. CASE id # 0 /\ page.hasOutput
    <3> DEFINE new == Replaced(list, id, LAMBDA m : [m EXCEPT !.incomplete = TRUE])
    <3>1. cached' = [cached EXCEPT ![s] = new]
      BY <2>1, <2>3
    <3>2. /\ new \in Seq(Message) /\ DOMAIN new = DOMAIN list
          /\ \A i \in DOMAIN list : Same(new[i], list[i])
          /\ \A i \in DOMAIN list : IsTemporary(list[i], id) => new[i].incomplete
      BY <1>3, TemporaryMarked
    <3> HIDE DEF new
    <3>3. OwnList(new, s, serving, Awaited, id, Unreconciled)
      BY <1>3, <3>2, OwnSame
    <3>4. \A i \in DOMAIN new : new[i].kind = "temporary" /\ new[i].n = Awaited => new[i].incomplete
      <4>1. \A i \in DOMAIN list : list[i].kind = "temporary" /\ list[i].n = Awaited => list[i].id = id
        BY <1>3 DEF OwnList
      <4>2. \A i \in DOMAIN list : new[i].kind = list[i].kind /\ new[i].n = list[i].n
        BY <3>2 DEF Same
      <4> QED BY <3>2, <4>1, <4>2 DEF IsTemporary
    <3>5. OwnList(new, s, serving', Awaited', page'.streamingId, Unreconciled')
      BY <1>0, <1>1, <3>2, <3>3, <3>4, ClosedList DEF s, id
    <3> QED BY <1>0, <1>1, <1>2, <3>1, <3>5, ListsFollow DEF s
  <2>4. CASE id # 0 /\ ~page.hasOutput
    <3> DEFINE new == WithoutTemporary(list, id)
    <3>1. cached' = [cached EXCEPT ![s] = new]
      BY <2>1, <2>4
    <3>2. /\ new \in Seq(Message) /\ Picked(new, list)
          /\ (\A x, y \in DOMAIN list : IsTemporary(list[x], id) /\ IsTemporary(list[y], id) => x = y) =>
               \A i \in DOMAIN new : ~IsTemporary(new[i], id)
      BY <1>3, TemporaryRemoved
    <3>3. \A x, y \in DOMAIN list : IsTemporary(list[x], id) /\ IsTemporary(list[y], id) => x = y
      BY <1>3, OneTemporary
    <3> HIDE DEF new
    <3>4. OwnList(new, s, serving, Awaited, id, Unreconciled)
      BY <1>3, <3>2, OwnPicked
    <3>5. \A i \in DOMAIN new : ~(new[i].kind = "temporary" /\ new[i].n = Awaited)
      BY <3>2, <3>3, <3>4 DEF OwnList, IsTemporary
    <3>6. OwnList(new, s, serving', Awaited', page'.streamingId, Unreconciled')
      BY <1>0, <1>1, <3>2, <3>4, <3>5, ClosedList DEF s, id
    <3> QED BY <1>0, <1>1, <1>2, <3>1, <3>6, ListsFollow DEF s
  <2> QED BY <2>2, <2>3, <2>4
<1> QED BY <1>5, <1>6

\* A fetch has what was stored.
LEMMA ListsReceived ==
  ASSUME PageTypes, Serving, Lists, StoredAreTheirOwn, NEW x \in Sessions, ReceiveFetch(x)
  PROVE  Lists'
<1>0. /\ [PageNext]_pageVars /\ UNCHANGED <<page, call, serving>> /\ seen \in Seen
      /\ cached \in [Sessions -> Seq(Message) \cup {NoData}] /\ fetches \in [Sessions -> FetchState]
  BY DEF PageNext, QueryStep, ReceiveFetch, PageTypes, SeenTyped, CachedTyped, FetchesTyped
<1>1. seen'.moved = seen.moved
  <2>1. seen' = seen \/ \E d : seen' = [seen EXCEPT !.doubtful = d]
    BY DEF ReceiveFetch
  <2> QED BY <1>0, <2>1 DEF Seen
<1>2. Awaited' = Awaited /\ Unreconciled' = Unreconciled
  BY <1>0, <1>1 DEF Awaited, Unreconciled
<1>3. CASE cached' = cached
  BY <1>0, <1>1, <1>3, ListsStay
<1>4. CASE fetches[x].pc = "answered" /\ cached' = [cached EXCEPT ![x] = fetches[x].list]
  <2>1. OfStored(x, fetches[x].list, serving) /\ fetches[x].list \in Seq(StoredMessage)
    BY <1>0, <1>4 DEF StoredAreTheirOwn, FetchState
  <2>2. OwnList(fetches[x].list, x, serving, Awaited, page.streamingId, Unreconciled)
    BY <2>1, OwnStored
  <2> SUFFICES ASSUME NEW s \in Sessions, cached'[s] # NoData
               PROVE  OwnList(cached'[s], s, serving', Awaited', page'.streamingId, Unreconciled')
    BY DEF Lists
  <2>3. CASE s = x
    BY <1>0, <1>2, <1>4, <2>2, <2>3
  <2>4. CASE s # x
    <3>1. cached'[s] = cached[s]
      BY <1>0, <1>4, <2>4
    <3> QED BY <1>0, <1>2, <2>4, <3>1, ListStays
  <2> QED BY <2>3, <2>4
<1> QED BY <1>3, <1>4 DEF ReceiveFetch

\* A workspace that is left takes the message of streamingId with it: what comes in of the
\* answer is shown in another.
LEMMA ListsMoved ==
  ASSUME PageTypes, Serving, Lists, NEW w \in PageWorkspaces, SwitchWorkspace(w)
  PROVE  Lists'
<1>0. [PageNext]_pageVars /\ UNCHANGED <<call, cached, serving>> /\ seen \in Seen
  BY DEF PageNext, UserStep, SwitchWorkspace, PageTypes, SeenTyped
<1>1. seen'.moved = IF call.open THEN seen.moved \cup {call.n} ELSE seen.moved
  BY <1>0 DEF SwitchWorkspace, Seen
<1>2. Awaited' = 0 /\ 0 \notin Prompted
  BY <1>0, <1>1 DEF Awaited, Prompted
<1>3. \A n \in Prompted : n \in Unreconciled => n \in Unreconciled'
  BY <1>0, <1>1 DEF Unreconciled
<1> SUFFICES ASSUME NEW s \in Sessions, cached'[s] # NoData
             PROVE  OwnList(cached'[s], s, serving', Awaited', page'.streamingId, Unreconciled')
  BY DEF Lists
<1> QED BY <1>0, <1>2, <1>3, ListStays

LEMMA ListsAsked ==
  ASSUME PageTypes, Serving, Lists, SubmitPrompt
  PROVE  Lists'
<1> DEFINE n == Cardinality(Submitted) + 1
<1>0. [PageNext]_pageVars /\ UNCHANGED <<cached, seen>> /\ ~call.open /\ Submitted # Prompted
  BY DEF PageNext, UserStep, SubmitPrompt, Composer, PageTypes, PageTyped
<1>1. n \in Prompted /\ serving[n].pc = "none"
  BY <1>0, NextPrompt
<1>2. call'.n = n /\ call'.open = TRUE
  BY DEF SubmitPrompt, NoCall
<1> HIDE DEF n
<1>3. serving[n].session = None
  BY <1>1 DEF Serving, Submitting, NoRequest
<1>4. \A k \in Prompted : k = Awaited' => k = n
  BY <1>2 DEF Awaited, Prompted
<1>5. \A k \in Prompted : k \in Unreconciled => k \in Unreconciled'
  BY <1>0 DEF Unreconciled
<1> SUFFICES ASSUME NEW s \in Sessions, cached'[s] # NoData
             PROVE  OwnList(cached'[s], s, serving', Awaited', page'.streamingId, Unreconciled')
  BY DEF Lists
<1>6. s # None
  BY PageConstants
<1>7. \A k \in Prompted : ~(serving[k].session = s /\ k = Awaited')
  BY <1>3, <1>4, <1>6
<1> QED BY <1>0, <1>5, <1>7, ListStays

LEMMA ListsStep ==
  ASSUME PageTypes, Serving, StoredAreTheirOwn, Lists, [PageNext]_pageVars
  PROVE  Lists'
<1>0. page \in PageState /\ call \in CallState /\ seen \in Seen
  BY DEF PageTypes, PageTyped, CallTyped, SeenTyped
<1>1. ASSUME NEW s \in Sessions, SelectSession(s) PROVE Lists'
  <2>1. seen'.moved = seen.moved
    BY <1>0, <1>1 DEF SelectSession, Seen
  <2>2. page'.streamingId = page.streamingId
    BY <1>0, <1>1, SelectedPage DEF SelectSession
  <2> QED BY <1>1, <2>1, <2>2, ListsStay DEF SelectSession
<1>2. ASSUME NEW text \in Prompts \cup {None}, UpdatePromptDraft(text) PROVE Lists'
  <2>1. seen'.moved = seen.moved
    BY <1>0, <1>2 DEF UpdatePromptDraft, Seen
  <2>2. page.selected \in Sessions
    BY <1>2, SomeSession DEF UpdatePromptDraft, Composer
  <2>3. page'.streamingId = page.streamingId
    BY <1>0, <1>2, <2>2, EditedPage
  <2> QED BY <1>2, <2>1, <2>3, ListsStay DEF UpdatePromptDraft
<1>3. CASE StopStreaming
  <2>1. call' = [call EXCEPT !.aborted = TRUE] /\ UNCHANGED <<page, cached, seen>>
    BY <1>3 DEF StopStreaming
  <2>2. call'.n = call.n
    BY <1>0, <2>1 DEF CallState
  <2>3. call'.open = call.open
    BY <1>0, <2>1 DEF CallState
  <2> QED BY <2>1, <2>2, <2>3, ListsStay
<1>4. ASSUME CreateSession \/ (\E s \in Sessions : ConfirmDeleteSession(s)) \/ UNCHANGED pageVars PROVE Lists'
  <2>1. UNCHANGED <<page, call, cached, seen>>
    BY <1>4 DEF CreateSession, ConfirmDeleteSession, pageVars
  <2> QED BY <2>1, ListsStay
<1>5. ASSUME NEW s \in Sessions, AnswerFetch(s) \/ LoseFetch(s) PROVE Lists'
  <2>1. UNCHANGED <<page, call, cached, seen>>
    BY <1>5 DEF AnswerFetch, LoseFetch
  <2> QED BY <2>1, ListsStay
<1>6. ASSUME NEW n \in Prompted,
             StoreUserMessage(n) \/ SendDelta(n) \/ Finish(n) \/ GiveUp(n) \/ BreakStream(n)
      PROVE  Lists'
  <2>1. UNCHANGED <<page, call, cached>> /\ seen'.moved = seen.moved
    BY <1>6, ApiStores
  <2> QED BY <2>1, ListsStay
<1>7. CASE Change
  <2>1. UNCHANGED <<page, call, cached>> /\ (seen' = seen \/ \E b : seen' = [seen EXCEPT !.stray = b])
    BY <1>7 DEF Change
  <2>2. seen'.moved = seen.moved
    BY <1>0, <2>1 DEF Seen
  <2> QED BY <2>1, <2>2, ListsStay
<1>8. CASE SessionCreated
  <2>1. seen'.moved = seen.moved
    BY <1>0, <1>8 DEF SessionCreated, Seen
  <2>2. page'.streamingId = page.streamingId
    BY <1>0, <1>8, SomeSession, SelectedPage DEF SessionCreated
  <2> QED BY <1>8, <2>1, <2>2, ListsStay DEF SessionCreated
<1>9. CASE SessionDeleted
  <2>1. seen'.moved = seen.moved
    BY <1>0, <1>9 DEF SessionDeleted, Seen
  <2>2. page' = page \/ page' = Selected(page, None)
    BY <1>9 DEF SessionDeleted
  <2>3. page'.streamingId = page.streamingId
    BY <1>0, <2>2, SelectedPage
  <2> QED BY <1>9, <2>1, <2>3, ListsStay DEF SessionDeleted
<1> QED BY <1>1, <1>2, <1>3, <1>4, <1>5, <1>6, <1>7, <1>8, <1>9, ListsMoved, ListsAsked, ListsUserMessage,
       ListsDelta, ListsAnswered, ListsEnd, ListsReceived
       DEF PageNext, UserStep, ApiStep, StreamStep, QueryStep

-----------------------------------------------------------------------------
(* What the page promises.                                                 *)

\* The inductive invariant.  Serving is needed by every part: the frames that are still to
\* come say what the page will be told, in what order, and by which call it is heard.
ChatInvariant ==
  PageTypes /\ Serving /\ Births /\ StoredAreTheirOwn /\ Lists /\ Composed /\ Drafted /\ Settled

LEMMA ChatInvariantInit == PageInit => ChatInvariant
<1> QED BY PageTypesInit, ServingInit, BirthsInit, StoredOwnInit, ListsInit, ComposedInit, DraftedInit,
           SettledInit DEF ChatInvariant

LEMMA ChatInvariantStep == ChatInvariant /\ [PageNext]_pageVars => ChatInvariant'
<1> SUFFICES ASSUME ChatInvariant, [PageNext]_pageVars PROVE ChatInvariant'
  OBVIOUS
<1>1. PageTypes /\ Serving /\ Births /\ StoredAreTheirOwn /\ Lists /\ Composed /\ Drafted /\ Settled
  BY DEF ChatInvariant
<1>2. PageTypes' /\ Serving' /\ Births'
  BY <1>1, PageTypesStep, ServingStep, BirthsStep
<1>3. StoredAreTheirOwn' /\ Lists'
  BY <1>1, StoredOwnStep, ListsStep
<1>4. Composed' /\ Drafted'
  BY <1>1, ComposedStep, DraftedStep
<1>5. Settled'
  BY <1>1, SettledStep
<1> QED BY <1>2, <1>3, <1>4, <1>5 DEF ChatInvariant

LEMMA ChatInvariantAlways == PageSpec => []ChatInvariant
<1> QED BY ChatInvariantInit, ChatInvariantStep, PTL DEF PageSpec

\* The page, the reply it waits for, its queries and the API's requests are of their types;
\* the page is streaming just while a call is open, and a reply has no more pieces than the
\* API has sent.
THEOREM PageTypeCorrect == PageSpec => []PageTypeOK
<1>1. ASSUME PageTypes, Serving PROVE PageTypeOK
  <2>1. page \in PageState /\ page.streaming = call.open /\ page.streamingId <= page.ids
    BY <1>1 DEF PageTypes, PageTyped
  <2>2. call \in CallState /\ call.n \in 0..MaxPrompts
    BY <1>1, PageConstants DEF PageTypes, CallTyped, CallState, Prompted
  <2>3. call.taken \in 0..MaxDeltas
    <3>1. CASE ~call.open
      BY <1>1, <3>1, PageConstants DEF PageTypes, CallTyped, NoCall
    <3>2. CASE call.open
      <4>1. call.n \in Prompted /\ call.taken \in Nat
        BY <1>1, <3>2 DEF PageTypes, CallTyped, CallState
      <4>2. call.taken <= serving[call.n].pieces
        BY <1>1, <3>2 DEF Serving, Heard, Counting
      <4>3. serving[call.n].pieces \in 0..MaxDeltas
        BY <1>1, <4>1, RequestFrames DEF PageTypes
      <4> QED BY <4>1, <4>2, <4>3, PageConstants
    <3> QED BY <3>1, <3>2
  <2>4. \A s \in Sessions : fetches[s].pc \in {"none", "asked", "answered", "refused"}
    BY <1>1 DEF PageTypes, FetchesTyped, FetchState
  <2>5. \A n \in Prompted : serving[n].pc \in {"none", "asked", "started", "over"}
    BY <1>1 DEF PageTypes, RequestsTyped, RequestState
  <2>6. pageActs \in 0..MaxPageActs /\ pageFaults \in 0..MaxPageFaults
    BY <1>1 DEF PageTypes, PageCounted
  <2> QED BY <2>1, <2>2, <2>3, <2>4, <2>5, <2>6 DEF PageTypeOK, PageState
<1>2. ChatInvariant => PageTypeOK
  BY <1>1 DEF ChatInvariant
<1> QED BY <1>2, ChatInvariantAlways, PTL

\* However the user moves between sessions and workspaces while a reply comes in, its
\* messages go to the list of the session it was asked in, no list has a message twice, and
\* what was shown of an answer is gone once the stored answer is there and the stream is over.
THEOREM ListsAreAlwaysTheirOwn == PageSpec => []ListsAreTheirOwn
<1>1. ASSUME PageTypes, Lists PROVE ListsAreTheirOwn
  <2> SUFFICES ASSUME NEW s \in Sessions, cached[s] # NoData,
                      NEW i \in DOMAIN cached[s], NEW j \in DOMAIN cached[s]
               PROVE  LET m == cached[s][i]  k == cached[s][j] IN
                        /\ serving[m.n].session = s
                        /\ i # j /\ m.kind = k.kind => m.n # k.n \/ ("id" \in DOMAIN m /\ m.id # k.id)
                        /\ m.kind = "answer" /\ k.kind = "temporary" /\ k.n = m.n =>
                             k.incomplete \/ m.n \in seen.moved \/ (call.open /\ call.n = m.n)
    BY DEF ListsAreTheirOwn
  <2> DEFINE m == cached[s][i]  k == cached[s][j]
  <2>1. /\ serving[m.n].session = s /\ Superseded(m, k, Unreconciled) /\ (i # j => Apart(m, k))
    BY <1>1 DEF Lists, OwnList
  <2>2. m \in Message
    BY <1>1 DEF PageTypes, CachedTyped
  <2>3. m.kind = "temporary" => "id" \in DOMAIN m
    BY <2>2 DEF Message, StoredMessage, TemporaryMessage
  <2> HIDE DEF m, k
  <2>4. i # j /\ m.kind = k.kind => m.n # k.n \/ ("id" \in DOMAIN m /\ m.id # k.id)
    BY <2>1, <2>3 DEF Apart
  <2>5. m.kind = "answer" /\ k.kind = "temporary" /\ k.n = m.n =>
          k.incomplete \/ m.n \in seen.moved \/ (call.open /\ call.n = m.n)
    BY <2>1 DEF Superseded, Unreconciled
  <2> QED BY <2>1, <2>4, <2>5 DEF m, k
<1>2. ChatInvariant => ListsAreTheirOwn
  BY <1>1 DEF ChatInvariant
<1> QED BY <1>2, ChatInvariantAlways, PTL

\* A list at rest that was not left in doubt is what the database holds: a fetch that was
\* answered before a message was stored never has the last word.
THEOREM SettledListIsStoredAlways == PageSpec => []SettledListIsStored
<1>1. Settled => SettledListIsStored
  BY DEF Settled, Settling, SettledListIsStored
<1>2. ChatInvariant => SettledListIsStored
  BY <1>1 DEF ChatInvariant
<1> QED BY <1>2, ChatInvariantAlways, PTL

\* The composer shows the draft of the selected session, and that session is there and of
\* the open workspace, but for what a mutation under way or a reply to another session has
\* done behind the user's back.
THEOREM ComposerFollowsSelectionAlways == PageSpec => []ComposerFollowsSelection
<1>1. Composed => ComposerFollowsSelection
  BY DEF Composed, ComposerFollowsSelection
<1>2. ChatInvariant => ComposerFollowsSelection
  BY <1>1 DEF ChatInvariant
<1> QED BY <1>2, ChatInvariantAlways, PTL

\* A draft leaves its session only by an edit there, with the workspace, or when the API
\* has stored exactly that text as a message of that session.
THEOREM DraftsStay == PageSpec => DraftsStayWithTheirSessions
<1>1. ChatInvariant /\ [PageNext]_pageVars => [DraftsAreKept]_pageVars
  BY DraftsLeave DEF ChatInvariant, DraftsAreKept
<1> QED BY <1>1, ChatInvariantAlways, PTL DEF PageSpec, DraftsStayWithTheirSessions

-----------------------------------------------------------------------------
(* The browser.                                                            *)

\* The client, the chat page and the provider page, all three at work, each keep to their
\* types.
THEOREM BrowserTypesCorrect == BrowserParts => []TypesOK
<1> QED BY ClientTypeCorrect, PageTypeCorrect, AdminTypeCorrect, PTL DEF BrowserParts, TypesOK

\* Whatever the user selects, opens or closes while answers are under way, a list, the
\* composer, the form and a dialog show what they are for.
THEOREM ViewsAreAlwaysTheirOwn == BrowserParts => []ViewsAreTheirOwn
<1> QED BY ListsAreAlwaysTheirOwn, ComposerFollowsSelectionAlways, FormIsOfItsDraftAlways,
           DialogsWaitForTheirAnswers, PTL DEF BrowserParts, ViewsAreTheirOwn

\* However fetches, events and changes overlap, what a page has cached comes to rest at what
\* the API holds.
THEOREM SettledViewsAreStoredAlways == BrowserParts => []SettledViewsAreStored
<1> QED BY SettledListIsStoredAlways, SettledProvidersAreStoredAlways, PTL
        DEF BrowserParts, SettledViewsAreStored
=============================================================================
