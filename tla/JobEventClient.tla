--------------------------- MODULE JobEventClient ---------------------------
(***************************************************************************)
(* The browser's side of the job-event feed (jobEventClient.ts): one       *)
(* JobEventSubscriptionClient that keeps one authenticated stream for the  *)
(* validated workspace and the union of what the mounted features have     *)
(* registered, and the features, which fetch the state of their jobs again *)
(* whenever they are called (useJobEventSubscription.ts, Home.tsx).        *)
(* The server is what EventFeed promises: a stream begins with "ready" and *)
(* shows every job that ends while it is open.                             *)
(***************************************************************************)
EXTENDS Naturals, FiniteSets, Sequences

CONSTANTS
  Workspaces,     \* ids of workspaces, positive numbers
  Registrations,  \* components that may register
  Types,          \* job types
  typeOf,         \* the type each registration asks for
  Jobs,
  jobType, jobWorkspace,
  MaxRequests,    \* bound on requests whose async function has not finished
  MaxFrames,      \* bound on frames under way on a stream
  MaxTokens,      \* tokens 1..MaxTokens, issued in that order; 0 is no token
  MaxActs,        \* bound on what the user does: workspaces, components, logins
  MaxFaults       \* bound on streams that break and requests that are refused

ASSUME ClientTypes ==
  /\ Workspaces \subseteq Nat \ {0} /\ {MaxRequests, MaxFrames, MaxTokens} \subseteq Nat \ {0}
  /\ typeOf \in [Registrations -> Types] /\ jobType \in [Jobs -> Types]
  /\ jobWorkspace \in [Jobs -> Workspaces] /\ {MaxActs, MaxFaults} \subseteq Nat

VARIABLES
  client,     \* the fields of the JobEventSubscriptionClient, and its requests
  token,      \* the token in localStorage
  expired,    \* tokens the server rejects
  final,      \* jobs that have ended
  learned,    \* per registration: the jobs whose end its last refetch has seen
  told,       \* history: onJob calls since the registration and the workspace began
  logouts,    \* history: logouts by this client
  acts, faults

vars == <<client, token, expired, final, learned, told, logouts, acts, faults>>

-----------------------------------------------------------------------------
Requests == 1..MaxRequests
Tokens == 1..MaxTokens

\* A request of connect(): answered, then read as a stream.  frames: written by the
\* server and not dispatched yet; fed: jobs the server will not show (again).
Request ==
  [state : {"free", "sent", "answered", "open", "over"}, aborted : BOOLEAN,
   workspace : Workspaces \cup {0}, types : SUBSET Types, token : Tokens \cup {0},
   answer : {"none", "ok", "unauthorized", "refused", "unavailable"},
   frames : Seq({"ready"} \cup Jobs), fed : SUBSET Jobs]

FreeRequest == [state |-> "free", aborted |-> FALSE, workspace |-> 0, types |-> {}, token |-> 0,
                answer |-> "none", frames |-> <<>>, fed |-> {}]

NoKey == <<0, {}>>

\* controller: the current request, 0 for null; a request is current when it is this one
\* and not aborted, which generation, controller and signal together decide.
Client ==
  [workspaceId : Workspaces \cup {0}, registrations : SUBSET Registrations,
   activeKey : (Workspaces \cup {0}) \X SUBSET Types, controller : Requests \cup {0},
   retryTimer : BOOLEAN, ready : BOOLEAN, blocked : BOOLEAN, authFailed : BOOLEAN,
   requests : [Requests -> Request]]

TypeOK ==
  /\ client \in Client /\ token \in Tokens \cup {0} /\ expired \subseteq Tokens
  /\ final \subseteq Jobs /\ learned \in [Registrations -> SUBSET Jobs]
  /\ told \subseteq Registrations \X Jobs /\ logouts \in 0..1
  /\ acts \in 0..MaxActs /\ faults \in 0..MaxFaults
  /\ \A i \in Requests : Len(client.requests[i].frames) <= MaxFrames

Fresh == [workspaceId |-> 0, registrations |-> {}, activeKey |-> NoKey, controller |-> 0,
          retryTimer |-> FALSE, ready |-> FALSE, blocked |-> FALSE, authFailed |-> FALSE,
          requests |-> [i \in Requests |-> FreeRequest]]

Init ==
  /\ client = Fresh /\ token = 1 /\ expired = {} /\ final = {} /\ told = {}
  /\ learned = [r \in Registrations |-> {}] /\ logouts = 0 /\ acts = 0 /\ faults = 0

Act == acts < MaxActs /\ acts' = acts + 1
Fault == faults < MaxFaults /\ faults' = faults + 1

-----------------------------------------------------------------------------
(* stop, connect, reconcile and failAuthentication, as functions of the    *)
(* client and the token.                                                   *)

Stop(c) ==
  [c EXCEPT !.ready = FALSE, !.activeKey = NoKey, !.retryTimer = FALSE, !.controller = 0,
            !.requests = [i \in Requests |-> IF i = c.controller THEN [@[i] EXCEPT !.aborted = TRUE]
                                             ELSE @[i]]]

Free(c) == {i \in Requests : c.requests[i].state = "free"}

\* Without a token: failAuthentication.
Connect(c, tok) ==
  IF tok = 0 THEN [Stop(c) EXCEPT !.authFailed = TRUE]
  ELSE LET i == CHOOSE n \in Free(c) : \A m \in Free(c) : n <= m
       IN [c EXCEPT !.controller = i,
                    !.requests[i] = [FreeRequest EXCEPT !.state = "sent", !.token = tok,
                                       !.workspace = c.activeKey[1], !.types = c.activeKey[2]]]

Wanted(c) == <<c.workspaceId, {typeOf[r] : r \in c.registrations}>>

\* Mutant: a stream that is there is kept, whatever it asks for.
ReconcileOnce(c, tok) ==
  IF c.workspaceId = 0 \/ c.registrations = {} \/ c.authFailed THEN Stop(c)
  ELSE IF c.controller # 0 \/ c.retryTimer \/ c.blocked THEN c
  ELSE Connect([Stop(c) EXCEPT !.activeKey = Wanted(c), !.blocked = FALSE], tok)

Reconcile(c, tok) ==
  IF c.workspaceId = 0 \/ c.registrations = {} \/ c.authFailed THEN Stop(c)
  ELSE IF Wanted(c) = c.activeKey /\ (c.controller # 0 \/ c.retryTimer \/ c.blocked) THEN c
  ELSE Connect([Stop(c) EXCEPT !.activeKey = Wanted(c), !.blocked = FALSE], tok)

\* Mutant: a client that has failed before logs out again.
BecomesAgain(c) ==
  /\ client' = c
  /\ IF c.authFailed THEN token' = 0 /\ logouts' = logouts + 1 ELSE UNCHANGED <<token, logouts>>

\* The new fields; a client that has just failed to authenticate logs the user out.
Becomes(c) ==
  /\ client' = c
  /\ IF c.authFailed /\ ~client.authFailed THEN token' = 0 /\ logouts' = logouts + 1
     ELSE UNCHANGED <<token, logouts>>

\* What a feature fetches when it is called.
Refetch(rs) ==
  learned' = [r \in Registrations |->
                IF r \in rs THEN {j \in final : jobWorkspace[j] = client.workspaceId} ELSE learned[r]]

-----------------------------------------------------------------------------
(* The application: the route's workspace, mounted features, the session.  *)

\* A free slot for the request a step may send.
Room == Free(client) # {}

SetWorkspaceId(w) ==
  /\ w # client.workspaceId /\ Room
  /\ Act
  /\ Becomes(Reconcile([Stop(client) EXCEPT !.workspaceId = w, !.blocked = FALSE], token))
  /\ learned' = [r \in Registrations |-> {}] /\ told' = {}
  /\ UNCHANGED <<expired, final, faults>>

\* Mutant: only a stream that opens calls onReady.
RegisterUncalled(r) ==
  /\ r \notin client.registrations /\ Room
  /\ Act
  /\ Becomes(Reconcile([client EXCEPT !.registrations = @ \cup {r}], token))
  /\ UNCHANGED <<learned, expired, final, told, faults>>

\* A registration that joins a ready stream is called at once.
Register(r) ==
  /\ r \notin client.registrations /\ Room
  /\ Act
  /\ LET c == Reconcile([client EXCEPT !.registrations = @ \cup {r}], token) IN
       /\ Becomes(c)
       /\ IF client.ready /\ c.activeKey = client.activeKey THEN Refetch({r}) ELSE UNCHANGED learned
  /\ UNCHANGED <<expired, final, told, faults>>

Unregister(r) ==
  /\ r \in client.registrations /\ Room
  /\ Act
  /\ Becomes(Reconcile([client EXCEPT !.registrations = @ \ {r}], token))
  /\ learned' = [learned EXCEPT ![r] = {}]
  /\ told' = {call \in told : call[1] # r}
  /\ UNCHANGED <<expired, final, faults>>

\* A login, here or in another tab of the browser, replaces the token.
LogIn ==
  /\ Act
  /\ token # 0 /\ token < MaxTokens /\ token' = token + 1
  /\ UNCHANGED <<client, expired, final, learned, told, logouts, faults>>

Expire(t) ==
  /\ t \notin expired /\ t <= token
  /\ Act
  /\ expired' = expired \cup {t}
  /\ UNCHANGED <<client, token, final, learned, told, logouts, faults>>

EndJob(j) ==
  /\ j \notin final
  /\ final' = final \cup {j}
  /\ UNCHANGED <<client, token, expired, learned, told, logouts, acts, faults>>

-----------------------------------------------------------------------------
(* The server.                                                             *)

SetRequest(i, request) ==
  /\ client' = [client EXCEPT !.requests[i] = request]
  /\ UNCHANGED <<token, expired, final, learned, told, logouts, acts>>

\* Jobs that ended long before are not shown.
Answer(i) ==
  /\ client.requests[i].state = "sent" /\ ~client.requests[i].aborted
  /\ LET request == client.requests[i] IN
       \/ /\ request.token \notin expired
          /\ SetRequest(i, [request EXCEPT !.state = "answered", !.answer = "ok", !.fed = final,
                                           !.frames = <<"ready">>])
          /\ UNCHANGED faults
       \/ /\ request.token \in expired
          /\ SetRequest(i, [request EXCEPT !.state = "answered", !.answer = "unauthorized"])
          /\ UNCHANGED faults

\* Another 4xx, or a 5xx, 408, 429 and network failures.
AnswerBadly(i) ==
  /\ client.requests[i].state = "sent" /\ ~client.requests[i].aborted
  /\ Fault
  /\ \E answer \in {"refused", "unavailable"} :
       SetRequest(i, [client.requests[i] EXCEPT !.state = "answered", !.answer = answer])

Send(i) ==
  /\ client.requests[i].state \in {"answered", "open"} /\ client.requests[i].answer = "ok"
  /\ Len(client.requests[i].frames) < MaxFrames
  /\ \E j \in final \ client.requests[i].fed :
       /\ jobWorkspace[j] = client.requests[i].workspace /\ jobType[j] \in client.requests[i].types
       /\ SetRequest(i, [client.requests[i] EXCEPT !.frames = Append(@, j), !.fed = @ \cup {j}])
  /\ UNCHANGED faults

\* The stream ends: the server goes down, or the connection breaks under the client.
Break(i) ==
  /\ client.requests[i].state = "open"
  /\ Fault
  /\ SetRequest(i, [client.requests[i] EXCEPT !.state = "over", !.frames = <<>>])

-----------------------------------------------------------------------------
(* The async function of a request.                                        *)

Current(i) == client.controller = i /\ ~client.requests[i].aborted

Return(c, i) == [c EXCEPT !.requests[i] = FreeRequest]

\* The end of a current request: controller, reader and ready are reset, the retry is set.
Retry(c, i) == [Return(c, i) EXCEPT !.controller = 0, !.ready = FALSE, !.retryTimer = TRUE]

\* Mutant: a 401 ends the session, whichever token it was about.
HandleUnauthorizedAlways(i) ==
  Becomes([Stop(Return(client, i)) EXCEPT !.authFailed = TRUE])

\* A 401 about the current token ends the session, one about an older token does not.
HandleUnauthorized(i) ==
  IF token # 0 /\ token # client.requests[i].token
  THEN Becomes(Reconcile(Stop(Return(client, i)), token))
  ELSE Becomes([Stop(Return(client, i)) EXCEPT !.authFailed = TRUE])

Continue(i) ==
  /\ \/ client.requests[i].state = "answered"
     \/ client.requests[i].state = "sent" /\ client.requests[i].aborted
  /\ LET answer == client.requests[i].answer IN
       \/ ~Current(i) /\ Becomes(Return(client, i))
       \/ Current(i) /\ answer = "unauthorized" /\ HandleUnauthorized(i)
       \/ Current(i) /\ answer = "refused"
          /\ Becomes([Return(client, i) EXCEPT !.controller = 0, !.blocked = TRUE])
       \/ Current(i) /\ answer = "unavailable" /\ Becomes(Retry(client, i))
       \/ Current(i) /\ answer = "ok" /\ Becomes([client EXCEPT !.requests[i].state = "open"])
  /\ UNCHANGED <<expired, final, learned, told, acts, faults>>

\* Mutant: frames that were read before the stream was stopped are dispatched.
DispatchStale(i) ==
  /\ client.requests[i].state = "open" /\ client.requests[i].frames # <<>>
  /\ LET frame == Head(client.requests[i].frames)
         c == [client EXCEPT !.requests[i].frames = Tail(@)]
         called == {r \in client.registrations : frame = "ready" \/ jobType[frame] = typeOf[r]}
     IN /\ Becomes(IF frame = "ready" THEN [c EXCEPT !.ready = TRUE] ELSE c)
        /\ Refetch(called)
        /\ told' = told \cup {<<r, frame>> : r \in IF frame = "ready" THEN {} ELSE called}
  /\ UNCHANGED <<expired, final, acts, faults>>

\* dispatchFrame: "ready" calls every registration, a job those that asked for its type.
Dispatch(i) ==
  /\ client.requests[i].state = "open" /\ client.requests[i].frames # <<>> /\ Current(i)
  /\ LET frame == Head(client.requests[i].frames)
         c == [client EXCEPT !.requests[i].frames = Tail(@)]
         called == {r \in client.registrations : frame = "ready" \/ jobType[frame] = typeOf[r]}
     IN /\ Becomes(IF frame = "ready" THEN [c EXCEPT !.ready = TRUE] ELSE c)
        /\ Refetch(called)
        /\ told' = told \cup {<<r, frame>> : r \in IF frame = "ready" THEN {} ELSE called}
  /\ UNCHANGED <<expired, final, acts, faults>>

\* readStream is left: the stream is over, or not the current one any more; what it has
\* read and not dispatched is dropped then.
LeaveStream(i) ==
  /\ \/ client.requests[i].state = "over"
     \/ client.requests[i].state = "open" /\ ~Current(i)
  /\ Becomes(IF Current(i) THEN Retry(client, i) ELSE Return(client, i))
  /\ UNCHANGED <<expired, final, learned, told, acts, faults>>

RetryFires ==
  /\ client.retryTimer /\ Room
  /\ Becomes(Connect([client EXCEPT !.retryTimer = FALSE], token))
  /\ UNCHANGED <<expired, final, learned, told, acts, faults>>

ServerStep == \E i \in Requests : Answer(i) \/ Send(i)
ClientStep == RetryFires \/ \E i \in Requests : Continue(i) \/ Dispatch(i) \/ LeaveStream(i)

Next ==
  \/ \E w \in Workspaces \cup {0} : SetWorkspaceId(w)
  \/ \E r \in Registrations : Register(r) \/ Unregister(r)
  \/ LogIn \/ \E t \in Tokens : Expire(t)
  \/ \E j \in Jobs : EndJob(j)
  \/ ServerStep \/ ClientStep
  \/ \E i \in Requests : AnswerBadly(i) \/ Break(i)

Spec == Init /\ [][Next]_vars

\* Fairness: the server answers and feeds, promises continue, the retry timer expires.
Fairness == WF_vars(ServerStep) /\ WF_vars(ClientStep)

FairSpec == Spec /\ Fairness

-----------------------------------------------------------------------------
\* The client follows what is registered: with a workspace and a registration there is
\* one stream, retry or refusal, for exactly that workspace and those types; without,
\* or after the session ended, there is none, and every other request is aborted.
FollowsRegistrations ==
  LET c == client
      wanted == c.workspaceId # 0 /\ c.registrations # {} /\ ~c.authFailed
  IN /\ wanted => c.activeKey = Wanted(c) /\ (c.controller # 0 \/ c.retryTimer \/ c.blocked)
     /\ ~wanted => c.controller = 0 /\ ~c.retryTimer
     /\ \A i \in Requests : c.requests[i].state # "free" =>
          IF i = c.controller
          THEN ~c.requests[i].aborted /\ <<c.requests[i].workspace, c.requests[i].types>> = c.activeKey
          ELSE c.requests[i].aborted

\* No feature is told of a job of another workspace or of a type it did not ask for,
\* although frames of a stopped stream may have been read already.
ToldOwnJobs ==
  \A call \in told : /\ call[1] \in client.registrations
                     /\ jobWorkspace[call[2]] = client.workspaceId
                     /\ jobType[call[2]] = typeOf[call[1]]

\* The user is logged out at most once, and only when the server rejects the token the
\* browser holds now.
LogoutIsJustified == [][logouts' # logouts => token \in expired]_vars

\* A mounted feature learns of every job of its type that ends in its workspace, through
\* reconnections, other features' registrations and changes of the token.
FinalIsLearned ==
  \A r \in Registrations : \A j \in {k \in Jobs : jobType[k] = typeOf[r]} :
    (r \in client.registrations /\ j \in final /\ client.workspaceId = jobWorkspace[j])
    ~> \/ j \in learned[r] \/ r \notin client.registrations \/ client.blocked \/ client.authFailed
       \/ client.workspaceId # jobWorkspace[j]
\* What the client does is for the user and the features that are there: its requests, its
\* calls and its logouts.
StaysWithItsUser == []FollowsRegistrations /\ []ToldOwnJobs /\ LogoutIsJustified
=============================================================================
