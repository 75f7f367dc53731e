----------------------------- MODULE ApiProcess -----------------------------
(***************************************************************************)
(* The API program: server.ts with the queue client it composes            *)
(* (composition/api.ts, jobQueue.client.ts).  Signals are handled from the *)
(* moment the server listens, and each of them starts a shutdown of its    *)
(* own.                                                                    *)
(***************************************************************************)
EXTENDS Naturals, FiniteSets

CONSTANTS
  Clients,       \* connections
  MaxApiFaults   \* bound on failing calls

ASSUME ApiFaultCount == MaxApiFaults \in Nat

VARIABLES
  api,       \* the process
  conn,      \* connection -> what it waits for
  apiFaults

apiVars == <<api, conn, apiFaults>>

Api ==
  [main : {"off", "connect", "create", "boot", "up", "failing", "gone"}, \* startServer()
   server : {"no", "open", "closing"},
   drain : {"no", "close", "stop", "disconnect"},  \* the first shutdown()
   again : BOOLEAN,                                \* a second one waits for 'close'
   boss : BOOLEAN, transport : BOOLEAN,            \* fields of the queue client
   client : BOOLEAN,                               \* its pg-boss, really open
   code : {"none", "clean", "failed", "killed"}]

ApiTypeOK ==
  /\ api \in Api /\ conn \in [Clients -> {"none", "request", "stream"}]
  /\ apiFaults \in 0..MaxApiFaults

ApiOff == [main |-> "off", server |-> "no", drain |-> "no", again |-> FALSE, boss |-> FALSE,
           transport |-> FALSE, client |-> FALSE, code |-> "none"]

ApiInit == api = ApiOff /\ conn = [c \in Clients |-> "none"] /\ apiFaults = 0

ApiFault == apiFaults < MaxApiFaults /\ apiFaults' = apiFaults + 1
ApiBecomes(a) == api' = a /\ UNCHANGED <<conn, apiFaults>>
ApiBreaks(a) == api' = a /\ ApiFault /\ UNCHANGED conn

\* process.exit() cuts every connection.
ApiGone(a, how) == [a EXCEPT !.main = "gone", !.code = how]
ApiExits(a, how) == api' = ApiGone(a, how) /\ conn' = [c \in Clients |-> "none"]

-----------------------------------------------------------------------------
(* startServer() and startClient().                                        *)

ApiBoot == api.main = "off" /\ ApiBecomes([api EXCEPT !.main = "connect"])

\* connectDatabase exits by itself when it fails.
ApiConnected ==
  /\ api.main = "connect"
  /\ \/ ApiBecomes([api EXCEPT !.main = "create"])
     \/ ApiFault /\ ApiExits(api, "failed")

QueueClientCreated ==
  /\ api.main = "create"
  /\ \/ ApiBecomes([api EXCEPT !.main = "boot", !.boss = TRUE, !.client = TRUE])
     \/ ApiBreaks([api EXCEPT !.main = "failing"])

\* A client that does not start is disposed of, whatever comes of that; then the server
\* listens.
QueueClientStarted ==
  /\ api.main = "boot"
  /\ \/ ApiBecomes([api EXCEPT !.main = "up", !.transport = TRUE, !.server = "open"])
     \/ \E closed \in BOOLEAN :
          ApiBreaks([api EXCEPT !.main = "failing", !.boss = FALSE, !.client = ~closed])

\* The catch of startServer: the queue client has nothing left to stop.
FailedApiExits == api.main = "failing" /\ ApiExits(api, "failed") /\ UNCHANGED apiFaults

-----------------------------------------------------------------------------
(* Connections.  A plain request ends, and may take a job to the queue; a  *)
(* stream of job events ends when its client leaves.                       *)

Connect ==
  /\ api.main = "up" /\ api.server = "open"
  /\ \E c \in Clients, k \in {"request", "stream"} : conn[c] = "none" /\ conn' = [conn EXCEPT ![c] = k]
  /\ UNCHANGED <<api, apiFaults>>

\* Mutant: an answered connection stays.
AnswerKept ==
  /\ \E c \in Clients : conn[c] = "request" /\ conn' = [conn EXCEPT ![c] = "answered"]
  /\ UNCHANGED <<api, apiFaults>>

Answer ==
  /\ \E c \in Clients : conn[c] = "request" /\ conn' = [conn EXCEPT ![c] = "none"]
  /\ UNCHANGED <<api, apiFaults>>

Leave ==
  /\ \E c \in Clients : conn[c] # "none" /\ conn' = [conn EXCEPT ![c] = "none"]
  /\ UNCHANGED <<api, apiFaults>>

-----------------------------------------------------------------------------
(* shutdown().                                                             *)

\* Before the server listens a signal kills the process.  A further signal waits for the
\* same 'close' as the first and then gets an error.
ApiSignal ==
  \/ api.main = "up" /\ api.server = "open"
     /\ ApiBecomes([api EXCEPT !.server = "closing", !.drain = "close"])
  \/ api.main = "up" /\ api.server = "closing" /\ ApiBecomes([api EXCEPT !.again = TRUE])
  \/ api.main \in {"connect", "create", "boot", "failing"} /\ ApiExits(api, "killed") /\ UNCHANGED apiFaults

Drained == \A c \in Clients : conn[c] = "none"

\* Mutant: the queue is stopped while connections are open.
ClosedEarly ==
  /\ api.main = "up" /\ api.drain = "close"
  /\ ApiBecomes([api EXCEPT !.drain = "stop", !.boss = FALSE, !.transport = FALSE])

\* 'close': the first shutdown goes on to composition.stop(), which clears the fields.
ServerClosed ==
  /\ api.main = "up" /\ api.drain = "close" /\ Drained
  /\ ApiBecomes([api EXCEPT !.drain = "stop", !.boss = FALSE, !.transport = FALSE])

\* Mutant: nobody looks whether the queue client has closed.
StoppedAnyhow ==
  /\ api.main = "up" /\ api.drain = "stop"
  /\ \/ ApiBecomes([api EXCEPT !.drain = "disconnect", !.client = FALSE])
     \/ ApiBreaks([api EXCEPT !.drain = "disconnect"])

\* Mutant: the failure of client.stop() is logged and nothing else.
StoppedOrStuck ==
  /\ api.main = "up" /\ api.drain = "stop"
  /\ \/ ApiBecomes([api EXCEPT !.drain = "disconnect", !.client = FALSE])
     \/ ApiBreaks([api EXCEPT !.drain = "stuck"])

\* client.stop(), whose failure ends the process with 1.
QueueClientStopped ==
  /\ api.main = "up" /\ api.drain = "stop"
  /\ \/ ApiBecomes([api EXCEPT !.drain = "disconnect", !.client = FALSE])
     \/ ApiFault /\ ApiExits(api, "failed")

ApiDisconnected ==
  /\ api.main = "up" /\ api.drain = "disconnect"
  /\ \/ ApiExits(api, "clean") /\ UNCHANGED apiFaults
     \/ ApiFault /\ ApiExits(api, "failed")

\* The second shutdown's server.close() reports that the server is not running.
SecondShutdownExits ==
  api.main = "up" /\ api.again /\ Drained /\ ApiExits(api, "failed") /\ UNCHANGED apiFaults

-----------------------------------------------------------------------------
ApiStarts == ApiConnected \/ QueueClientCreated \/ QueueClientStarted \/ FailedApiExits
ApiStops == ServerClosed \/ QueueClientStopped \/ ApiDisconnected \/ SecondShutdownExits

ApiNext == ApiBoot \/ ApiStarts \/ Connect \/ Answer \/ Leave \/ ApiSignal \/ ApiStops

\* Plain requests are answered; no client has to leave.
ApiFairness == WF_apiVars(ApiStarts) /\ WF_apiVars(ApiStops) /\ WF_apiVars(Answer)

ApiSpec == ApiInit /\ [][ApiNext]_apiVars /\ ApiFairness

-----------------------------------------------------------------------------
\* A request that has been accepted finds the queue's transport until it is answered,
\* also while the server shuts down (getJobQueueTransport throws without one).
RequestsHaveQueue == api.main = "up" /\ ~Drained => api.transport

\* An API that exits with 0 has answered what it accepted and closed its queue client,
\* however many signals came and whatever failed before.
CleanApiExit == api.code = "clean" => ~api.client /\ ~api.boss /\ Drained

\* A shutdown ends if its clients leave; an open stream may hold it for ever.
ApiShutdownEnds == [](api.drain # "no" /\ <>Drained => <>(api.main = "gone"))
=============================================================================
