------------------------------ MODULE Processes ------------------------------
(* The worker program and the API program together: they share nothing but *)
(* the database, so the system is the conjunction of their specifications, *)
(* and what it promises of both is stated here once.                       *)
EXTENDS WorkerProcess, ApiProcess

Programs == Spec /\ ApiSpec

\* The types of worker.ts, composition/worker.ts and of server.ts.
TypesOK == TypeOK /\ ApiTypeOK

\* Whoever has been let in to use the queue finds it open: a start of the worker, a title
\* tick, a request to the API.
QueueIsThere == StartKeepsItsQueue /\ TitleTickHasQueue /\ RequestsHaveQueue

\* An exit that is reported as clean has left nothing behind, in worker.ts and in server.ts.
ExitsAreClean == CleanExit /\ CleanApiExit

\* Processes end when they are told to and work as long as they are not.
ProcessesGoOn == ShutdownEnds /\ ApiShutdownEnds /\ SamplingGoesOn
=============================================================================
