---------------------------- MODULE MCSessions ----------------------------
(* Chat sessions, their titles and who may reach them, for TLC: the union  *)
(* of three instances of SessionTitles (two workers, a fault and two       *)
(* replies; one worker and a third reply, for a transcript of several      *)
(* pages; one worker and two sessions, for the batches) and two of         *)
(* WorkspaceAccess (accounts from an empty database, with seeds, a sampler *)
(* and one request; a seeded database and two requests that overlap).      *)
(* What a part does not use is used up from the start.                     *)
EXTENDS Sessions

CONSTANTS w1, w2

TitlesInit(part) ==
  /\ sessions = [s \in Sessions |->
       [source |-> IF s = 1 \/ part = "sessions" THEN "absent" ELSE "deleted",
        eligible |-> 0, attempted |-> 0]]
  /\ replies = [m \in Replies |->
       [session |-> 0, whole |-> FALSE,
        state |-> IF m = 1 /\ part # "pages" THEN "rolled_back" ELSE "free"]]
  /\ workers = [w \in Workers |->
       IdleWorker(IF w = w1 THEN "up" ELSE IF part = "workers" THEN "down" ELSE "unused")]
  /\ faults = IF part = "workers" THEN 0 ELSE MaxFaults
  /\ archived = FALSE
  /\ lock = [s \in Sessions |-> NoWorker]
  /\ jobs = [k \in Jobs |-> NoJob]
  /\ applied = [s \in Sessions |-> 0]

UsedUp == [Unsent EXCEPT !.pc = "refused"]

\* Both seeded users have their personal workspace, and the second a session in a
\* workspace of its own making.
Seeded ==
  /\ accounts = [u \in Users |-> CASE u = 1 -> NewAccount("admin", "ADMIN", FALSE)
                                   [] u = 2 -> NewAccount("user", "USER", FALSE)
                                   [] OTHER -> NoAccount]
  /\ spaces = [w \in Spaces |-> CASE w = 1 -> NewSpace(1, "PERSONAL")
                                  [] w = 2 -> NewSpace(2, "PERSONAL")
                                  [] w = 3 -> NewSpace(2, "STANDARD")
                                  [] OTHER -> NoSpace]
  /\ chats = [c \in Chats |-> IF c = 1 THEN [space |-> 3, there |-> TRUE, writers |-> {2}]
                              ELSE NoChat]
  /\ tokens = {1, 2} /\ provisioned = {1, 2}
  /\ requests = [r \in Requests |-> Unsent]
  /\ provisioning = [p \in Provisioners |-> [Resting EXCEPT !.pc = "unused"]]
  /\ seeds = MaxSeeds /\ halts = MaxHalts

Unseeded(sent, seeded) ==
  /\ accounts = [u \in Users |-> NoAccount] /\ spaces = [w \in Spaces |-> NoSpace]
  /\ chats = [c \in Chats |-> NoChat] /\ tokens = {} /\ provisioned = {}
  /\ requests = [r \in Requests |-> IF r <= sent THEN UsedUp ELSE Unsent]
  /\ provisioning = [p \in Provisioners |-> Resting]
  /\ seeds = seeded /\ halts = IF seeded = 0 THEN 0 ELSE MaxHalts

MCInit ==
  /\ \/ (\E part \in {"workers", "pages", "sessions"} : TitlesInit(part)) /\ Unseeded(MaxRequests, MaxSeeds)
     \/ TitlesInit("none") /\ (Seeded \/ Unseeded(MaxRequests - 1, 0))
  /\ owners = [w \in Spaces |-> {spaces[w].owner} \ {0}]

\* The parts of the titles, which no step leaves or enters.
OfTitles == Registered = {} /\ \A r \in Requests : requests[r].pc = "refused"

\* The first of two requests is sent through a workspace of its user: before any deletion
\* every other one is refused, whatever comes after it.
FirstIsOwn == \A r \in Requests : r < MaxRequests /\ requests'[r].pc = "sent" => requests'[r].spaceWas

MCNext ==
  \/ OfTitles /\ Next /\ UNCHANGED accessVars
  \/ ~OfTitles /\ AccessNext /\ UNCHANGED vars /\ FirstIsOwn

MCSpec == MCInit /\ [][MCNext]_<<vars, accessVars>> /\ Fairness
=============================================================================
