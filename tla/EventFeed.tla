----------------------------- MODULE EventFeed ------------------------------
(***************************************************************************)
(* What GET /api/jobs/events promises its client: while it is open it      *)
(* shows states jobs really had, for each job in the order in which it had *)
(* them; it owes no history, and it shows nothing once it is closed.       *)
(***************************************************************************)
EXTENDS Naturals

CONSTANT Jobs

VARIABLES
  revision,  \* number of writes to each job
  open,      \* the feed is open
  shown      \* the last revision of each job the feed has shown

Init == revision \in [Jobs -> Nat] /\ open = FALSE /\ shown = [j \in Jobs |-> 0]

Open == ~open /\ open' = TRUE /\ UNCHANGED <<revision, shown>>

Close == open /\ open' = FALSE /\ UNCHANGED <<revision, shown>>

Write(j) == revision' = [revision EXCEPT ![j] = @ + 1] /\ UNCHANGED <<open, shown>>

Show ==
  /\ open
  /\ shown' \in [Jobs -> Nat]
  /\ \A j \in Jobs : shown'[j] # shown[j] => shown[j] < shown'[j] /\ shown'[j] <= revision[j]
  /\ UNCHANGED <<revision, open>>

Next == Open \/ Close \/ Show \/ \E j \in Jobs : Write(j)

Spec == Init /\ [][Next]_<<revision, open, shown>>
=============================================================================
