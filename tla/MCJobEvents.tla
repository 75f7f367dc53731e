---------------------------- MODULE MCJobEvents ----------------------------
(* An instance of JobEvents for TLC, the union of two: the feed over jobs  *)
(* some of which were there before it, with pages, groups and hint sets    *)
(* that fill up; and the stream of one job.                                *)
EXTENDS JobEvents

Before(status, rev, at) == [status |-> status, rev |-> rev, at |-> at, old |-> FALSE]

Done(at) == Before("SUCCEEDED", MaxRevision, at)
Frozen == Before("RUNNING", MaxRevision, 0)
Moving == Before("RUNNING", MaxRevision - 1, 0)

\* Completed at once or in the other order; more active jobs than a group reads; a
\* job with its whole life.
FeedRows ==
  {<<Done(1), Done(1), Moving>>, <<Done(2), Done(1), Moving>>, <<Moving, Frozen, Moving>>,
   <<Before("NONE", 0, 0), Done(1), Before("NONE", MaxRevision, 0)>>}

MCInit ==
  /\ \/ /\ rows \in FeedRows
        /\ stream = [IdleStream(1) EXCEPT !.pc = "ended", !.gone = TRUE]
        /\ feed = ClosedFeed("unused") /\ listener = "on"
     \/ /\ rows = [j \in Jobs |-> IF j = 1 THEN Before("NONE", 0, 0) ELSE Before("NONE", MaxRevision, 0)]
        /\ stream = IdleStream(1)
        /\ feed = ClosedFeed("closed") /\ listener = "off"
  /\ faults = IF rows[1] = Moving THEN MaxFaults ELSE 0
  /\ notes = {} /\ shown = [j \in Jobs |-> 0]

MCSpec == MCInit /\ [][Next]_vars /\ Fairness
=============================================================================
