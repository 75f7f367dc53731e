---------------------------- MODULE JobEvidence ----------------------------
(***************************************************************************)
(* What the job tables promise whatever races and faults happen: facts     *)
(* about a job are never retracted, a final status is only ever written    *)
(* with its evidence, and the first recorded outcome stays.  The status    *)
(* itself may still be overwritten: see JobLedger for the stronger promise *)
(* kept where nothing overlaps.                                            *)
(***************************************************************************)
EXTENDS JobLifecycle

CONSTANT Jobs

VARIABLE evidence  \* per job: status, requested, returned, finished, coded, outcome

Nothing == [status |-> "NONE", requested |-> FALSE, returned |-> FALSE,
            finished |-> FALSE, coded |-> FALSE, outcome |-> "none"]

\* What has to be known about a job before `status` may be shown or recorded.
Justified(e, status) ==
  /\ isTerminalJobStatus(status) => e.finished
  /\ status = "CANCELLED" => e.requested
  /\ status = "SUCCEEDED" => e.returned
  /\ status = "FAILED" => e.coded

Init == evidence = [j \in Jobs |-> Nothing]

\* One transaction may change several jobs, each of them like this.
Learns(e, f) ==
  /\ e.requested => f.requested
  /\ e.returned => f.returned
  /\ e.finished => f.finished
  /\ e.coded => f.coded
  /\ e.status # "NONE" => f.status # "NONE"
  /\ e.outcome # "none" => f.outcome = e.outcome
  /\ Justified(f, f.status) /\ Justified(f, f.outcome)

Row == [status : JobStatus \cup {"NONE"}, requested : BOOLEAN, returned : BOOLEAN,
        finished : BOOLEAN, coded : BOOLEAN, outcome : TERMINAL_JOB_STATUSES \cup {"none"}]

Next == /\ evidence' \in [Jobs -> Row]
        /\ \A j \in Jobs : Learns(evidence[j], evidence'[j])

Spec == Init /\ [][Next]_evidence
=============================================================================
