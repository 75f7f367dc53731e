----------------------------- MODULE JobLedger -----------------------------
(***************************************************************************)
(* The life of a job as jobLifecycle.ts draws it: attempts are counted     *)
(* while it runs, it ends once, its outcome is recorded once, and every    *)
(* job that was created ends.                                              *)
(***************************************************************************)
EXTENDS JobLifecycle

CONSTANTS Jobs, MaxAttempts

VARIABLES status, attempts, outcome

ledgerVars == <<status, attempts, outcome>>

Init ==
  /\ status = [j \in Jobs |-> "NONE"]
  /\ attempts = [j \in Jobs |-> 0]
  /\ outcome = [j \in Jobs |-> "none"]

Create(j) ==
  /\ status[j] = "NONE"
  /\ status' = [status EXCEPT ![j] = "QUEUED"]
  /\ UNCHANGED <<attempts, outcome>>

StartAttempt(j) ==
  /\ status[j] \in {"QUEUED", "RUNNING"} /\ attempts[j] < MaxAttempts[j]
  /\ status' = [status EXCEPT ![j] = "RUNNING"]
  /\ attempts' = [attempts EXCEPT ![j] = @ + 1]
  /\ UNCHANGED outcome

End(j) ==
  /\ status[j] \in {"QUEUED", "RUNNING"}
  /\ \E s \in {"SUCCEEDED", "FAILED"} :
       /\ s \in VALID_JOB_STATUS_TRANSITIONS[status[j]]
       /\ status' = [status EXCEPT ![j] = s]
  /\ UNCHANGED <<attempts, outcome>>

Record(j) ==
  /\ isTerminalJobStatus(status[j]) /\ outcome[j] = "none"
  /\ outcome' = [outcome EXCEPT ![j] = status[j]]
  /\ UNCHANGED <<status, attempts>>

Next == \E j \in Jobs : Create(j) \/ StartAttempt(j) \/ End(j) \/ Record(j)

Spec == Init /\ [][Next]_ledgerVars /\ \A j \in Jobs : WF_ledgerVars(End(j))
=============================================================================
