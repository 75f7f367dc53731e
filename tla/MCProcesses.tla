---------------------------- MODULE MCProcesses -----------------------------
(* Instances of the two programs for TLC: one worker from its start to its *)
(* end and started again, or two workers that are up, or an API.           *)
EXTENDS Processes, TLC

CONSTANTS w1, w2

Up == [Off EXCEPT !.main = "up", !.held = Resources, !.open = Resources]

ApiNever == [ApiOff EXCEPT !.main = "gone"]

MCInit ==
  /\ job = [j \in Rows |-> "none"] /\ lock = None /\ expired = FALSE
  /\ conn = [c \in Clients |-> "none"] /\ apiFaults = 0
  /\ \/ proc = [w \in Workers |-> Off] /\ api = ApiNever /\ starts = 0 /\ faults = 0
     \/ proc = [w \in Workers |-> Up] /\ api = ApiNever /\ starts = MaxStarts /\ faults = MaxFaults - 1
     \/ proc = [w \in Workers |-> Off] /\ api = ApiOff /\ starts = MaxStarts /\ faults = MaxFaults

\* The second worker is never started, only found up.
MCNext ==
  \/ Next /\ proc'[w2].main # "connect" /\ UNCHANGED apiVars
  \/ ApiNext /\ UNCHANGED vars

MCSpec == MCInit /\ [][MCNext]_<<vars, apiVars>> /\ Fairness /\ ApiFairness
=============================================================================
