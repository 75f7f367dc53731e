---------------------------- MODULE MCJobSystem ----------------------------
(* Instances of JobSystem for TLC.                                         *)
EXTENDS JobSystem, TLC

CONSTANTS j1, j2, r1, r2, c1

OneAttempt    == j1 :> 1
TwoAttempts   == j1 :> 2
MixedAttempts == j1 :> 1 @@ j2 :> 2

Symmetry == Permutations(Runs)
=============================================================================
