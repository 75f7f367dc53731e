------------------------- MODULE MCProviderDefaults -------------------------
(* Instances of ProviderDefaults for TLC.                                  *)
EXTENDS ProviderDefaults, TLC

CONSTANTS c1, c2, c3

Symmetry == Permutations(Calls)
=============================================================================
