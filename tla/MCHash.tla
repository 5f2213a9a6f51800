------------------------------- MODULE MCHash -------------------------------
(* Instances of Hash for TLC.                                              *)
EXTENDS Hash, TLC

CONSTANTS v1, v2

TwoValues == {v1, v2}
Symmetry == Permutations(TwoValues)
=============================================================================
