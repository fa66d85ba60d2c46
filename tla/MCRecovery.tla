----------------------------- MODULE MCRecovery -----------------------------
(* Instances of Recovery for TLC. *)
EXTENDS Recovery, TLC

CONSTANTS v1, v2

MCSymmetry == Permutations(Verifiers)
=============================================================================
