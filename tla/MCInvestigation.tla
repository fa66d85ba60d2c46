--------------------------- MODULE MCInvestigation ---------------------------
(* Instances of Investigation for TLC. *)
EXTENDS Investigation, TLC

CONSTANTS r1, r2, s1, s2, p1

MCSymmetry == Permutations({r1, r2}) \cup Permutations({s1, s2})
=============================================================================
