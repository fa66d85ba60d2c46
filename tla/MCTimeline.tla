----------------------------- MODULE MCTimeline -----------------------------
(* Instances of Timeline for TLC. *)
EXTENDS Timeline, TLC

CONSTANTS w1, w2, p1, p2

MCSymmetry == Permutations({w1, w2})
=============================================================================
