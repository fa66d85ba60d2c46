----------------------------- MODULE MCApproval -----------------------------
(* Instances of Approval for TLC. *)
EXTENDS Approval, TLC

CONSTANTS p1, p2

All == {"declared", "executable", "allowed"}

MCProposals ==
  {[type |-> "rollback", revision |-> 1, replicas |-> 0, grants |-> All],
   [type |-> "scale", revision |-> 0, replicas |-> 1, grants |-> All],
   [type |-> "restart", revision |-> 0, replicas |-> 0, grants |-> {"declared", "allowed"}]}

\* A rollback to the revision that is running.
ToTheCurrent ==
  {[type |-> "rollback", revision |-> 2, replicas |-> 0, grants |-> All]}

MCSymmetry == Permutations(Responders)
=============================================================================
