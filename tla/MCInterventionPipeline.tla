----------------------- MODULE MCInterventionPipeline -----------------------
(* Instances of InterventionPipeline for TLC. *)
EXTENDS InterventionClaims, TLC

Scale(n) == [type |-> "scale", replicas |-> n, revision |-> 1]
Restart  == [type |-> "restart", replicas |-> 0, revision |-> 1]
Rollback == [type |-> "rollback", replicas |-> 0, revision |-> 1]

CONSTANTS e1, e2, i1, i2, w1

OneTarget == [i \in {i1} |-> w1]
SameTarget == [i \in {i1, i2} |-> w1]

ScaleDown == [i \in {i1} |-> Scale(1)]

RestartTwice == [i \in {i1, i2} |-> Restart]
RollbackThenRestart == [i \in {i1, i2} |-> IF i = i1 THEN Rollback ELSE Restart]

\* Executor processes are interchangeable.
Symmetry == Permutations(Executors)
=============================================================================
