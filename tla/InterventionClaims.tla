------------------------- MODULE InterventionClaims -------------------------
(***************************************************************************)
(* What the repository's documents and messages say of Interventions and   *)
(* the code of InterventionPipeline does not keep.                         *)
(***************************************************************************)
EXTENDS InterventionPipeline

InConsume(e) == pc[e] \in InTry \cup InHandler

\* "Serializes Interventions per Managed Workload with expiring leases"
\* (WorkloadLeaseStore, domain/incidents.py): two deliveries never work with
\* one and the same lease.
LeasesAreExclusive ==
  \A e, f \in Executors :
    /\ e # f
    /\ InConsume(e) /\ InConsume(f)
    /\ WorkloadOf(e) = WorkloadOf(f)
    => job[e].token # job[f].token

\* Executor e has applied its action and is still verifying or restoring.
Acting(e) ==
  pc[e] \in {"record_mutation", "verify", "restore_inspect",
             "restore_policy", "restore_renew", "restore_apply",
             "restore_record", "restore_verify"}

\* "concurrent Interventions cannot act on the same workload" (issue 21):
\* no two Executors are at work on one Deployment for different Incidents.
InterventionsAreSerial ==
  \A e, f \in Executors :
    Acting(e) /\ Acting(f) /\ WorkloadOf(e) = WorkloadOf(f)
      => job[e].inc = job[f].inc

\* "Lease loss, stale state, ... stops further writes and enters Safe Halt"
\* (issue 23): after Safe Halt no Executor changes the Deployment any more.
SafeHaltStopsWrites ==
  [][\A x \in writes' \ writes :
       x.inc \in Incidents => record[x.inc].intervention # "safe_halted"]_vars

\* "external mutation ... stops further writes and enters Safe Halt" (issue
\* 23): a restoration does not undo what another writer asked for meanwhile.
RestorationKeepsOthersChanges ==
  \A x, y \in writes :
    /\ x.kind = "restore" /\ y.kind # "restore"
    /\ x.workload = y.workload /\ y.inc # x.inc
    /\ y.from >= record[x.inc].policyState.rv
    => y.from >= x.to

\* "Every attempted action ... is reconstructable from the Investigation
\* Record" (issue 23): once an Intervention is settled, its record says
\* whether it changed the Deployment.
MutationsAreRecorded ==
  \A x \in writes :
    x.kind = "action" /\ record[x.inc].intervention \in TerminalStates
      => "mutated" \in record[x.inc].audit

\* "redelivery resumes ... a previously claimed `running` Intervention"
\* (issue 25): a running Intervention that has recorded its mutation is
\* settled some day, be it by the delivery that resumes it.
MutatedIsSettled ==
  \A i \in Incidents :
    record[i].intervention = "running" /\ "mutated" \in record[i].audit ~>
      record[i].intervention \in TerminalStates
=============================================================================
