------------------------ MODULE InterventionPipeline ------------------------
(***************************************************************************)
(* From a passed policy decision to the terminal state of an Intervention: *)
(* the Responder's Approval, the Pub/Sub request, and the Executor         *)
(* processes that claim, revalidate, apply, verify and, for a failed       *)
(* scale, restore (services/intervention_executor.py, driven by            *)
(* runtime/workers.py against runtime/live_providers.py).                  *)
(*                                                                         *)
(* Every read or write of Firestore, Kubernetes or Pub/Sub is one step, so *)
(* the steps of two Executors, of the API, of other writers of the         *)
(* Deployment and of the clock interleave as the calls do.                 *)
(***************************************************************************)
EXTENDS WorkloadLease, IncidentRecord, FiniteSets

CONSTANTS
  Executors,        \* Executor processes alive at the same time
  Incidents,
  Target,           \* Target[i]: the workload of i's proposal
  Action,           \* Action[i]: the proposed action of i
  AckDeadline,      \* acknowledgement deadline of the subscription
  MaxAttempts,      \* maximum_delivery_attempts of the subscription: 5
  VerifyLimit,      \* how long verify_deployment_convergence polls
  ReviewTTL,        \* review_ttl: life of an approval review
  Headroom,         \* replica_quota_headroom reported by inspect_deployment
  InitialReplicas,
  \* Bounds of the model.
  ExternalReplicas, \* replica counts other writers choose
  MaxTime,          \* last value of the clock
  MaxRv,            \* other writers stop at this resourceVersion
  MaxEvidence,      \* evidence observations appended per Incident
  MaxFaults,        \* crashes and failed calls
  LastFault         \* no crash or failed call after this time

ActionTypes == {"rollback", "scale", "restart"}

ASSUME PipelineAssumption ==
  /\ Target \in [Incidents -> Workloads]
  /\ Action \in [Incidents -> [type : ActionTypes, replicas : Nat, revision : Nat \ {0}]]
  /\ AckDeadline \in Nat \ {0} /\ MaxAttempts \in Nat \ {0}
  /\ VerifyLimit \in Nat
  /\ ReviewTTL \in Nat \ {0}
  /\ Headroom \in Nat
  /\ InitialReplicas \in Nat
  /\ ExternalReplicas \subseteq Nat
  /\ {MaxTime, MaxRv, MaxEvidence, MaxFaults, LastFault} \subseteq Nat

VARIABLES
  deployment,  \* deployment[w]: the live Deployment
  record,      \* record[i]: the stored Investigation Record
  queue,       \* queue[i]: the Pub/Sub message that carries i's request
  pc,          \* pc[e]: the call Executor e makes next
  job,         \* job[e]: the local variables of e's consume
  override,    \* override[e][w]: e's _rollback_revision_overrides; 0 is absent
  faults,      \* crashes and failed calls so far
  writes       \* history: every change of a Deployment's spec

vars == <<clock, lease, issued, deployment, record, queue, pc, job, override,
          faults, writes>>

-----------------------------------------------------------------------------
(* The live Deployment.  The API server gives every change a new           *)
(* resourceVersion and every change of the spec a new generation; the      *)
(* Deployment controller numbers every new template with a new revision.   *)

DeploymentState == [rv : Nat, gen : Nat, rev : Nat, replicas : Nat]

InitialDeployment == [rv |-> 0, gen |-> 0, rev |-> 2, replicas |-> InitialReplicas]

NewTemplate(d) ==
  [d EXCEPT !.rv = @ + 1, !.gen = @ + 1, !.rev = @ + 1]

\* A patch that asks for the replicas there are changes nothing.
Scaled(d, n) ==
  IF n = d.replicas THEN d
  ELSE [d EXCEPT !.rv = @ + 1, !.gen = @ + 1, !.replicas = n]

\* What applying the patch of i's action makes of d.
Patched(i, d) ==
  IF Action[i].type = "scale" THEN Scaled(d, Action[i].replicas)
                              ELSE NewTemplate(d)

\* inspect_deployment by Executor e: its own rollbacks hide the revision.
Inspect(e, w) ==
  IF override[e][w] = 0 THEN deployment[w]
  ELSE [deployment[w] EXCEPT !.rev = override[e][w]]

\* _action_converged.
ActionConverged(action, previous, observed) ==
  /\ observed.rv # previous.rv
  /\ observed.gen > previous.gen
  /\ CASE action.type = "rollback" -> observed.rev = action.revision
       [] action.type = "scale"    -> /\ observed.replicas = action.replicas
                                      /\ observed.rev = previous.rev
       [] action.type = "restart"  -> observed.rev > previous.rev

\* REPLICA_QUOTA of the policy for scaling from d to n replicas.
WithinQuota(d, n) == n <= d.replicas + Headroom

-----------------------------------------------------------------------------
Nobody == "nobody"

Message == [status   : {"none", "pending", "acked"},
            visible  : Nat,   \* not delivered again before
            attempts : Nat,   \* deliveries so far
            unheard  : Nat]   \* history: of these, not acknowledged although
                              \* no call failed

NoMessage == [status |-> "none", visible |-> 0, attempts |-> 0, unheard |-> 0]

\* The calls of consume before its try block, in it, in its except clauses,
\* and the ones after.
BeforeTry == {"read", "acquire", "commit"}
InTry == {"authorize", "claim", "validate", "renew", "apply", "record_mutation",
          "verify", "converged", "failed", "restore_inspect",
          "restore_policy", "restore_renew", "restore_apply",
          "restore_record", "restore_verify", "restored"}
InHandler == {"halt", "safe_halt", "refuse"}
Steps == {"idle"} \cup BeforeTry \cup InTry \cup InHandler \cup {"release", "ack"}

Job == [inc      : Incidents \cup {Nobody},
        now      : Nat,             \* clock() at the start of consume
        ackBy    : Nat,             \* when Pub/Sub stops waiting for the ack
        claimed  : BOOLEAN,         \* resuming, then claimed
        seen     : Lease,           \* first read of the acquire transaction
        token    : Nat,             \* of the lease acquire returned
        version  : Nat,             \* of the record read after acquire
        patchRv  : Nat,             \* resourceVersion of the patch to apply
        deadline : Nat,             \* of verify_deployment_convergence
        observed : DeploymentState, \* convergence.observed_state
        ack      : BOOLEAN]         \* consume ends in a way the worker acks

NoJob == [inc |-> Nobody, now |-> 0, ackBy |-> 0, claimed |-> FALSE,
          seen |-> NoLease, token |-> NoToken, version |-> 0, patchRv |-> 0,
          deadline |-> 0, observed |-> InitialDeployment, ack |-> TRUE]

\* A change of a spec: whose (Nobody's for another writer's), and the
\* resourceVersions before and after it.
Write == [workload : Workloads, inc : Incidents \cup {Nobody},
          kind : {"action", "restore", "external"}, from : Nat, to : Nat]

TypeOK ==
  /\ LeaseTypeOK
  /\ deployment \in [Workloads -> DeploymentState]
  /\ record \in [Incidents -> Records(DeploymentState)]
  /\ queue \in [Incidents -> Message]
  /\ pc \in [Executors -> Steps]
  /\ job \in [Executors -> Job]
  /\ \A e \in Executors : pc[e] # "idle" => job[e].inc \in Incidents
  /\ override \in [Executors -> [Workloads -> Nat]]
  /\ faults \in Nat
  /\ writes \subseteq Write

Init ==
  /\ LeaseInit
  /\ deployment = [w \in Workloads |-> InitialDeployment]
  /\ record = [i \in Incidents |-> InitialRecord(InitialDeployment)]
  /\ queue = [i \in Incidents |-> NoMessage]
  /\ pc = [e \in Executors |-> "idle"]
  /\ job = [e \in Executors |-> NoJob]
  /\ override = [e \in Executors |-> [w \in Workloads |-> 0]]
  /\ faults = 0
  /\ writes = {}
-----------------------------------------------------------------------------
(* Helpers of the actions.                                                 *)

WorkloadOf(e) == Target[job[e].inc]
RecordOf(e) == record[job[e].inc]

Goto(e, p) == pc' = [pc EXCEPT ![e] = p]

\* The worker's loop takes the next delivery; the locals of consume are gone.
Finish(e) == Goto(e, "idle") /\ job' = [job EXCEPT ![e] = NoJob]

\* The except clauses of consume.
OnError(e) == IF job[e].claimed THEN "halt" ELSE "refuse"

Fault ==
  /\ faults < MaxFaults
  /\ clock <= LastFault
  /\ faults' = faults + 1

\* A call that took effect: the reply arrives, or it is lost and consume
\* sees an exception.
Reply(e, p) ==
  \/ Goto(e, p) /\ UNCHANGED faults
  \/ Goto(e, OnError(e)) /\ Fault

WriteRecord(i, r) == record' = [record EXCEPT ![i] = r]

\* The API server stores d as the state of workload w.
WriteDeployment(w, i, kind, d) ==
  /\ deployment' = [deployment EXCEPT ![w] = d]
  /\ writes' = IF d.gen = deployment[w].gen THEN writes
               ELSE writes \cup {[workload |-> w, inc |-> i, kind |-> kind,
                                  from |-> deployment[w].rv, to |-> d.rv]}

-----------------------------------------------------------------------------
(* The environment: time, other writers, the API.                          *)

Tick ==
  /\ clock < MaxTime
  /\ clock' = clock + 1
  /\ UNCHANGED <<leaseVars, deployment, record, queue, pc, job, override,
                 faults, writes>>

\* A rollout updates the status, an autoscaler the replicas, a release the
\* template.
ExternalWrite(w) ==
  /\ deployment[w].rv < MaxRv
  /\ \E d \in {[deployment[w] EXCEPT !.rv = @ + 1], NewTemplate(deployment[w])}
              \cup {Scaled(deployment[w], n) : n \in ExternalReplicas} :
       WriteDeployment(w, Nobody, "external", d)
  /\ UNCHANGED <<clock, leaseVars, record, queue, pc, job, override, faults>>

\* evaluate_and_record by the Investigator, when every check passes.
PolicyPasses(i) ==
  LET d == deployment[Target[i]] IN
  /\ CanRecordPolicy(record[i])
  /\ Action[i].type = "scale" => WithinQuota(d, Action[i].replicas)
  /\ Action[i].type = "rollback" => Action[i].revision < d.rev
  /\ WriteRecord(i, RecordPolicy(record[i], d))
  /\ UNCHANGED <<clock, leaseVars, deployment, queue, pc, job, override,
                 faults, writes>>

\* decide, with decision APPROVED and a review that `left` more units are
\* left of (none if it expires before the write is stored): the live state
\* must still be the one the policy saw.
Approve(i, left) ==
  /\ CanRecordApproval(record[i], record[i].version)
  /\ deployment[Target[i]] = record[i].policyState
  /\ WriteRecord(i, RecordApproval(record[i], clock + left))
  /\ UNCHANGED <<clock, leaseVars, deployment, queue, pc, job, override,
                 faults, writes>>

\* The end of the same decide; it never comes if the Investigator crashes.
Publish(i) ==
  /\ record[i].approved
  /\ queue[i].status = "none"
  /\ queue' = [queue EXCEPT ![i] = [NoMessage EXCEPT !.status = "pending", !.visible = clock]]
  /\ UNCHANGED <<clock, leaseVars, deployment, record, pc, job, override,
                 faults, writes>>

\* close_incident at any time.  Bound: closing a closed Incident again,
\* which only counts its version up, is left out.
Close(i) ==
  /\ record[i].lifecycle # "closed"
  /\ CanClose(record[i])
  /\ WriteRecord(i, CloseIncident(record[i]))
  /\ UNCHANGED <<clock, leaseVars, deployment, queue, pc, job, override,
                 faults, writes>>

\* run_evidence_query at any time.
QueryEvidence(i) ==
  /\ record[i].evidence < MaxEvidence
  /\ WriteRecord(i, AppendEvidence(record[i]))
  /\ UNCHANGED <<clock, leaseVars, deployment, queue, pc, job, override,
                 faults, writes>>

-----------------------------------------------------------------------------
(* The Executor.                                                           *)

\* subscriber.pull of one message and the clock() at the start of consume.
\* After its last attempt the message goes to the dead-letter topic.
Pull(e, i) ==
  /\ pc[e] = "idle"
  /\ queue[i].status = "pending"
  /\ queue[i].visible <= clock
  /\ queue[i].attempts < MaxAttempts
  /\ queue' = [queue EXCEPT ![i].visible = clock + AckDeadline, ![i].attempts = @ + 1]
  /\ job' = [job EXCEPT ![e] = [NoJob EXCEPT !.inc = i, !.now = clock,
                                             !.ackBy = clock + AckDeadline]]
  /\ Goto(e, "read")
  /\ UNCHANGED <<clock, leaseVars, deployment, record, override, faults, writes>>

\* The duplicate check: a terminal Intervention ends the delivery.
ReadRecord(e) ==
  /\ pc[e] = "read"
  /\ job' = [job EXCEPT ![e].claimed = (RecordOf(e).intervention = "running")]
  /\ Goto(e, IF RecordOf(e).intervention \in TerminalStates THEN "ack" ELSE "acquire")
  /\ UNCHANGED <<clock, leaseVars, deployment, record, queue, override,
                 faults, writes>>

\* acquire, first run of its callback: held by another, so the request is
\* refused before the try block.
AcquireRefused(e) ==
  /\ pc[e] = "acquire"
  /\ Occupied(WorkloadOf(e), job[e].now)
  /\ WriteRecord(job[e].inc, AppendAudit(RecordOf(e), "refused"))
  /\ Goto(e, "ack")
  /\ UNCHANGED <<clock, leaseVars, deployment, queue, job, override, faults,
                 writes>>

\* acquire, first run of its callback: free, so `acquired` is now True.
AcquireRead(e) ==
  /\ pc[e] = "acquire"
  /\ ~ Occupied(WorkloadOf(e), job[e].now)
  /\ job' = [job EXCEPT ![e].seen = lease[WorkloadOf(e)]]
  /\ Goto(e, "commit")
  /\ UNCHANGED <<clock, leaseVars, deployment, record, queue, override,
                 faults, writes>>

\* The commit.  If the document changed, the callback runs on the new one;
\* when that is held, acquire returns the lease it found there.
AcquireCommit(e) ==
  LET w == WorkloadOf(e) IN
  /\ pc[e] = "commit"
  /\ \/ /\ lease[w] = job[e].seen \/ ~ Occupied(w, job[e].now)
        /\ Grant(w, job[e].now)
        /\ job' = [job EXCEPT ![e] = [@ EXCEPT !.seen = NoLease, !.token = issued + 1]]
     \/ /\ lease[w] # job[e].seen /\ Occupied(w, job[e].now)
        /\ UNCHANGED leaseVars
        /\ job' = [job EXCEPT ![e] = [@ EXCEPT !.seen = NoLease, !.token = lease[w].token]]
  /\ Goto(e, "authorize")
  /\ UNCHANGED <<clock, deployment, record, queue, override, faults, writes>>

\* The record is read again and the Approval checked against the time the
\* delivery began.  The request is the one its publisher built, so its hash
\* and its patch match.
Authorize(e) ==
  LET r == RecordOf(e) IN
  /\ pc[e] = "authorize"
  /\ job' = [job EXCEPT ![e].version = r.version]
  /\ IF r.approved /\ r.approvalExpires > job[e].now /\ ApprovalMatches(r)
     THEN Goto(e, IF job[e].claimed THEN "validate" ELSE "claim")
     ELSE Goto(e, OnError(e))
  /\ UNCHANGED <<clock, leaseVars, deployment, record, queue, override,
                 faults, writes>>

\* record_intervention.  Without a reply `claimed` stays False.
Claim(e) ==
  /\ pc[e] = "claim"
  /\ \/ /\ CanRecordIntervention(RecordOf(e), job[e].version)
        /\ WriteRecord(job[e].inc, RecordIntervention(RecordOf(e)))
        /\ \/ /\ job' = [job EXCEPT ![e].claimed = TRUE]
              /\ Goto(e, "validate") /\ UNCHANGED faults
           \/ Goto(e, "refuse") /\ Fault /\ UNCHANGED job
     \/ /\ ~ CanRecordIntervention(RecordOf(e), job[e].version)
        /\ Goto(e, "refuse")
        /\ UNCHANGED <<record, job, faults>>
  /\ UNCHANGED <<clock, leaseVars, deployment, queue, override, writes>>

\* Mutant: only the revision is compared with the Approval.
SameRevision(e) ==
  Inspect(e, WorkloadOf(e)).rev = RecordOf(e).policyState.rev

\* inspect_deployment against the Approval, then evaluate again.  evaluate
\* inspects once more, but its patch equals the request's only if the
\* resourceVersion is still the approved one: the second read decides.
SameAsApproved(e) ==
  LET d == Inspect(e, WorkloadOf(e))
      a == RecordOf(e).policyState
  IN  <<d.rv, d.gen, d.rev>> = <<a.rv, a.gen, a.rev>>

\* Mutant: EVIDENCE_CURRENT is not checked again.
RevalidatedQuota(e) ==
  LET i == job[e].inc IN
  Action[i].type = "scale" =>
    WithinQuota(deployment[Target[i]], Action[i].replicas)

Revalidated(e) ==
  LET i == job[e].inc IN
  /\ record[i].policyEvidence = record[i].approvalEvidence
  /\ Action[i].type = "scale" =>
       WithinQuota(deployment[Target[i]], Action[i].replicas)

Validate(e) ==
  /\ pc[e] = "validate"
  /\ IF SameAsApproved(e) /\ Revalidated(e)
     THEN /\ job' = [job EXCEPT ![e].patchRv = deployment[WorkloadOf(e)].rv]
          /\ Goto(e, "renew")
     ELSE Goto(e, "halt") /\ UNCHANGED job
  /\ UNCHANGED <<clock, leaseVars, deployment, record, queue, override,
                 faults, writes>>

\* evaluate finds Enrollment not ready or the dry-run is not accepted.
PolicyRejects(e) ==
  /\ pc[e] \in {"validate", "restore_policy"}
  /\ Goto(e, "halt")
  /\ UNCHANGED <<clock, leaseVars, deployment, record, queue, job, override,
                 faults, writes>>

RenewLease(e) ==
  /\ pc[e] \in {"renew", "restore_renew"}
  /\ IF CanRenew(WorkloadOf(e), job[e].token)
     THEN /\ Renew(WorkloadOf(e))
          /\ Reply(e, IF pc[e] = "renew" THEN "apply" ELSE "restore_apply")
     ELSE /\ Goto(e, "halt")
          /\ UNCHANGED <<leaseVars, faults>>
  /\ UNCHANGED <<clock, deployment, record, queue, job, override, writes>>

\* Mutant: a conflict of the resourceVersion is taken for an applied patch.
ApplySwallowsConflict(e) ==
  LET i == job[e].inc
      w == Target[i]
  IN
  /\ pc[e] = "apply"
  /\ IF deployment[w].rv = job[e].patchRv
     THEN WriteDeployment(w, i, "action", Patched(i, deployment[w]))
     ELSE UNCHANGED <<deployment, writes>>
  /\ job' = [job EXCEPT ![e].deadline = clock + VerifyLimit]
  /\ Reply(e, "record_mutation")
  /\ UNCHANGED <<clock, leaseVars, record, queue, override>>

\* apply_deployment_patch: the body carries the resourceVersion.  When a
\* call fails, it may or may not have come to remembering the rollback.
Apply(e) ==
  LET i == job[e].inc
      w == Target[i]
  IN
  /\ pc[e] = "apply"
  /\ IF deployment[w].rv = job[e].patchRv
     THEN /\ WriteDeployment(w, i, "action", Patched(i, deployment[w]))
          /\ job' = [job EXCEPT ![e].deadline = clock + VerifyLimit]
          /\ Reply(e, "record_mutation")
          /\ \/ /\ Action[i].type = "rollback"
                /\ override' = [override EXCEPT ![e][w] = Action[i].revision]
             \/ /\ Action[i].type # "rollback" \/ faults' # faults
                /\ UNCHANGED override
     ELSE /\ Goto(e, "halt")
          /\ UNCHANGED <<deployment, writes, job, override, faults>>
  /\ UNCHANGED <<clock, leaseVars, record, queue>>

RecordMutation(e) ==
  /\ pc[e] = "record_mutation"
  /\ WriteRecord(job[e].inc, AppendAudit(RecordOf(e), "mutated"))
  /\ Reply(e, "verify")
  /\ UNCHANGED <<clock, leaseVars, deployment, queue, job, override, writes>>

\* verify_deployment_convergence reports the rollout complete.
VerifySucceeded(e) ==
  LET observed == Inspect(e, WorkloadOf(e)) IN
  /\ pc[e] = "verify"
  /\ Goto(e, IF ActionConverged(Action[job[e].inc], RecordOf(e).policyState, observed)
             THEN "converged" ELSE "halt")
  /\ UNCHANGED <<clock, leaseVars, deployment, record, queue, job, override,
                 faults, writes>>

\* ... past its progress deadline: _handle_action_failure.
VerifyFailed(e) ==
  /\ pc[e] = "verify"
  /\ IF Action[job[e].inc].type = "scale"
     THEN /\ job' = [job EXCEPT ![e].observed = Inspect(e, WorkloadOf(e))]
          /\ Goto(e, "restore_inspect")
     ELSE Goto(e, "failed") /\ UNCHANGED job
  /\ UNCHANGED <<clock, leaseVars, deployment, record, queue, override,
                 faults, writes>>

\* ... or cannot tell before its own deadline.
VerifyAmbiguous(e) ==
  /\ pc[e] = "verify"
  /\ clock >= job[e].deadline
  /\ Goto(e, "halt")
  /\ UNCHANGED <<clock, leaseVars, deployment, record, queue, job, override,
                 faults, writes>>

\* update_intervention to the state the current step stands for; a
\* ValueError of the store goes to the except clause.
TerminalStateAt == [converged |-> "succeeded",
                    failed    |-> "failed",
                    restored  |-> "rolled_back"]

RecordTerminal(e) ==
  /\ pc[e] \in DOMAIN TerminalStateAt
  /\ LET state == TerminalStateAt[pc[e]] IN
       IF CanUpdateIntervention(RecordOf(e), state)
       THEN /\ WriteRecord(job[e].inc, UpdateIntervention(RecordOf(e), state))
            /\ Reply(e, "release")
       ELSE Goto(e, "halt") /\ UNCHANGED <<record, faults>>
  /\ UNCHANGED <<clock, leaseVars, deployment, queue, job, override, writes>>

-----------------------------------------------------------------------------
(* _restore_failed_scale.                                                  *)

RestoreInspect(e) ==
  /\ pc[e] = "restore_inspect"
  /\ Goto(e, IF Inspect(e, WorkloadOf(e)) = job[e].observed
             THEN "restore_policy" ELSE "halt")
  /\ UNCHANGED <<clock, leaseVars, deployment, record, queue, job, override,
                 faults, writes>>

\* evaluate inspects again and builds the inverse patch on what it sees.
RestorePolicy(e) ==
  LET d == deployment[WorkloadOf(e)] IN
  /\ pc[e] = "restore_policy"
  /\ IF WithinQuota(d, RecordOf(e).policyState.replicas)
     THEN /\ job' = [job EXCEPT ![e].patchRv = d.rv]
          /\ Goto(e, "restore_renew")
     ELSE Goto(e, "halt") /\ UNCHANGED job
  /\ UNCHANGED <<clock, leaseVars, deployment, record, queue, override,
                 faults, writes>>

RestoreApply(e) ==
  LET i == job[e].inc
      w == Target[i]
  IN
  /\ pc[e] = "restore_apply"
  /\ IF deployment[w].rv = job[e].patchRv
     THEN /\ WriteDeployment(w, i, "restore",
                             Scaled(deployment[w], record[i].policyState.replicas))
          /\ Reply(e, "restore_record")
     ELSE Goto(e, "halt") /\ UNCHANGED <<deployment, writes, faults>>
  /\ UNCHANGED <<clock, leaseVars, record, queue, job, override>>

RestoreRecord(e) ==
  /\ pc[e] = "restore_record"
  /\ WriteRecord(job[e].inc, AppendAudit(RecordOf(e), "restoration_mutated"))
  /\ Reply(e, "restore_verify")
  /\ UNCHANGED <<clock, leaseVars, deployment, queue, job, override, writes>>

\* Mutant: a restoration that cannot be proved is tried again.
RestoreVerifyRetries(e) ==
  LET inverse == [type     |-> "scale",
                  replicas |-> RecordOf(e).policyState.replicas,
                  revision |-> 0]
  IN
  /\ pc[e] = "restore_verify"
  /\ Goto(e, IF ActionConverged(inverse, job[e].observed, Inspect(e, WorkloadOf(e)))
             THEN "restored" ELSE "restore_policy")
  /\ UNCHANGED <<clock, leaseVars, deployment, record, queue, job, override,
                 faults, writes>>

\* Anything but a provable restoration is ambiguous.
RestoreVerify(e) ==
  LET inverse == [type     |-> "scale",
                  replicas |-> RecordOf(e).policyState.replicas,
                  revision |-> 0]
  IN
  /\ pc[e] = "restore_verify"
  /\ \/ /\ ActionConverged(inverse, job[e].observed, Inspect(e, WorkloadOf(e)))
        /\ Goto(e, "restored")
     \/ Goto(e, "halt")
  /\ UNCHANGED <<clock, leaseVars, deployment, record, queue, job, override,
                 faults, writes>>

-----------------------------------------------------------------------------
(* The except clauses, the finally clause and the worker.                  *)

\* _record_safe_halt reads the record and leaves a terminal Intervention be.
Halt(e) ==
  /\ pc[e] = "halt"
  /\ Goto(e, IF RecordOf(e).intervention = "running" THEN "safe_halt" ELSE "release")
  /\ UNCHANGED <<clock, leaseVars, deployment, record, queue, job, override,
                 faults, writes>>

\* Its update_intervention.  When another Executor was faster, or the reply
\* is lost, the exception leaves consume and the worker does not acknowledge.
SafeHalt(e) ==
  LET unacknowledged == job' = [job EXCEPT ![e].ack = FALSE] IN
  /\ pc[e] = "safe_halt"
  /\ \/ /\ CanUpdateIntervention(RecordOf(e), "safe_halted")
        /\ WriteRecord(job[e].inc, UpdateIntervention(RecordOf(e), "safe_halted"))
        /\ UNCHANGED <<job, faults>> \/ (unacknowledged /\ Fault)
        /\ UNCHANGED queue
     \/ /\ ~ CanUpdateIntervention(RecordOf(e), "safe_halted")
        /\ unacknowledged
        /\ queue' = [queue EXCEPT ![job[e].inc].unheard = @ + 1]
        /\ UNCHANGED <<record, faults>>
  /\ Goto(e, "release")
  /\ UNCHANGED <<clock, leaseVars, deployment, override, writes>>

\* Mutant: the worker does not acknowledge a refusal.
RefuseUnacknowledged(e) ==
  /\ pc[e] = "refuse"
  /\ WriteRecord(job[e].inc, AppendAudit(RecordOf(e), "refused"))
  /\ job' = [job EXCEPT ![e].ack = FALSE]
  /\ Goto(e, "release")
  /\ UNCHANGED <<clock, leaseVars, deployment, queue, override, faults, writes>>

Refuse(e) ==
  /\ pc[e] = "refuse"
  /\ WriteRecord(job[e].inc, AppendAudit(RecordOf(e), "refused"))
  /\ Goto(e, "release")
  /\ UNCHANGED <<clock, leaseVars, deployment, queue, job, override, faults,
                 writes>>

\* The finally clause.  After it the worker acknowledges what consume
\* returned or raised as InterventionExecutionError, and nothing else.
ReleaseLease(e) ==
  /\ pc[e] = "release"
  /\ Release(WorkloadOf(e), job[e].token)
  /\ IF job[e].ack THEN Goto(e, "ack") /\ UNCHANGED job ELSE Finish(e)
  /\ UNCHANGED <<clock, deployment, record, queue, override, faults, writes>>

\* Pub/Sub may ignore an acknowledgement that comes after the deadline.
Acknowledge(e) ==
  /\ pc[e] = "ack"
  /\ \/ queue' = [queue EXCEPT ![job[e].inc].status = "acked"]
     \/ /\ job[e].ackBy <= clock
        /\ queue' = [queue EXCEPT ![job[e].inc].unheard = @ + 1]
  /\ Finish(e)
  /\ UNCHANGED <<clock, leaseVars, deployment, record, override, faults, writes>>

\* Mutant: an exception in an except clause is acknowledged.
CallFailsAcknowledged(e) ==
  /\ Fault
  /\ \/ pc[e] \in BeforeTry \cup {"release"} /\ Finish(e)
     \/ pc[e] \in InTry /\ Goto(e, OnError(e)) /\ UNCHANGED job
     \/ pc[e] \in InHandler /\ Goto(e, "release") /\ UNCHANGED job
  /\ UNCHANGED <<clock, leaseVars, deployment, record, queue, override, writes>>

\* A call fails before it takes effect.  Outside the try block and its
\* except clauses the exception reaches the worker, which does not
\* acknowledge; in an except clause the finally clause still runs.
CallFails(e) ==
  /\ Fault
  /\ \/ pc[e] \in BeforeTry \cup {"release"} /\ Finish(e)
     \/ pc[e] \in InTry /\ Goto(e, OnError(e)) /\ UNCHANGED job
     \/ /\ pc[e] \in InHandler
        /\ job' = [job EXCEPT ![e].ack = FALSE]
        /\ Goto(e, "release")
  /\ UNCHANGED <<clock, leaseVars, deployment, record, queue, override, writes>>

\* The process dies, also of a pull or an acknowledgement that raises, and the
\* Deployment of the Executor starts a new one.
Crash(e) ==
  /\ Fault
  /\ Finish(e)
  /\ override' = [override EXCEPT ![e] = [w \in Workloads |-> 0]]
  /\ UNCHANGED <<clock, leaseVars, deployment, record, queue, writes>>

-----------------------------------------------------------------------------
\* What Executor e does on its own when nothing fails.
Step(e) ==
  \/ \E i \in Incidents : Pull(e, i)
  \/ ReadRecord(e)
  \/ AcquireRefused(e)
  \/ AcquireRead(e)
  \/ AcquireCommit(e)
  \/ Authorize(e)
  \/ Claim(e)
  \/ Validate(e)
  \/ PolicyRejects(e)
  \/ RenewLease(e)
  \/ Apply(e)
  \/ RecordMutation(e)
  \/ VerifySucceeded(e)
  \/ VerifyFailed(e)
  \/ VerifyAmbiguous(e)
  \/ RecordTerminal(e)
  \/ RestoreInspect(e)
  \/ RestorePolicy(e)
  \/ RestoreApply(e)
  \/ RestoreRecord(e)
  \/ RestoreVerify(e)
  \/ Halt(e)
  \/ SafeHalt(e)
  \/ Refuse(e)
  \/ ReleaseLease(e)
  \/ Acknowledge(e)

Api(i) ==
  \/ PolicyPasses(i)
  \/ \E left \in 0..ReviewTTL : Approve(i, left)
  \/ Publish(i)
  \/ Close(i)
  \/ QueryEvidence(i)

Next ==
  \/ Tick
  \/ \E w \in Workloads : ExternalWrite(w)
  \/ \E i \in Incidents : Api(i)
  \/ \E e \in Executors : Step(e) \/ CallFails(e) \/ Crash(e)

Spec == Init /\ [][Next]_vars

\* Time passes, and the worker's `while True` loop goes on: every call
\* returns or raises, and a dead process is started again.
Fairness == WF_vars(Tick) /\ \A e \in Executors : WF_vars(Step(e))

FairSpec == Spec /\ Fairness

-----------------------------------------------------------------------------
(* Safety.                                                                 *)

\* However often a request is delivered, resumed after a crash, or handled
\* by two Executors at once, the spec of the Deployment is changed at most
\* once by the approved action (the duplicate check, the claim and the
\* resourceVersion precondition of consume together).
AppliedAtMostOnce ==
  \A a, b \in writes :
    a.kind = "action" /\ b.kind = "action" /\ a.inc = b.inc => a = b

\* A change by the approved action starts from exactly the Deployment state
\* the recorded Approval is bound to, and the evidence the Responder saw is
\* the evidence the policy saw.
WritesAreApproved ==
  \A a \in writes : a.kind = "action" =>
    /\ record[a.inc].approved
    /\ a.workload = Target[a.inc]
    /\ a.from = record[a.inc].policyState.rv
    /\ record[a.inc].approvalEvidence = record[a.inc].policyEvidence

\* Why both hold: an Approval freezes what it is bound to, resourceVersions
\* only grow, and from its claim on an Executor carries the approved one.
ApplyInvariant ==
  /\ \A i \in Incidents : record[i].approved => record[i].policy
  /\ \A x \in writes :
       /\ x.from < x.to /\ x.to <= deployment[x.workload].rv
       /\ x.kind = "action" => x.inc \in Incidents
  /\ \A e \in Executors :
       /\ pc[e] \in {"claim", "validate", "renew", "apply"} => RecordOf(e).approved
       /\ pc[e] \in {"renew", "apply"} =>
            /\ job[e].patchRv = RecordOf(e).policyState.rv
            /\ RecordOf(e).policyEvidence = RecordOf(e).approvalEvidence
  /\ WritesAreApproved
  /\ AppliedAtMostOnce

\* An Intervention is recorded as succeeded only if its own action changed
\* the Deployment, unless it asked for the replicas that were there.
SucceededWasApplied ==
  \A i \in Incidents : record[i].intervention = "succeeded" =>
    \/ \E a \in writes : a.kind = "action" /\ a.inc = i
    \/ /\ Action[i].type = "scale"
       /\ Action[i].replicas = record[i].policyState.replicas

\* Executors at a delivery of i that they may still acknowledge.
Holding(i) == {e \in Executors : pc[e] # "idle" /\ job[e].inc = i /\ job[e].ack}

\* A claimed Intervention is not forgotten: unless the record says that a
\* delivery was refused, its message is there, and it is delivered or will be.
\* Only so many faults as there are delivery attempts send it to the dead-letter
\* topic; an attempt that a slow or beaten Executor wastes does not.
RunningIsPending ==
  \A i \in Incidents : record[i].intervention = "running" =>
    \/ "refused" \in record[i].audit
    \/ /\ queue[i].status = "pending"
       /\ \/ queue[i].attempts < MaxAttempts
          \/ Holding(i) # {}
          \/ faults >= MaxAttempts

\* A Responder's closure is final, whatever an Executor still running
\* records afterwards.
ClosedIsFinal ==
  [][\A i \in Incidents :
       record[i].lifecycle = "closed" => record'[i].lifecycle = "closed"]_vars

\* The first terminal state of an Intervention stays, with the outcome of
\* its Incident, although two Executors may both try to record one.
TerminalIsFinal ==
  [][\A i \in Incidents :
       record[i].intervention \in TerminalStates =>
         /\ record'[i].intervention = record[i].intervention
         /\ record'[i].outcome = record[i].outcome]_vars

\* A lease that has not expired is changed or deleted only by a consume that
\* carries its token.
UnexpiredLeaseIsKept ==
  [][\A w \in Workloads :
       lease[w].token # NoToken /\ lease[w].expires > clock /\ lease'[w] # lease[w] =>
         \E e \in Executors : /\ job[e].token = lease[w].token
                              /\ WorkloadOf(e) = w
                              /\ pc'[e] # pc[e]]_vars

\* A scale that changed the Deployment is undone at most once, whichever
\* Executors hold its delivery and whatever other writers do meanwhile.
RestoredAtMostOnce ==
  \A a, b, c \in writes :
    /\ a.kind = "restore" /\ b.kind = "restore" /\ c.kind = "action"
    /\ a.inc = c.inc /\ b.inc = c.inc
    => a = b

(* Liveness.                                                               *)

\* Every published request is answered for good, unless faults and late
\* acknowledgements use up its deliveries.
RequestsSettle ==
  \A i \in Incidents :
    queue[i].status = "pending" ~>
      queue[i].status = "acked" \/ faults + queue[i].unheard >= MaxAttempts

-----------------------------------------------------------------------------
(* The contract the pipeline implements.                                   *)

Contract == INSTANCE InterventionContract WITH
  Terminal <- TerminalStates,
  approved <- {i \in Incidents : record[i].approved},
  state    <- [i \in Incidents |-> record[i].intervention],
  applied  <- [i \in Incidents |->
                 {x.to : x \in {y \in writes : y.kind = "action" /\ y.inc = i}}]

\* Every behaviour of the pipeline is one of the contract: no crash,
\* redelivery or second Executor applies an action again, applies one that
\* is not approved and claimed, or settles an Intervention twice.
KeepsContract == Contract!ContractSpec
=============================================================================
