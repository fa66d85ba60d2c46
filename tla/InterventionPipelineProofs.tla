--------------------- MODULE InterventionPipelineProofs ---------------------
(***************************************************************************)
(* Proofs about InterventionPipeline for every number of Executors,        *)
(* Incidents and workloads, every bound and every timing constant.         *)
(***************************************************************************)
EXTENDS InterventionPipeline, TLAPS

-----------------------------------------------------------------------------
(* What the operations on a record, a Deployment and a job return.         *)

\* Every store operation returns a record.
LEMMA RecordOperations ==
  ASSUME NEW S, NEW r \in Records(S)
  PROVE  /\ \A d \in S : RecordPolicy(r, d) \in Records(S)
         /\ \A x \in Nat : RecordApproval(r, x) \in Records(S)
         /\ RecordIntervention(r) \in Records(S)
         /\ \A s \in TerminalStates : UpdateIntervention(r, s) \in Records(S)
         /\ CloseIncident(r) \in Records(S)
         /\ AppendEvidence(r) \in Records(S)
         /\ \A t \in AuditTypes : AppendAudit(r, t) \in Records(S)
<1>1. r.evidence \in Nat /\ r.version + 1 \in Nat /\ r.evidence + 1 \in Nat
  BY DEF Records
<1>2. /\ {"awaiting_approval", "mitigating", "closed"} \subseteq Lifecycles
      /\ "running" \in InterventionStates
  BY DEF Lifecycles, InterventionStates
<1>3. \A s \in TerminalStates :
        /\ s \in InterventionStates
        /\ LifecycleAfter(r, s) \in Lifecycles
        /\ OutcomeAfter(s) \in InterventionOutcomes
  BY DEF Records, LifecycleAfter, OutcomeAfter, Lifecycles,
         InterventionStates, TerminalStates, InterventionOutcomes
<1>4. \A d \in S : RecordPolicy(r, d) \in Records(S)
  BY <1>1, <1>2, Zenon DEF Records, RecordPolicy
<1>5. \A x \in Nat : RecordApproval(r, x) \in Records(S)
  BY <1>1, Zenon DEF Records, RecordApproval
<1>6. RecordIntervention(r) \in Records(S)
  BY <1>1, <1>2, Zenon DEF Records, RecordIntervention
<1>7. \A s \in TerminalStates : UpdateIntervention(r, s) \in Records(S)
  BY <1>1, <1>3, Zenon DEF Records, UpdateIntervention
<1>8. CloseIncident(r) \in Records(S)
  BY <1>1, <1>2, Zenon DEF Records, CloseIncident
<1>9. AppendEvidence(r) \in Records(S)
  BY <1>1, Zenon DEF Records, AppendEvidence
<1>10. \A t \in AuditTypes : AppendAudit(r, t) \in Records(S)
  BY DEF Records, AppendAudit
<1> QED BY <1>4, <1>5, <1>6, <1>7, <1>8, <1>9, <1>10

\* A new template has the next resourceVersion.
LEMMA NewTemplateDeployment ==
  ASSUME NEW d \in DeploymentState
  PROVE  NewTemplate(d) \in DeploymentState /\ NewTemplate(d).rv = d.rv + 1
<1>1. d.rv + 1 \in Nat /\ d.gen + 1 \in Nat /\ d.rev + 1 \in Nat
  BY DEF DeploymentState
<1> QED BY <1>1, Zenon DEF DeploymentState, NewTemplate

\* A scaled Deployment is the same or has the next resourceVersion.
LEMMA ScaledDeployment ==
  ASSUME NEW d \in DeploymentState, NEW n \in Nat
  PROVE  /\ Scaled(d, n) \in DeploymentState
         /\ Scaled(d, n) = d \/ Scaled(d, n).rv = d.rv + 1
<1>1. d.rv + 1 \in Nat /\ d.gen + 1 \in Nat
  BY DEF DeploymentState
<1>2. CASE n = d.replicas
  BY <1>2 DEF Scaled
<1>3. CASE n # d.replicas
  BY <1>1, <1>3, Zenon DEF DeploymentState, Scaled
<1> QED BY <1>2, <1>3

\* So has the Deployment an action is applied to.
LEMMA PatchedDeployment ==
  ASSUME NEW d \in DeploymentState, NEW i \in Incidents
  PROVE  /\ Patched(i, d) \in DeploymentState
         /\ Patched(i, d) = d \/ Patched(i, d).rv = d.rv + 1
<1>1. Action[i].replicas \in Nat
  BY PipelineAssumption
<1> QED BY <1>1, NewTemplateDeployment, ScaledDeployment DEF Patched

\* The jobs that handle i's request.
JobsOf(i) == {j \in Job : j.inc = i}

\* consume changes its locals, never the request it handles.
LEMMA JobOperations ==
  ASSUME NEW j \in Job
  PROVE  /\ \A b \in BOOLEAN : /\ [j EXCEPT !.claimed = b] \in JobsOf(j.inc)
                               /\ [j EXCEPT !.ack = b] \in JobsOf(j.inc)
         /\ \A l \in Lease, n \in Nat :
              /\ [j EXCEPT !.seen = l] \in JobsOf(j.inc)
              /\ [j EXCEPT !.seen = l, !.token = n] \in JobsOf(j.inc)
         /\ \A n \in Nat :
              /\ [j EXCEPT !.version = n] \in JobsOf(j.inc)
              /\ [j EXCEPT !.patchRv = n] \in JobsOf(j.inc)
              /\ [j EXCEPT !.deadline = n] \in JobsOf(j.inc)
         /\ \A d \in DeploymentState : [j EXCEPT !.observed = d] \in JobsOf(j.inc)
  BY Zenon DEF Job, JobsOf

\* What a working Executor refers to is there.
LEMMA WorkingTypes ==
  ASSUME TypeOK, NEW e \in Executors, pc[e] # "idle"
  PROVE  /\ job[e] \in Job
         /\ job[e].inc \in Incidents
         /\ RecordOf(e) \in Records(DeploymentState)
         /\ WorkloadOf(e) \in Workloads
         /\ lease[WorkloadOf(e)] \in Lease
         /\ deployment[WorkloadOf(e)] \in DeploymentState
         /\ Inspect(e, WorkloadOf(e)) \in DeploymentState
<1>1. /\ job[e] \in Job
      /\ job[e].inc \in Incidents
      /\ RecordOf(e) \in Records(DeploymentState)
      /\ WorkloadOf(e) \in Workloads
  BY PipelineAssumption DEF TypeOK, RecordOf, WorkloadOf
<1>2. /\ lease[WorkloadOf(e)] \in Lease
      /\ deployment[WorkloadOf(e)] \in DeploymentState
      /\ override[e][WorkloadOf(e)] \in Nat
  BY <1>1 DEF TypeOK, LeaseTypeOK
<1>3. Inspect(e, WorkloadOf(e)) \in DeploymentState
  BY <1>2 DEF Inspect, DeploymentState
<1> QED BY <1>1, <1>2, <1>3
-----------------------------------------------------------------------------
(* What any step does to each part of the state.                           *)

\* A store operation that its guard allows makes s of record r.
RecordStep(r, s) ==
  \/ CanRecordPolicy(r) /\ \E d \in DeploymentState : s = RecordPolicy(r, d)
  \/ CanRecordApproval(r, r.version) /\ \E x \in Nat : s = RecordApproval(r, x)
  \/ CanRecordIntervention(r, r.version) /\ s = RecordIntervention(r)
  \/ \E t \in TerminalStates :
       CanUpdateIntervention(r, t) /\ s = UpdateIntervention(r, t)
  \/ CanClose(r) /\ s = CloseIncident(r)
  \/ s = AppendEvidence(r)
  \/ \E t \in AuditTypes : s = AppendAudit(r, t)

\* A step writes at most one record, by a store operation.
RecordsStep ==
  \/ UNCHANGED record
  \/ \E i \in Incidents : \E r \in Records(DeploymentState) :
       RecordStep(record[i], r) /\ WriteRecord(i, r)

(* Everything the API, the responder and the executor's runtime do to the
   records keeps them well typed. *)
LEMMA ApiRecords ==
  ASSUME TypeOK, NEW i \in Incidents, Api(i)
  PROVE  RecordsStep
<1> DEFINE r == record[i]
<1>1. r \in Records(DeploymentState) /\ deployment[Target[i]] \in DeploymentState
  BY PipelineAssumption DEF TypeOK
<1>2. CASE PolicyPasses(i)
  BY <1>1, <1>2, RecordOperations DEF PolicyPasses, RecordsStep, RecordStep
<1>3. ASSUME NEW left \in 0..ReviewTTL, Approve(i, left)
      PROVE  RecordsStep
  <2>1. clock + left \in Nat
    BY PipelineAssumption DEF TypeOK, LeaseTypeOK
  <2> QED BY <1>1, <1>3, <2>1, RecordOperations DEF Approve, RecordsStep, RecordStep
<1>4. CASE Publish(i)
  BY <1>4 DEF Publish, RecordsStep
<1>5. CASE Close(i)
  BY <1>1, <1>5, RecordOperations DEF Close, RecordsStep, RecordStep
<1>6. CASE QueryEvidence(i)
  BY <1>1, <1>6, RecordOperations DEF QueryEvidence, RecordsStep, RecordStep
<1> QED BY <1>2, <1>3, <1>4, <1>5, <1>6 DEF Api

(* Every step of an executor leaves well-typed records. *)
LEMMA ExecutorRecords ==
  ASSUME TypeOK, NEW e \in Executors, Step(e) \/ CallFails(e) \/ Crash(e)
  PROVE  RecordsStep
<1> DEFINE r == RecordOf(e)
<1> USE DEF RecordsStep, RecordStep
<1>1. CASE AcquireRefused(e) \/ RecordMutation(e) \/ RestoreRecord(e) \/ Refuse(e)
  <2>1. job[e].inc \in Incidents /\ r \in Records(DeploymentState)
    BY <1>1, WorkingTypes DEF AcquireRefused, RecordMutation, RestoreRecord, Refuse
  <2>2. \E t \in AuditTypes : WriteRecord(job[e].inc, AppendAudit(r, t))
    BY <1>1 DEF AcquireRefused, RecordMutation, RestoreRecord, Refuse, AuditTypes
  <2> QED BY <2>1, <2>2, RecordOperations DEF RecordOf
<1>2. CASE Claim(e)
  <2>1. job[e].inc \in Incidents /\ r \in Records(DeploymentState)
    BY <1>2, WorkingTypes DEF Claim
  <2>2. \/ UNCHANGED record
        \/ /\ CanRecordIntervention(r, job[e].version)
           /\ WriteRecord(job[e].inc, RecordIntervention(r))
    BY <1>2 DEF Claim
  <2> QED BY <2>1, <2>2, RecordOperations DEF RecordOf, CanRecordIntervention
<1>3. CASE RecordTerminal(e) \/ SafeHalt(e)
  <2>1. job[e].inc \in Incidents /\ r \in Records(DeploymentState)
    BY <1>3, WorkingTypes DEF RecordTerminal, SafeHalt, TerminalStateAt
  <2>2. \/ UNCHANGED record
        \/ \E t \in TerminalStates :
             /\ CanUpdateIntervention(r, t)
             /\ WriteRecord(job[e].inc, UpdateIntervention(r, t))
    BY <1>3 DEF RecordTerminal, SafeHalt, CanUpdateIntervention
  <2> QED BY <2>1, <2>2, RecordOperations DEF RecordOf
<1>4. CASE \/ \E i \in Incidents : Pull(e, i)
           \/ ReadRecord(e) \/ AcquireRead(e) \/ AcquireCommit(e) \/ Authorize(e)
           \/ Validate(e) \/ PolicyRejects(e) \/ RenewLease(e) \/ Apply(e)
           \/ VerifySucceeded(e) \/ VerifyFailed(e) \/ VerifyAmbiguous(e)
           \/ RestoreInspect(e) \/ RestorePolicy(e) \/ RestoreApply(e)
           \/ RestoreVerify(e) \/ Halt(e) \/ ReleaseLease(e) \/ Acknowledge(e)
           \/ CallFails(e) \/ Crash(e)
  BY <1>4 DEF Pull, ReadRecord, AcquireRead, AcquireCommit, Authorize, Validate,
              PolicyRejects, RenewLease, Apply, VerifySucceeded, VerifyFailed,
              VerifyAmbiguous, RestoreInspect, RestorePolicy, RestoreApply,
              RestoreVerify, Halt, ReleaseLease, Acknowledge, CallFails, Crash
<1> QED BY <1>1, <1>2, <1>3, <1>4 DEF Step

\* A step changes at most one Deployment, which gets the next
\* resourceVersion; a change of its spec is remembered.
DeploymentsStep ==
  \/ UNCHANGED <<deployment, writes>>
  \/ \E w \in Workloads, d \in DeploymentState,
        i \in Incidents \cup {Nobody}, kind \in {"action", "restore", "external"} :
       /\ d = deployment[w] \/ d.rv = deployment[w].rv + 1
       /\ WriteDeployment(w, i, kind, d)

(* A write that did not come from KubeCouncil leaves a well-typed Deployment. *)
LEMMA ExternalDeployments ==
  ASSUME TypeOK, NEW w \in Workloads, ExternalWrite(w)
  PROVE  DeploymentsStep
<1>1. deployment[w] \in DeploymentState /\ deployment[w].rv + 1 \in Nat
  BY DEF TypeOK, DeploymentState
<1>2. PICK d : /\ d \in {[deployment[w] EXCEPT !.rv = @ + 1], NewTemplate(deployment[w])}
                        \cup {Scaled(deployment[w], n) : n \in ExternalReplicas}
               /\ WriteDeployment(w, Nobody, "external", d)
  BY DEF ExternalWrite
<1>3. CASE d = [deployment[w] EXCEPT !.rv = @ + 1]
  <2>1. d \in DeploymentState /\ d.rv = deployment[w].rv + 1
    BY <1>1, <1>3, Zenon DEF DeploymentState
  <2> QED BY <1>2, <2>1 DEF DeploymentsStep
<1>4. CASE d = NewTemplate(deployment[w])
  BY <1>1, <1>2, <1>4, NewTemplateDeployment DEF DeploymentsStep
<1>5. ASSUME NEW n \in ExternalReplicas, d = Scaled(deployment[w], n)
      PROVE  DeploymentsStep
  <2>1. n \in Nat
    BY PipelineAssumption
  <2>2. d \in DeploymentState /\ (d = deployment[w] \/ d.rv = deployment[w].rv + 1)
    BY <1>1, <1>5, <2>1, ScaledDeployment
  <2> QED BY <1>2, <2>2 DEF DeploymentsStep
<1> QED BY <1>2, <1>3, <1>4, <1>5

(* The two patches of an executor leave a well-typed Deployment. *)
LEMMA ExecutorDeployments ==
  ASSUME TypeOK, NEW e \in Executors, Step(e) \/ CallFails(e) \/ Crash(e)
  PROVE  DeploymentsStep
<1> DEFINE i == job[e].inc
           d == deployment[Target[i]]
<1>1. CASE Apply(e)
  <2>1. i \in Incidents /\ Target[i] \in Workloads /\ d \in DeploymentState
    BY <1>1, WorkingTypes DEF Apply, WorkloadOf
  <2>2. /\ Patched(i, d) \in DeploymentState
        /\ Patched(i, d) = d \/ Patched(i, d).rv = d.rv + 1
    BY <2>1, PatchedDeployment
  <2> QED BY <1>1, <2>1, <2>2 DEF Apply, DeploymentsStep
<1>2. CASE RestoreApply(e)
  <2> DEFINE n == record[i].policyState.replicas
  <2>1. i \in Incidents /\ Target[i] \in Workloads /\ d \in DeploymentState
    BY <1>2, WorkingTypes DEF RestoreApply, WorkloadOf
  <2>2. n \in Nat
    BY <1>2, WorkingTypes DEF RestoreApply, RecordOf, Records, DeploymentState
  <2>3. /\ Scaled(d, n) \in DeploymentState
        /\ Scaled(d, n) = d \/ Scaled(d, n).rv = d.rv + 1
    BY <2>1, <2>2, ScaledDeployment
  <2> QED BY <1>2, <2>1, <2>3 DEF RestoreApply, DeploymentsStep
<1>3. CASE ~ Apply(e) /\ ~ RestoreApply(e)
  BY <1>3
  DEF DeploymentsStep, Step, Pull, ReadRecord, AcquireRefused, AcquireRead,
      AcquireCommit, Authorize, Claim, Validate, PolicyRejects, RenewLease,
      RecordMutation, VerifySucceeded, VerifyFailed, VerifyAmbiguous,
      RecordTerminal, RestoreInspect, RestorePolicy, RestoreRecord,
      RestoreVerify, Halt, SafeHalt, Refuse, ReleaseLease, Acknowledge,
      CallFails, Crash
<1> QED BY <1>1, <1>2, <1>3

\* An Executor goes to another call; it keeps the request it handles until
\* it is done with it.
ExecutorMoves(e) ==
  /\ \E p \in Steps : Goto(e, p)
  /\ \/ UNCHANGED job
     \/ Finish(e)
     \/ \E j \in JobsOf(job[e].inc) : job' = [job EXCEPT ![e] = j]

(* Every step of an executor leaves it with a well-typed job. *)
LEMMA ExecutorJobs ==
  ASSUME TypeOK, NEW e \in Executors, pc[e] # "idle",
         Step(e) \/ CallFails(e) \/ Crash(e)
  PROVE  ExecutorMoves(e)
<1> DEFINE moves == \E p \in Steps : Goto(e, p)
           keeps == \/ UNCHANGED job
                    \/ Finish(e)
                    \/ \E j \in JobsOf(job[e].inc) : job' = [job EXCEPT ![e] = j]
<1> DEFINE w == WorkloadOf(e)
<1>1. /\ job[e] \in Job
      /\ clock + VerifyLimit \in Nat
      /\ RecordOf(e).version \in Nat
      /\ deployment[w].rv \in Nat
      /\ Inspect(e, w) \in DeploymentState
      /\ lease[w] \in Lease
      /\ lease[w].token \in Nat
      /\ NoLease \in Lease
      /\ issued + 1 \in Nat
  BY WorkingTypes, PipelineAssumption
  DEF TypeOK, LeaseTypeOK, Records, DeploymentState, Lease, NoLease, NoToken
<1>2. CASE \/ ReadRecord(e) \/ AcquireRead(e) \/ AcquireCommit(e) \/ Authorize(e)
           \/ Claim(e) \/ Validate(e) \/ Apply(e) \/ VerifyFailed(e)
           \/ RestorePolicy(e) \/ SafeHalt(e)
  <2>1. keeps
    <3>1. CASE ReadRecord(e)
      BY <1>1, <3>1, JobOperations DEF ReadRecord
    <3>2. CASE AcquireRead(e)
      BY <1>1, <3>2, JobOperations DEF AcquireRead
    <3>3. CASE AcquireCommit(e)
      BY <1>1, <3>3, JobOperations DEF AcquireCommit
    <3>4. CASE Authorize(e)
      BY <1>1, <3>4, JobOperations DEF Authorize
    <3>5. CASE Claim(e)
      BY <1>1, <3>5, JobOperations DEF Claim
    <3>6. CASE Validate(e)
      BY <1>1, <3>6, JobOperations DEF Validate
    <3>7. CASE Apply(e)
      BY <1>1, <3>7, JobOperations DEF Apply
    <3>8. CASE VerifyFailed(e)
      BY <1>1, <3>8, JobOperations DEF VerifyFailed
    <3>9. CASE RestorePolicy(e)
      BY <1>1, <3>9, JobOperations DEF RestorePolicy
    <3>10. CASE SafeHalt(e)
      BY <1>1, <3>10, JobOperations DEF SafeHalt
    <3> QED BY <1>2, <3>1, <3>2, <3>3, <3>4, <3>5, <3>6, <3>7, <3>8, <3>9, <3>10
  <2>2. moves
    BY <1>2 DEF ReadRecord, AcquireRead, AcquireCommit, Authorize, Claim, Validate,
                Apply, VerifyFailed, RestorePolicy, SafeHalt, Reply, OnError,
                Goto, Steps, BeforeTry, InTry, InHandler
  <2> QED BY <2>1, <2>2 DEF ExecutorMoves
<1>3. CASE ReleaseLease(e) \/ Acknowledge(e) \/ CallFails(e) \/ Crash(e)
  <2>1. keeps
    BY <1>1, <1>3, JobOperations DEF ReleaseLease, Acknowledge, CallFails, Crash, Finish
  <2>2. moves
    BY <1>3 DEF ReleaseLease, Acknowledge, CallFails, Crash, Finish, OnError,
                Goto, Steps, BeforeTry, InTry, InHandler
  <2> QED BY <2>1, <2>2 DEF ExecutorMoves
<1>4. CASE \/ AcquireRefused(e) \/ PolicyRejects(e) \/ RenewLease(e)
           \/ RecordMutation(e) \/ VerifySucceeded(e) \/ VerifyAmbiguous(e)
           \/ RecordTerminal(e) \/ RestoreInspect(e) \/ RestoreApply(e)
           \/ RestoreRecord(e) \/ RestoreVerify(e) \/ Halt(e) \/ Refuse(e)
  <2>1. UNCHANGED job
    BY <1>4 DEF AcquireRefused, PolicyRejects, RenewLease, RecordMutation,
                VerifySucceeded, VerifyAmbiguous, RecordTerminal, RestoreInspect,
                RestoreApply, RestoreRecord, RestoreVerify, Halt, Refuse
  <2>2. moves
    BY <1>4 DEF AcquireRefused, PolicyRejects, RenewLease, RecordMutation,
                VerifySucceeded, VerifyAmbiguous, RecordTerminal, RestoreInspect,
                RestoreApply, RestoreRecord, RestoreVerify, Halt, Refuse,
                Reply, OnError, Goto, Steps, BeforeTry, InTry, InHandler
  <2> QED BY <2>1, <2>2 DEF ExecutorMoves
<1>5. \A i \in Incidents : ~ Pull(e, i)
  BY DEF Pull
<1> QED BY <1>2, <1>3, <1>4, <1>5 DEF Step

-----------------------------------------------------------------------------
(* Type correctness.                                                       *)

(* The initial state is well typed. *)
LEMMA InitTypes == Init => TypeOK
<1> SUFFICES ASSUME Init PROVE TypeOK
  OBVIOUS
<1> USE DEF Init
<1>1. InitialDeployment \in DeploymentState
  BY PipelineAssumption DEF InitialDeployment, DeploymentState
<1>2. InitialRecord(InitialDeployment) \in Records(DeploymentState)
  BY <1>1, Zenon DEF InitialRecord, Records, Lifecycles, InterventionOutcomes,
                     InterventionStates
<1>3. LeaseTypeOK
  BY DEF LeaseInit, LeaseTypeOK, NoLease, Lease, NoToken
<1>4. NoJob \in Job
  BY <1>1 DEF NoJob, Job, NoLease, Lease, NoToken
<1>5. NoMessage \in Message
  BY DEF NoMessage, Message
<1>6. "idle" \in Steps
  BY DEF Steps
<1> QED BY <1>1, <1>2, <1>3, <1>4, <1>5, <1>6 DEF TypeOK

(* Every step of an executor keeps the whole state well typed. *)
LEMMA ExecutorTypes ==
  ASSUME TypeOK, NEW e \in Executors, Step(e) \/ CallFails(e) \/ Crash(e)
  PROVE  /\ pc' \in [Executors -> Steps]
         /\ job' \in [Executors -> Job]
         /\ \A f \in Executors : pc'[f] # "idle" => job'[f].inc \in Incidents
<1>1. NoJob \in Job
  BY PipelineAssumption DEF NoJob, Job, NoLease, Lease, NoToken,
                            InitialDeployment, DeploymentState
<1>2. ASSUME NEW i \in Incidents, Pull(e, i)
      PROVE  /\ [NoJob EXCEPT !.inc = i, !.now = clock,
                              !.ackBy = clock + AckDeadline] \in Job
             /\ [NoJob EXCEPT !.inc = i, !.now = clock,
                              !.ackBy = clock + AckDeadline].inc = i
             /\ "read" \in Steps
  <2>1. clock \in Nat /\ clock + AckDeadline \in Nat
    BY PipelineAssumption DEF TypeOK, LeaseTypeOK
  <2>2. "read" \in Steps
    BY DEF Steps, BeforeTry
  <2> QED BY <1>1, <2>1, <2>2, Zenon DEF Job
<1>3. ASSUME NEW i \in Incidents, Pull(e, i)
      PROVE  /\ pc' \in [Executors -> Steps]
             /\ job' \in [Executors -> Job]
             /\ \A f \in Executors : pc'[f] # "idle" => job'[f].inc \in Incidents
  BY <1>2, <1>3 DEF Pull, Goto, TypeOK
<1>4. CASE pc[e] # "idle"
  <2>1. ExecutorMoves(e) /\ job[e].inc \in Incidents
    BY <1>4, ExecutorJobs, WorkingTypes
  <2>2. CASE UNCHANGED job
    BY <2>1, <2>2, <1>4 DEF ExecutorMoves, Goto, TypeOK
  <2>3. CASE Finish(e)
    BY <1>1, <2>3, Zenon DEF Finish, Goto, TypeOK, Steps
  <2>4. CASE \E j \in JobsOf(job[e].inc) : job' = [job EXCEPT ![e] = j]
    BY <2>1, <2>4, Zenon DEF ExecutorMoves, Goto, TypeOK, JobsOf
  <2> QED BY <2>1, <2>2, <2>3, <2>4 DEF ExecutorMoves
<1>5. CASE Crash(e)
  BY <1>1, <1>5, Zenon DEF Crash, Finish, Goto, TypeOK, Steps
<1>6. CASE pc[e] = "idle" /\ ~ Crash(e)
  <2>1. ~ CallFails(e)
    BY <1>6 DEF CallFails, BeforeTry, InTry, InHandler
  <2>2. ~ ReadRecord(e) /\ ~ AcquireRefused(e) /\ ~ AcquireRead(e)
        /\ ~ AcquireCommit(e) /\ ~ Authorize(e) /\ ~ Claim(e) /\ ~ Validate(e)
        /\ ~ PolicyRejects(e) /\ ~ RenewLease(e) /\ ~ Apply(e)
        /\ ~ RecordMutation(e) /\ ~ VerifySucceeded(e) /\ ~ VerifyFailed(e)
        /\ ~ VerifyAmbiguous(e) /\ ~ RecordTerminal(e)
    BY <1>6 DEF ReadRecord, AcquireRefused, AcquireRead, AcquireCommit, Authorize,
         Claim, Validate, PolicyRejects, RenewLease, Apply, RecordMutation,
         VerifySucceeded, VerifyFailed, VerifyAmbiguous, RecordTerminal,
         TerminalStateAt
  <2>3. ~ RestoreInspect(e) /\ ~ RestorePolicy(e) /\ ~ RestoreApply(e)
        /\ ~ RestoreRecord(e) /\ ~ RestoreVerify(e) /\ ~ Halt(e) /\ ~ SafeHalt(e)
        /\ ~ Refuse(e) /\ ~ ReleaseLease(e) /\ ~ Acknowledge(e)
    BY <1>6 DEF RestoreInspect, RestorePolicy, RestoreApply, RestoreRecord,
         RestoreVerify, Halt, SafeHalt, Refuse, ReleaseLease, Acknowledge
  <2> QED BY <1>3, <1>6, <2>1, <2>2, <2>3 DEF Step
<1> QED BY <1>4, <1>5, <1>6

\* The lease, the clock, the queue and the memory of rollbacks.
LEMMA ExecutorLease ==
  ASSUME TypeOK, NEW e \in Executors, Step(e) \/ CallFails(e) \/ Crash(e)
  PROVE  LeaseTypeOK'
<1> DEFINE w == WorkloadOf(e)
<1>1. clock \in Nat /\ lease \in [Workloads -> Lease] /\ issued \in Nat
  BY DEF TypeOK, LeaseTypeOK
<1>2. CASE AcquireCommit(e)
  <2>1. [token |-> issued + 1, expires |-> job[e].now + TTL] \in Lease
        /\ issued + 1 \in Nat
    BY <1>1, <1>2, WorkingTypes, TTLAssumption DEF AcquireCommit, Job, Lease
  <2> QED BY <1>1, <1>2, <2>1 DEF AcquireCommit, Grant, leaseVars, LeaseTypeOK
<1>3. CASE RenewLease(e)
  <2>1. lease[w] \in Lease /\ clock + TTL \in Nat
    BY <1>1, <1>3, WorkingTypes, TTLAssumption DEF RenewLease
  <2>2. [lease[w] EXCEPT !.expires = clock + TTL] \in Lease
    BY <2>1, Zenon DEF Lease
  <2> QED BY <1>1, <1>3, <2>2 DEF RenewLease, Renew, leaseVars, LeaseTypeOK
<1>4. CASE ReleaseLease(e)
  <2>1. NoLease \in Lease
    BY DEF NoLease, NoToken, Lease
  <2> QED BY <1>1, <1>4, <2>1 DEF ReleaseLease, Release, LeaseTypeOK
<1>5. CASE ~ AcquireCommit(e) /\ ~ RenewLease(e) /\ ~ ReleaseLease(e)
  <2>1. UNCHANGED <<clock, leaseVars>>
    BY <1>5 DEF Step, Pull, ReadRecord, AcquireRefused, AcquireRead, Authorize,
         Claim, Validate, PolicyRejects, Apply, RecordMutation, VerifySucceeded,
         VerifyFailed, VerifyAmbiguous, RecordTerminal, RestoreInspect,
         RestorePolicy, RestoreApply, RestoreRecord, RestoreVerify, Halt,
         SafeHalt, Refuse, Acknowledge, CallFails, Crash
  <2> QED BY <1>1, <2>1 DEF leaseVars, LeaseTypeOK
<1> QED BY <1>2, <1>3, <1>4, <1>5

(* Every step of an executor leaves well-typed messages. *)
LEMMA ExecutorQueue ==
  ASSUME TypeOK, NEW e \in Executors, Step(e) \/ CallFails(e) \/ Crash(e)
  PROVE  queue' \in [Incidents -> Message]
<1>1. queue \in [Incidents -> Message]
  BY DEF TypeOK
<1>2. ASSUME NEW i \in Incidents, Pull(e, i)
      PROVE  queue' \in [Incidents -> Message]
  <2>1. clock + AckDeadline \in Nat
    BY PipelineAssumption DEF TypeOK, LeaseTypeOK
  <2>2. queue[i].attempts + 1 \in Nat
    BY <1>1 DEF Message
  <2>3. [queue[i] EXCEPT !.visible = clock + AckDeadline,
                         !.attempts = queue[i].attempts + 1] \in Message
    BY <1>1, <2>1, <2>2, Zenon DEF Message
  <2> QED BY <1>1, <1>2, <2>3 DEF Pull
<1>3. CASE Acknowledge(e) \/ SafeHalt(e)
  <2>1. job[e].inc \in Incidents
    BY <1>3, WorkingTypes DEF Acknowledge, SafeHalt
  <2>2. [queue[job[e].inc] EXCEPT !.status = "acked"] \in Message
    BY <1>1, <2>1, Zenon DEF Message
  <2>3. queue[job[e].inc].unheard + 1 \in Nat
    BY <1>1, <2>1 DEF Message
  <2>4. [queue[job[e].inc] EXCEPT !.unheard = queue[job[e].inc].unheard + 1] \in Message
    BY <1>1, <2>1, <2>3, Zenon DEF Message
  <2> QED BY <1>1, <1>3, <2>2, <2>4 DEF Acknowledge, SafeHalt
<1>4. CASE (\A i \in Incidents : ~ Pull(e, i)) /\ ~ Acknowledge(e) /\ ~ SafeHalt(e)
  BY <1>1, <1>4
  DEF Step, ReadRecord, AcquireRefused, AcquireRead, AcquireCommit, Authorize,
      Claim, Validate, PolicyRejects, RenewLease, Apply, RecordMutation,
      VerifySucceeded, VerifyFailed, VerifyAmbiguous, RecordTerminal,
      RestoreInspect, RestorePolicy, RestoreApply, RestoreRecord, RestoreVerify,
      Halt, Refuse, ReleaseLease, CallFails, Crash
<1> QED BY <1>2, <1>3, <1>4

(* What an executor remembers of a workload stays well typed. *)
LEMMA ExecutorMemory ==
  ASSUME TypeOK, NEW e \in Executors, Step(e) \/ CallFails(e) \/ Crash(e)
  PROVE  /\ override' \in [Executors -> [Workloads -> Nat]]
         /\ faults' \in Nat
<1>1. override \in [Executors -> [Workloads -> Nat]] /\ faults \in Nat
  BY DEF TypeOK
<1>2. faults' \in Nat
  <2>1. UNCHANGED faults \/ faults' = faults + 1
    BY DEF Step, Pull, ReadRecord, AcquireRefused, AcquireRead, AcquireCommit,
       Authorize, Claim, Validate, PolicyRejects, RenewLease, Apply,
       RecordMutation, VerifySucceeded, VerifyFailed, VerifyAmbiguous,
       RecordTerminal, RestoreInspect, RestorePolicy, RestoreApply,
       RestoreRecord, RestoreVerify, Halt, SafeHalt, Refuse, ReleaseLease,
       Acknowledge, CallFails, Crash, Reply, Fault
  <2> QED BY <1>1, <2>1
<1>3. CASE Apply(e)
  <2>1. job[e].inc \in Incidents
    BY <1>3, WorkingTypes DEF Apply
  <2>2. Action[job[e].inc].revision \in Nat
    BY <2>1, PipelineAssumption
  <2> QED BY <1>1, <1>2, <1>3, <2>2 DEF Apply
<1>4. CASE Crash(e)
  <2>1. [w \in Workloads |-> 0] \in [Workloads -> Nat]
    OBVIOUS
  <2> QED BY <1>1, <1>2, <1>4, <2>1, Zenon DEF Crash
<1>5. CASE ~ Apply(e) /\ ~ Crash(e)
  BY <1>1, <1>2, <1>5
  DEF Step, Pull, ReadRecord, AcquireRefused, AcquireRead, AcquireCommit,
      Authorize, Claim, Validate, PolicyRejects, RenewLease, RecordMutation,
      VerifySucceeded, VerifyFailed, VerifyAmbiguous, RecordTerminal,
      RestoreInspect, RestorePolicy, RestoreApply, RestoreRecord, RestoreVerify,
      Halt, SafeHalt, Refuse, ReleaseLease, Acknowledge, CallFails
<1> QED BY <1>3, <1>4, <1>5

(* Every step leaves well-typed records. *)
LEMMA RecordTypes ==
  ASSUME TypeOK, RecordsStep
  PROVE  record' \in [Incidents -> Records(DeploymentState)]
BY DEF TypeOK, RecordsStep, WriteRecord

(* Every step leaves well-typed Deployments. *)
LEMMA DeploymentTypes ==
  ASSUME TypeOK, DeploymentsStep
  PROVE  /\ deployment' \in [Workloads -> DeploymentState]
         /\ writes' \subseteq Write
<1>1. CASE UNCHANGED <<deployment, writes>>
  BY <1>1 DEF TypeOK
<1>2. ASSUME NEW w \in Workloads, NEW d \in DeploymentState,
             NEW i \in Incidents \cup {Nobody},
             NEW kind \in {"action", "restore", "external"},
             WriteDeployment(w, i, kind, d)
      PROVE  /\ deployment' \in [Workloads -> DeploymentState]
             /\ writes' \subseteq Write
  <2>1. deployment[w].rv \in Nat /\ d.rv \in Nat
    BY DEF TypeOK, DeploymentState
  <2>2. [workload |-> w, inc |-> i, kind |-> kind,
         from |-> deployment[w].rv, to |-> d.rv] \in Write
    BY <2>1 DEF Write
  <2> QED BY <1>2, <2>2 DEF WriteDeployment, TypeOK
<1> QED BY <1>1, <1>2 DEF DeploymentsStep

(* The type invariant is inductive. *)
LEMMA NextTypes == TypeOK /\ [Next]_vars => TypeOK'
<1> SUFFICES ASSUME TypeOK, [Next]_vars PROVE TypeOK'
  OBVIOUS
<1>1. CASE Tick
  BY <1>1 DEF Tick, TypeOK, LeaseTypeOK, leaseVars
<1>2. ASSUME NEW w \in Workloads, ExternalWrite(w) PROVE TypeOK'
  <2>1. deployment' \in [Workloads -> DeploymentState] /\ writes' \subseteq Write
    BY <1>2, ExternalDeployments, DeploymentTypes
  <2> QED BY <1>2, <2>1 DEF ExternalWrite, TypeOK, LeaseTypeOK, leaseVars
<1>3. ASSUME NEW i \in Incidents, Api(i) PROVE TypeOK'
  <2>1. record' \in [Incidents -> Records(DeploymentState)]
    BY <1>3, ApiRecords, RecordTypes
  <2>2. queue' \in [Incidents -> Message]
    <3>1. [NoMessage EXCEPT !.status = "pending", !.visible = clock] \in Message
      BY DEF TypeOK, LeaseTypeOK, Message, NoMessage
    <3> QED BY <1>3, <3>1 DEF Api, PolicyPasses, Approve, Publish, Close,
                              QueryEvidence, TypeOK
  <2>3. UNCHANGED <<clock, leaseVars, deployment, pc, job, override, faults, writes>>
    BY <1>3 DEF Api, PolicyPasses, Approve, Publish, Close, QueryEvidence
  <2> QED BY <2>1, <2>2, <2>3 DEF TypeOK, LeaseTypeOK, leaseVars
<1>4. ASSUME NEW e \in Executors, Step(e) \/ CallFails(e) \/ Crash(e)
      PROVE  TypeOK'
  <2>1. record' \in [Incidents -> Records(DeploymentState)]
    BY <1>4, ExecutorRecords, RecordTypes
  <2>2. deployment' \in [Workloads -> DeploymentState] /\ writes' \subseteq Write
    BY <1>4, ExecutorDeployments, DeploymentTypes
  <2> QED BY <1>4, <2>1, <2>2, ExecutorTypes, ExecutorLease, ExecutorQueue,
             ExecutorMemory DEF TypeOK
<1>5. CASE UNCHANGED vars
  BY <1>5 DEF vars, TypeOK, LeaseTypeOK
<1> QED BY <1>1, <1>2, <1>3, <1>4, <1>5 DEF Next

\* Every variable keeps its type, in particular no store operation leaves
\* the tables of lifecycles, outcomes and Intervention states.
THEOREM TypeCorrect == Spec => []TypeOK
<1>1. Init => TypeOK
  BY InitTypes
<1>2. TypeOK /\ [Next]_vars => TypeOK'
  BY NextTypes
<1> QED BY <1>1, <1>2, PTL DEF Spec
-----------------------------------------------------------------------------
(* What is final in a record stays.                                        *)

(* A step changes the records only by the operations IncidentRecord allows. *)
LEMMA RecordsChange ==
  ASSUME TypeOK, [Next]_vars
  PROVE  RecordsStep
<1>1. CASE \/ Tick \/ UNCHANGED vars
           \/ \E w \in Workloads : ExternalWrite(w)
  BY <1>1 DEF Tick, ExternalWrite, vars, RecordsStep
<1> QED BY <1>1, ApiRecords, ExecutorRecords DEF Next

\* A store operation keeps a closed lifecycle and a terminal Intervention
\* with its outcome.
LEMMA FinalRecord ==
  ASSUME NEW r \in Records(DeploymentState), NEW s, RecordStep(r, s)
  PROVE  /\ r.lifecycle = "closed" => s.lifecycle = "closed"
         /\ r.intervention \in TerminalStates =>
              s.intervention = r.intervention /\ s.outcome = r.outcome
<1> USE DEF Records
<1>1. CASE CanRecordPolicy(r) /\ \E d \in DeploymentState : s = RecordPolicy(r, d)
  BY <1>1 DEF CanRecordPolicy, RecordPolicy, CanTransition, LifecycleTransitions
<1>2. CASE \E x \in Nat : s = RecordApproval(r, x)
  BY <1>2 DEF RecordApproval
<1>3. CASE CanRecordIntervention(r, r.version) /\ s = RecordIntervention(r)
  BY <1>3 DEF CanRecordIntervention, RecordIntervention, CanTransition,
              LifecycleTransitions, TerminalStates
<1>4. ASSUME NEW t \in TerminalStates, CanUpdateIntervention(r, t),
             s = UpdateIntervention(r, t)
      PROVE  /\ r.lifecycle = "closed" => s.lifecycle = "closed"
             /\ r.intervention \notin TerminalStates
  <2>1. r.intervention \notin TerminalStates
    BY <1>4 DEF CanUpdateIntervention, TerminalStates
  <2>2. s.lifecycle = LifecycleAfter(r, t)
    BY <1>4 DEF UpdateIntervention
  <2>3. r.lifecycle = "closed" => LifecycleAfter(r, t) = "closed"
    BY <1>4 DEF CanUpdateIntervention, CanTransition, LifecycleTransitions
  <2> QED BY <2>1, <2>2, <2>3
<1>5. CASE s = CloseIncident(r)
  BY <1>5 DEF CloseIncident
<1>6. CASE s = AppendEvidence(r) \/ \E t \in AuditTypes : s = AppendAudit(r, t)
  BY <1>6 DEF AppendEvidence, AppendAudit
<1> QED BY <1>1, <1>2, <1>3, <1>4, <1>5, <1>6 DEF RecordStep

\* A Responder's closure is final, whatever an Executor records afterwards.
THEOREM Closure == Spec => ClosedIsFinal
<1>1. TypeOK /\ [Next]_vars =>
        [\A i \in Incidents : record[i].lifecycle = "closed" =>
           record'[i].lifecycle = "closed"]_vars
  BY RecordsChange, FinalRecord DEF RecordsStep, WriteRecord, TypeOK
<1> QED BY <1>1, TypeCorrect, PTL DEF Spec, ClosedIsFinal

\* The first terminal state of an Intervention stays, with its outcome.
THEOREM Settlement == Spec => TerminalIsFinal
<1>1. TypeOK /\ [Next]_vars =>
        [\A i \in Incidents : record[i].intervention \in TerminalStates =>
           /\ record'[i].intervention = record[i].intervention
           /\ record'[i].outcome = record[i].outcome]_vars
  BY RecordsChange, FinalRecord DEF RecordsStep, WriteRecord, TypeOK
<1> QED BY <1>1, TypeCorrect, PTL DEF Spec, TerminalIsFinal
-----------------------------------------------------------------------------
(* The approved action is applied at most once, from the approved state.   *)

\* What an Approval is bound to.
Bound(r) == <<r.policyState, r.policyEvidence, r.approvalEvidence>>

\* No store operation changes what a recorded Approval is bound to.
LEMMA ApprovalFreezes ==
  ASSUME NEW r \in Records(DeploymentState), NEW s, RecordStep(r, s),
         r.approved => r.policy
  PROVE  /\ s.approved => s.policy
         /\ r.approved => s.approved /\ Bound(s) = Bound(r)
<1> USE DEF Records, Bound
<1>1. CASE CanRecordPolicy(r) /\ \E d \in DeploymentState : s = RecordPolicy(r, d)
  BY <1>1 DEF CanRecordPolicy, RecordPolicy
<1>2. CASE CanRecordApproval(r, r.version) /\ \E x \in Nat : s = RecordApproval(r, x)
  BY <1>2 DEF CanRecordApproval, RecordApproval
<1>3. CASE s = RecordIntervention(r)
  BY <1>3 DEF RecordIntervention
<1>4. CASE \E t \in TerminalStates : s = UpdateIntervention(r, t)
  BY <1>4 DEF UpdateIntervention
<1>5. CASE s = CloseIncident(r)
  BY <1>5 DEF CloseIncident
<1>6. CASE s = AppendEvidence(r)
  BY <1>6 DEF AppendEvidence
<1>7. CASE \E t \in AuditTypes : s = AppendAudit(r, t)
  BY <1>7 DEF AppendAudit
<1> QED BY <1>1, <1>2, <1>3, <1>4, <1>5, <1>6, <1>7 DEF RecordStep

(* No step replaces or removes a recorded Approval. *)
LEMMA ApprovalsStay ==
  ASSUME TypeOK, ApplyInvariant, RecordsStep
  PROVE  /\ \A i \in Incidents : record'[i].approved => record'[i].policy
         /\ \A i \in Incidents : record[i].approved =>
              record'[i].approved /\ Bound(record'[i]) = Bound(record[i])
<1>1. \A i \in Incidents : /\ record[i] \in Records(DeploymentState)
                           /\ record[i].approved => record[i].policy
  BY DEF TypeOK, ApplyInvariant
<1>2. \A i \in Incidents : record'[i] = record[i] \/ RecordStep(record[i], record'[i])
  BY DEF RecordsStep, WriteRecord, TypeOK
<1>3. ASSUME NEW i \in Incidents
      PROVE  /\ record'[i].approved => record'[i].policy
             /\ record[i].approved =>
                  record'[i].approved /\ Bound(record'[i]) = Bound(record[i])
  <2>1. CASE record'[i] = record[i]
    BY <1>1, <2>1
  <2>2. CASE RecordStep(record[i], record'[i])
    BY <1>1, <2>2, ApprovalFreezes
  <2> QED BY <1>2, <2>1, <2>2
<1> QED BY <1>3

\* A step of Executor e that leads it on towards its write.
LEMMA TowardsApply ==
  ASSUME TypeOK, ApplyInvariant, NEW e \in Executors,
         Step(e) \/ CallFails(e) \/ Crash(e),
         pc'[e] \in {"claim", "validate", "renew", "apply"}
  PROVE  /\ job[e].inc \in Incidents /\ job'[e].inc = job[e].inc
         /\ RecordOf(e).approved
         /\ pc'[e] \in {"renew", "apply"} =>
              /\ job'[e].patchRv = RecordOf(e).policyState.rv
              /\ RecordOf(e).policyEvidence = RecordOf(e).approvalEvidence
<1>1. pc \in [Executors -> Steps] /\ job \in [Executors -> Job]
  BY DEF TypeOK
<1>2. CASE Authorize(e)
  <2>1. job[e].inc \in Incidents /\ RecordOf(e).version \in Nat
    BY <1>2, WorkingTypes DEF Authorize, Records
  <2>2. job'[e] \in JobsOf(job[e].inc)
    <3>1. job' = [job EXCEPT ![e] = [job[e] EXCEPT !.version = RecordOf(e).version]]
      BY <1>2 DEF Authorize
    <3>2. [job[e] EXCEPT !.version = RecordOf(e).version] \in JobsOf(job[e].inc)
      BY <1>1, <2>1, JobOperations
    <3> QED BY <1>1, <3>1, <3>2
  <2>3. RecordOf(e).approved /\ pc'[e] \notin {"renew", "apply"}
    BY <1>1, <1>2 DEF Authorize, Goto, OnError
  <2> QED BY <2>1, <2>2, <2>3 DEF JobsOf
<1>3. CASE Claim(e)
  <2>1. job[e].inc \in Incidents /\ RecordOf(e).approved
    BY <1>3, WorkingTypes DEF Claim, ApplyInvariant
  <2>2. job'[e] = job[e] \/ job'[e] \in JobsOf(job[e].inc)
    BY <1>1, <1>3, JobOperations DEF Claim
  <2>3. pc'[e] \notin {"renew", "apply"}
    BY <1>1, <1>3 DEF Claim, Goto
  <2> QED BY <2>1, <2>2, <2>3 DEF JobsOf
<1>4. CASE Validate(e)
  <2> DEFINE rv == deployment[WorkloadOf(e)].rv
  <2>1. /\ job[e].inc \in Incidents
        /\ RecordOf(e).approved
        /\ rv \in Nat
    BY <1>4, WorkingTypes DEF Validate, ApplyInvariant, DeploymentState
  <2>2. /\ SameAsApproved(e) /\ Revalidated(e)
        /\ job' = [job EXCEPT ![e] = [job[e] EXCEPT !.patchRv = rv]]
    BY <1>1, <1>4 DEF Validate, Goto
  <2>3. /\ [job[e] EXCEPT !.patchRv = rv].patchRv = rv
        /\ [job[e] EXCEPT !.patchRv = rv].inc = job[e].inc
    BY <1>1, Zenon DEF Job
  <2>4. Inspect(e, WorkloadOf(e)).rv = rv
    BY <1>4, WorkingTypes DEF Validate, Inspect, DeploymentState
  <2>5. rv = RecordOf(e).policyState.rv
    BY <2>2, <2>4 DEF SameAsApproved
  <2>6. RecordOf(e).policyEvidence = RecordOf(e).approvalEvidence
    BY <2>2 DEF Revalidated, RecordOf
  <2> QED BY <1>1, <2>1, <2>2, <2>3, <2>5, <2>6
<1>5. CASE RenewLease(e)
  <2>1. pc[e] = "renew"
    BY <1>1, <1>5 DEF RenewLease, Reply, Goto, OnError
  <2> QED BY <1>1, <1>5, <2>1, WorkingTypes DEF RenewLease, ApplyInvariant
<1>6. CASE ~ Authorize(e) /\ ~ Claim(e) /\ ~ Validate(e) /\ ~ RenewLease(e)
  <2>1. pc'[e] \notin {"claim", "validate", "renew", "apply"}
    BY <1>1, <1>6
    DEF Step, Pull, ReadRecord, AcquireRefused, AcquireRead, AcquireCommit, Apply,
        PolicyRejects, RecordMutation, VerifySucceeded, VerifyFailed,
        VerifyAmbiguous, RecordTerminal, RestoreInspect, RestorePolicy,
        RestoreApply, RestoreRecord, RestoreVerify, Halt, SafeHalt, Refuse,
        ReleaseLease, Acknowledge, CallFails, Crash, Reply, Goto, Finish, OnError
  <2> QED BY <2>1
<1> QED BY <1>2, <1>3, <1>4, <1>5, <1>6

\* A step of one Executor leaves the others where they are.
LEMMA OthersStay ==
  ASSUME TypeOK, NEW e \in Executors, Step(e) \/ CallFails(e) \/ Crash(e),
         NEW f \in Executors \ {e}
  PROVE  pc'[f] = pc[f] /\ job'[f] = job[f]
<1>1. pc \in [Executors -> Steps] /\ job \in [Executors -> Job]
  BY DEF TypeOK
<1>2. CASE \E i \in Incidents : Pull(e, i)
  BY <1>1, <1>2 DEF Pull, Goto
<1>3. CASE pc[e] # "idle"
  BY <1>1, <1>3, ExecutorJobs DEF ExecutorMoves, Goto, Finish
<1>4. CASE Crash(e)
  BY <1>1, <1>4 DEF Crash, Goto, Finish
<1>5. CASE pc[e] = "idle" /\ ~ Crash(e) /\ \A i \in Incidents : ~ Pull(e, i)
  BY <1>5 DEF Step, ReadRecord, AcquireRefused, AcquireRead, AcquireCommit,
     Authorize, Claim, Validate, PolicyRejects, RenewLease, Apply, RecordMutation,
     VerifySucceeded, VerifyFailed, VerifyAmbiguous, RecordTerminal,
     RestoreInspect, RestorePolicy, RestoreApply, RestoreRecord, RestoreVerify,
     Halt, SafeHalt, Refuse, ReleaseLease, Acknowledge, CallFails,
     TerminalStateAt, BeforeTry, InTry, InHandler
<1> QED BY <1>2, <1>3, <1>4, <1>5

\* The Executors' part of the invariant, when the Approvals stay.
LEMMA ExecutorsStayApproved ==
  ASSUME TypeOK, ApplyInvariant, RecordsStep, NEW f \in Executors,
         pc'[f] = pc[f], job'[f] = job[f]
  PROVE  /\ pc'[f] \in {"claim", "validate", "renew", "apply"} =>
              record'[job'[f].inc].approved
         /\ pc'[f] \in {"renew", "apply"} =>
              /\ job'[f].patchRv = record'[job'[f].inc].policyState.rv
              /\ record'[job'[f].inc].policyEvidence = record'[job'[f].inc].approvalEvidence
<1> SUFFICES ASSUME pc[f] \in {"claim", "validate", "renew", "apply"}
             PROVE  /\ record'[job[f].inc].approved
                    /\ pc[f] \in {"renew", "apply"} =>
                         /\ job[f].patchRv = record'[job[f].inc].policyState.rv
                         /\ record'[job[f].inc].policyEvidence =
                              record'[job[f].inc].approvalEvidence
  OBVIOUS
<1>1. job[f].inc \in Incidents
  BY WorkingTypes
<1> QED BY <1>1, ApprovalsStay DEF ApplyInvariant, RecordOf, Bound

\* What a change of a Deployment does to the history.
LEMMA WritesOrdered ==
  ASSUME TypeOK, ApplyInvariant, DeploymentsStep
  PROVE  \A x \in writes' : x.from < x.to /\ x.to <= deployment'[x.workload].rv
<1> DEFINE Ordered(x, d) == x.from < x.to /\ x.to <= d[x.workload].rv
<1>1. \A x \in writes : x.workload \in Workloads /\ x.to \in Nat /\ Ordered(x, deployment)
  BY DEF TypeOK, Write, ApplyInvariant
<1>2. CASE UNCHANGED <<deployment, writes>>
  BY <1>1, <1>2
<1>3. ASSUME NEW w \in Workloads, NEW d \in DeploymentState,
             NEW i \in Incidents \cup {Nobody},
             NEW kind \in {"action", "restore", "external"},
             d = deployment[w] \/ d.rv = deployment[w].rv + 1,
             WriteDeployment(w, i, kind, d)
      PROVE  \A x \in writes' : Ordered(x, deployment')
  <2>1. deployment \in [Workloads -> DeploymentState]
        /\ deployment[w].rv \in Nat /\ d.rv \in Nat
    BY DEF TypeOK, DeploymentState
  <2>2. deployment' = [deployment EXCEPT ![w] = d]
    BY <1>3 DEF WriteDeployment
  <2>3. \A x \in writes : Ordered(x, deployment')
    <3>1. TAKE x \in writes
    <3>2. CASE x.workload = w
      <4>1. deployment'[x.workload] = d
        BY <2>1, <2>2, <3>2
      <4> QED BY <1>1, <1>3, <2>1, <3>2, <4>1
    <3>3. CASE x.workload # w
      BY <1>1, <2>1, <2>2, <3>3
    <3> QED BY <3>2, <3>3
  <2>4. CASE d.gen = deployment[w].gen
    BY <1>3, <2>3, <2>4 DEF WriteDeployment
  <2>5. CASE d.gen # deployment[w].gen
    <3> DEFINE x == [workload |-> w, inc |-> i, kind |-> kind,
                     from |-> deployment[w].rv, to |-> d.rv]
    <3>1. d.rv = deployment[w].rv + 1
      BY <1>3, <2>5
    <3>2. x.workload = w /\ x.from = deployment[w].rv /\ x.to = d.rv
      OBVIOUS
    <3>3. deployment'[w] = d
      BY <2>1, <2>2
    <3>4. Ordered(x, deployment')
      BY <2>1, <3>1, <3>2, <3>3
    <3>5. writes' = writes \cup {x}
      BY <1>3, <2>5 DEF WriteDeployment
    <3> QED BY <2>3, <3>4, <3>5
  <2> QED BY <2>4, <2>5
<1> QED BY <1>2, <1>3 DEF DeploymentsStep

\* The history of the actions stays approved while only others change a
\* Deployment ...
LEMMA ActionsStayApproved ==
  ASSUME TypeOK, ApplyInvariant, RecordsStep,
         \A x \in writes' : x.kind = "action" => x \in writes
  PROVE  /\ \A x \in writes' : x.kind = "action" => x.inc \in Incidents
         /\ WritesAreApproved'
         /\ AppliedAtMostOnce'
<1>1. \A x \in writes' : x.kind = "action" =>
        /\ x.inc \in Incidents
        /\ record[x.inc].approved
        /\ x.workload = Target[x.inc]
        /\ x.from = record[x.inc].policyState.rv
        /\ record[x.inc].approvalEvidence = record[x.inc].policyEvidence
  BY DEF ApplyInvariant, WritesAreApproved
<1>2. WritesAreApproved'
  BY <1>1, ApprovalsStay DEF WritesAreApproved, Bound
<1>3. AppliedAtMostOnce'
  BY DEF ApplyInvariant, AppliedAtMostOnce
<1> QED BY <1>1, <1>2, <1>3

\* ... and when Apply does: the Deployment is still at the approved
\* resourceVersion, which an earlier change by the action would have passed.
LEMMA ApplyIsFirst ==
  ASSUME TypeOK, ApplyInvariant, NEW e \in Executors, Apply(e)
  PROVE  /\ \A x \in writes' : x.kind = "action" => x.inc \in Incidents
         /\ WritesAreApproved'
         /\ AppliedAtMostOnce'
<1> DEFINE i == job[e].inc
           w == Target[i]
           r == record[i]
           d == Patched(i, deployment[w])
           x == [workload |-> w, inc |-> i, kind |-> "action",
                 from |-> deployment[w].rv, to |-> d.rv]
<1>1. /\ i \in Incidents
      /\ UNCHANGED record
      /\ r.approved
      /\ r.policyEvidence = r.approvalEvidence
      /\ job[e].patchRv = r.policyState.rv
  BY WorkingTypes DEF Apply, ApplyInvariant, RecordOf
<1>2. CASE writes' = writes
  BY <1>1, <1>2, ActionsStayApproved DEF RecordsStep
<1>3. CASE writes' = writes \cup {x} /\ deployment[w].rv = job[e].patchRv
  <2>1. /\ x.inc = i /\ x.workload = w /\ x.kind = "action"
        /\ x.from = r.policyState.rv
    BY <1>1, <1>3
  <2>2. ASSUME NEW a \in writes, a.kind = "action"
        PROVE  a.inc # i
    <3>1. SUFFICES ASSUME a.inc = i PROVE FALSE
      OBVIOUS
    <3>2. a.from = deployment[w].rv /\ a.workload = w
      BY <1>1, <1>3, <2>2, <3>1 DEF ApplyInvariant, WritesAreApproved
    <3>3. a.from < a.to /\ a.to <= deployment[w].rv
      BY <3>2 DEF ApplyInvariant
    <3>4. a.to \in Nat /\ deployment[w].rv \in Nat
      BY <1>1, PipelineAssumption DEF TypeOK, Write, DeploymentState
    <3> QED BY <3>2, <3>3, <3>4
  <2>3. WritesAreApproved'
    BY <1>1, <1>3, <2>1 DEF ApplyInvariant, WritesAreApproved
  <2>4. AppliedAtMostOnce'
    BY <1>3, <2>1, <2>2 DEF ApplyInvariant, AppliedAtMostOnce
  <2>5. \A a \in writes' : a.kind = "action" => a.inc \in Incidents
    BY <1>1, <1>3, <2>1 DEF ApplyInvariant
  <2> QED BY <2>3, <2>4, <2>5
<1> QED BY <1>2, <1>3 DEF Apply, WriteDeployment

(* Every step keeps the actions the executors hold the approved ones. *)
LEMMA ActionsApproved ==
  ASSUME TypeOK, ApplyInvariant, NEW e \in Executors,
         Step(e) \/ CallFails(e) \/ Crash(e)
  PROVE  /\ \A x \in writes' : x.kind = "action" => x.inc \in Incidents
         /\ WritesAreApproved'
         /\ AppliedAtMostOnce'
<1>1. CASE Apply(e)
  BY <1>1, ApplyIsFirst
<1>2. CASE RestoreApply(e)
  <2> DEFINE i == job[e].inc
             w == Target[i]
             d == Scaled(deployment[w], record[i].policyState.replicas)
             x == [workload |-> w, inc |-> i, kind |-> "restore",
                   from |-> deployment[w].rv, to |-> d.rv]
  <2>1. writes' = writes \/ writes' = writes \cup {x}
    BY <1>2 DEF RestoreApply, WriteDeployment
  <2>2. x.kind # "action"
    OBVIOUS
  <2> HIDE DEF x
  <2>3. \A y \in writes' : y.kind = "action" => y \in writes
    BY <2>1, <2>2
  <2> QED BY <2>3, ExecutorRecords, ActionsStayApproved
<1>3. CASE ~ Apply(e) /\ ~ RestoreApply(e)
  <2>1. UNCHANGED writes
    BY <1>3
    DEF Step, Pull, ReadRecord, AcquireRefused, AcquireRead, AcquireCommit,
        Authorize, Claim, Validate, PolicyRejects, RenewLease, RecordMutation,
        VerifySucceeded, VerifyFailed, VerifyAmbiguous, RecordTerminal,
        RestoreInspect, RestorePolicy, RestoreRecord, RestoreVerify, Halt,
        SafeHalt, Refuse, ReleaseLease, Acknowledge, CallFails, Crash
  <2> QED BY <2>1, ExecutorRecords, ActionsStayApproved
<1> QED BY <1>1, <1>2, <1>3

(* ApplyInvariant is inductive, given the types. *)
LEMMA NextApplies == TypeOK /\ ApplyInvariant /\ [Next]_vars => ApplyInvariant'
<1> SUFFICES ASSUME TypeOK, ApplyInvariant, [Next]_vars PROVE ApplyInvariant'
  OBVIOUS
<1>1. RecordsStep /\ \A i \in Incidents : record'[i].approved => record'[i].policy
  BY RecordsChange, ApprovalsStay
<1>2. DeploymentsStep
  BY ExternalDeployments, ExecutorDeployments
  DEF Next, Tick, Api, PolicyPasses, Approve, Publish, Close, QueryEvidence, vars,
      DeploymentsStep
<1>3. CASE \E e \in Executors : Step(e) \/ CallFails(e) \/ Crash(e)
  <2>1. PICK e \in Executors : Step(e) \/ CallFails(e) \/ Crash(e)
    BY <1>3
  <2>2. ASSUME NEW f \in Executors
        PROVE  /\ pc'[f] \in {"claim", "validate", "renew", "apply"} =>
                    record'[job'[f].inc].approved
               /\ pc'[f] \in {"renew", "apply"} =>
                    /\ job'[f].patchRv = record'[job'[f].inc].policyState.rv
                    /\ record'[job'[f].inc].policyEvidence
                         = record'[job'[f].inc].approvalEvidence
    <3>1. CASE f = e
      BY <1>1, <2>1, <3>1, TowardsApply, ApprovalsStay DEF RecordOf, Bound
    <3>2. CASE f # e
      BY <1>1, <2>1, <3>2, OthersStay, ExecutorsStayApproved
    <3> QED BY <3>1, <3>2
  <2> QED BY <1>1, <1>2, <2>1, <2>2, WritesOrdered, ActionsApproved
          DEF ApplyInvariant, RecordOf
<1>4. CASE ~ \E e \in Executors : Step(e) \/ CallFails(e) \/ Crash(e)
  <2>1. UNCHANGED <<pc, job>>
    BY <1>4 DEF Next, Tick, ExternalWrite, Api, PolicyPasses, Approve, Publish, Close,
                QueryEvidence, vars
  <2>2. \A x \in writes' : x.kind = "action" => x \in writes
    BY <1>4 DEF Next, Tick, ExternalWrite, WriteDeployment, Api, PolicyPasses,
                Approve, Publish, Close, QueryEvidence, vars
  <2> QED BY <1>1, <1>2, <2>1, <2>2, WritesOrdered, ActionsStayApproved,
             ExecutorsStayApproved DEF ApplyInvariant, RecordOf
<1> QED BY <1>3, <1>4

\* The inductive invariant behind the next two theorems.
THEOREM Inductive == Spec => [](TypeOK /\ ApplyInvariant)
<1>1. Init => ApplyInvariant
  BY DEF Init, ApplyInvariant, WritesAreApproved, AppliedAtMostOnce, InitialRecord
<1> QED BY <1>1, InitTypes, NextTypes, NextApplies, PTL DEF Spec

\* The spec of a Deployment is changed at most once by an approved action,
\* for any number of Executors, deliveries, crashes and expired leases.
THEOREM AtMostOnce == Spec => []AppliedAtMostOnce
<1>1. ApplyInvariant => AppliedAtMostOnce
  BY DEF ApplyInvariant
<1> QED BY <1>1, Inductive, PTL

\* And that change starts from the Deployment state and the evidence the
\* Approval is bound to.
THEOREM Approved == Spec => []WritesAreApproved
<1>1. ApplyInvariant => WritesAreApproved
  BY DEF ApplyInvariant
<1> QED BY <1>1, Inductive, PTL
=============================================================================
