---------------------- MODULE InterventionOutcomeProofs ----------------------
(***************************************************************************)
(* More proofs about InterventionPipeline, for every number of Executors,  *)
(* Incidents and workloads: the lease, what becomes of a delivery, what    *)
(* the recorded outcome says of the Deployment, and the contract.  They    *)
(* rest on the types and the ApplyInvariant of                             *)
(* InterventionPipelineProofs.                                             *)
(***************************************************************************)
EXTENDS InterventionPipelineProofs, FiniteSetTheorems

-----------------------------------------------------------------------------
(* What a step does to the locals of consume.                              *)

\* Executor e goes on with its delivery: nothing but its first read and its
\* claim sets `claimed`; a failed call and a safe halt clear `ack`, and nothing
\* sets it again.
GoesOn(e) ==
  /\ job'[e].inc = job[e].inc /\ job'[e].now = job[e].now
  /\ ReadRecord(e) \/ Claim(e) \/ job'[e].claimed = job[e].claimed
  /\ \/ job'[e].ack = job[e].ack
     \/ ~ job'[e].ack /\ (faults' = faults + 1 \/ SafeHalt(e))

LEMMA JobSteps ==
  ASSUME TypeOK, NEW e \in Executors, pc[e] # "idle",
         Step(e) \/ CallFails(e) \/ Crash(e)
  PROVE  (pc'[e] = "idle" /\ job'[e] = NoJob) \/ GoesOn(e)
<1>1. /\ pc \in [Executors -> Steps] /\ job \in [Executors -> Job] /\ job[e] \in Job
  BY DEF TypeOK
<1>2. job[e].ack \in BOOLEAN
  BY <1>1 DEF Job
<1>3. CASE UNCHANGED job
  BY <1>3 DEF GoesOn
<1>4. CASE Finish(e)
  BY <1>1, <1>4 DEF Finish, Goto
<1>5. CASE ReadRecord(e)
  <2>1. job'[e] = [job[e] EXCEPT !.claimed = (RecordOf(e).intervention = "running")]
    BY <1>1, <1>5 DEF ReadRecord
  <2> QED BY <1>1, <1>5, <2>1 DEF GoesOn, Job
<1>6. CASE AcquireRead(e)
  <2>1. job'[e] = [job[e] EXCEPT !.seen = lease[WorkloadOf(e)]]
    BY <1>1, <1>6 DEF AcquireRead
  <2> QED BY <1>1, <2>1 DEF GoesOn, Job
<1>7. CASE AcquireCommit(e)
  <2>1. \E n : job'[e] = [job[e] EXCEPT !.seen = NoLease, !.token = n]
    BY <1>1, <1>7 DEF AcquireCommit
  <2> QED BY <1>1, <2>1 DEF GoesOn, Job
<1>8. CASE Authorize(e)
  <2>1. job'[e] = [job[e] EXCEPT !.version = RecordOf(e).version]
    BY <1>1, <1>8 DEF Authorize
  <2> QED BY <1>1, <2>1 DEF GoesOn, Job
<1>9. CASE Claim(e)
  <2>1. job'[e] = job[e] \/ job'[e] = [job[e] EXCEPT !.claimed = TRUE]
    BY <1>1, <1>9 DEF Claim
  <2> QED BY <1>1, <1>9, <2>1 DEF GoesOn, Job
<1>10. CASE Validate(e)
  <2>1. UNCHANGED job \/ job'[e] = [job[e] EXCEPT !.patchRv = deployment[WorkloadOf(e)].rv]
    BY <1>1, <1>10 DEF Validate
  <2> QED BY <1>1, <1>3, <2>1 DEF GoesOn, Job
<1>11. CASE Apply(e)
  <2>1. UNCHANGED job \/ job'[e] = [job[e] EXCEPT !.deadline = clock + VerifyLimit]
    BY <1>1, <1>11 DEF Apply
  <2> QED BY <1>1, <1>3, <2>1 DEF GoesOn, Job
<1>12. CASE VerifyFailed(e)
  <2>1. UNCHANGED job \/ job'[e] = [job[e] EXCEPT !.observed = Inspect(e, WorkloadOf(e))]
    BY <1>1, <1>12 DEF VerifyFailed
  <2> QED BY <1>1, <1>3, <2>1 DEF GoesOn, Job
<1>13. CASE RestorePolicy(e)
  <2>1. UNCHANGED job \/ job'[e] = [job[e] EXCEPT !.patchRv = deployment[WorkloadOf(e)].rv]
    BY <1>1, <1>13 DEF RestorePolicy
  <2> QED BY <1>1, <1>3, <2>1 DEF GoesOn, Job
<1>14. CASE SafeHalt(e)
  <2>1. UNCHANGED job \/ job'[e] = [job[e] EXCEPT !.ack = FALSE]
    BY <1>1, <1>14 DEF SafeHalt
  <2> QED BY <1>1, <1>2, <1>3, <1>14, <2>1 DEF GoesOn, Job
<1>15. CASE CallFails(e)
  <2>1. UNCHANGED job \/ Finish(e) \/ job'[e] = [job[e] EXCEPT !.ack = FALSE]
    BY <1>1, <1>15 DEF CallFails
  <2>2. faults' = faults + 1
    BY <1>15 DEF CallFails, Fault
  <2> QED BY <1>1, <1>2, <1>3, <1>4, <2>1, <2>2 DEF GoesOn, Job
<1>16. CASE \/ AcquireRefused(e) \/ PolicyRejects(e) \/ RenewLease(e)
            \/ RecordMutation(e) \/ VerifySucceeded(e) \/ VerifyAmbiguous(e)
            \/ RecordTerminal(e) \/ RestoreInspect(e) \/ RestoreApply(e)
            \/ RestoreRecord(e) \/ RestoreVerify(e) \/ Halt(e) \/ Refuse(e)
  BY <1>3, <1>16 DEF AcquireRefused, PolicyRejects, RenewLease, RecordMutation,
                     VerifySucceeded, VerifyAmbiguous, RecordTerminal,
                     RestoreInspect, RestoreApply, RestoreRecord, RestoreVerify,
                     Halt, Refuse
<1>17. CASE ReleaseLease(e) \/ Acknowledge(e) \/ Crash(e)
  BY <1>3, <1>4, <1>17 DEF ReleaseLease, Acknowledge, Crash
<1>18. \A i \in Incidents : ~ Pull(e, i)
  BY DEF Pull
<1> QED BY <1>5, <1>6, <1>7, <1>8, <1>9, <1>10, <1>11, <1>12, <1>13, <1>14, <1>15,
           <1>16, <1>17, <1>18 DEF Step

-----------------------------------------------------------------------------
(* A lease that has not expired.                                           *)

\* consume began in the past, and the lease the acquire transaction read
\* before its commit was free when consume began.
LeaseInvariant ==
  \A e \in Executors :
    /\ job[e].now <= clock
    /\ pc[e] = "commit" =>
         job[e].seen.token = NoToken \/ job[e].seen.expires <= job[e].now

\* What a step makes of the locals of the Executor that takes it.
LEMMA LeaseReadFree ==
  ASSUME TypeOK, LeaseInvariant, NEW e \in Executors,
         Step(e) \/ CallFails(e) \/ Crash(e)
  PROVE  /\ job'[e].now <= clock
         /\ pc'[e] = "commit" =>
              job'[e].seen.token = NoToken \/ job'[e].seen.expires <= job'[e].now
<1>1. /\ pc \in [Executors -> Steps] /\ job \in [Executors -> Job] /\ job[e] \in Job
      /\ clock \in Nat /\ job[e].now <= clock
  BY DEF TypeOK, LeaseTypeOK, LeaseInvariant
<1>2. ASSUME NEW i \in Incidents, Pull(e, i)
      PROVE  job'[e].now = clock /\ pc'[e] # "commit"
  <2>1. job' = [job EXCEPT ![e] = [NoJob EXCEPT !.inc = i, !.now = clock,
                                                !.ackBy = clock + AckDeadline]]
    BY <1>2 DEF Pull
  <2>2. [NoJob EXCEPT !.inc = i, !.now = clock, !.ackBy = clock + AckDeadline].now = clock
    BY DEF NoJob
  <2> QED BY <1>1, <1>2, <2>1, <2>2 DEF Pull, Goto
<1>3. CASE pc[e] # "idle"
  <2>1. job'[e].now <= clock
    <3>1. NoJob.now = 0
      BY DEF NoJob
    <3> QED BY <1>1, <1>3, <3>1, JobSteps DEF GoesOn
  <2>2. CASE AcquireRead(e)
    <3>1. job[e].now \in Nat /\ lease[WorkloadOf(e)] \in Lease
      BY <1>1, <1>3, WorkingTypes DEF Job
    <3>2. lease[WorkloadOf(e)].expires \in Nat
      BY <3>1 DEF Lease
    <3>3. job'[e].seen = lease[WorkloadOf(e)] /\ job'[e].now = job[e].now
      BY <1>1, <2>2 DEF AcquireRead, Job
    <3>4. ~ Occupied(WorkloadOf(e), job[e].now)
      BY <2>2 DEF AcquireRead
    <3> QED BY <2>1, <3>1, <3>2, <3>3, <3>4 DEF Occupied
  <2>3. CASE ~ AcquireRead(e)
    <3>1. pc'[e] # "commit"
      BY <1>1, <1>3, <2>3
      DEF Step, Pull, ReadRecord, AcquireRefused, AcquireCommit, Authorize, Claim,
          Validate, PolicyRejects, RenewLease, Apply, RecordMutation, VerifySucceeded,
          VerifyFailed, VerifyAmbiguous, RecordTerminal, RestoreInspect, RestorePolicy,
          RestoreApply, RestoreRecord, RestoreVerify, Halt, SafeHalt, Refuse,
          ReleaseLease, Acknowledge, CallFails, Crash, Reply, Goto, Finish, OnError
    <3> QED BY <2>1, <3>1
  <2> QED BY <2>2, <2>3
<1>4. CASE Crash(e)
  BY <1>1, <1>4 DEF Crash, Finish, Goto, NoJob
<1>5. CASE pc[e] = "idle" /\ ~ Crash(e)
  <2>1. \E i \in Incidents : Pull(e, i)
    BY <1>5 DEF Step, ReadRecord, AcquireRefused, AcquireRead, AcquireCommit,
       Authorize, Claim, Validate, PolicyRejects, RenewLease, Apply, RecordMutation,
       VerifySucceeded, VerifyFailed, VerifyAmbiguous, RecordTerminal,
       RestoreInspect, RestorePolicy, RestoreApply, RestoreRecord, RestoreVerify,
       Halt, SafeHalt, Refuse, ReleaseLease, Acknowledge, CallFails,
       TerminalStateAt, BeforeTry, InTry, InHandler
  <2> QED BY <1>1, <1>2, <2>1
<1> QED BY <1>3, <1>4, <1>5

LEMMA NextLease == TypeOK /\ LeaseInvariant /\ [Next]_vars => LeaseInvariant'
<1> SUFFICES ASSUME TypeOK, LeaseInvariant, [Next]_vars PROVE LeaseInvariant'
  OBVIOUS
<1>1. /\ clock \in Nat /\ job \in [Executors -> Job]
      /\ \A e \in Executors : job[e].now \in Nat
  BY DEF TypeOK, LeaseTypeOK, Job
<1>2. CASE \E e \in Executors : Step(e) \/ CallFails(e) \/ Crash(e)
  <2>1. PICK e \in Executors : Step(e) \/ CallFails(e) \/ Crash(e)
    BY <1>2
  <2>2. clock' = clock
    BY <2>1 DEF Step, Pull, ReadRecord, AcquireRefused, AcquireRead, AcquireCommit,
       Authorize, Claim, Validate, PolicyRejects, RenewLease, Apply, RecordMutation,
       VerifySucceeded, VerifyFailed, VerifyAmbiguous, RecordTerminal,
       RestoreInspect, RestorePolicy, RestoreApply, RestoreRecord, RestoreVerify,
       Halt, SafeHalt, Refuse, ReleaseLease, Acknowledge, CallFails, Crash
  <2>3. ASSUME NEW f \in Executors
        PROVE  /\ job'[f].now <= clock
               /\ pc'[f] = "commit" =>
                    job'[f].seen.token = NoToken \/ job'[f].seen.expires <= job'[f].now
    <3>1. CASE f = e
      BY <2>1, <3>1, LeaseReadFree
    <3>2. CASE f # e
      BY <2>1, <3>2, OthersStay DEF LeaseInvariant
    <3> QED BY <3>1, <3>2
  <2> QED BY <2>2, <2>3 DEF LeaseInvariant
<1>3. CASE ~ \E e \in Executors : Step(e) \/ CallFails(e) \/ Crash(e)
  <2>1. UNCHANGED <<pc, job>> /\ (clock' = clock \/ clock' = clock + 1)
    BY <1>3 DEF Next, Tick, ExternalWrite, Api, PolicyPasses, Approve, Publish, Close,
                QueryEvidence, vars
  <2> QED BY <1>1, <2>1 DEF LeaseInvariant
<1> QED BY <1>2, <1>3

LEMMA LeaseInvariantAlways == Spec => []LeaseInvariant
<1>1. Init => LeaseInvariant
  BY DEF Init, LeaseInit, LeaseInvariant, NoJob
<1> QED BY <1>1, NextLease, TypeCorrect, PTL DEF Spec

\* UnexpiredLeaseIsKept for every number of Executors and every ttl: while a
\* lease has not expired, only a consume that carries its token renews or
\* deletes it, although acquire decides on what it read and commits later.
THEOREM LeaseKept == Spec => UnexpiredLeaseIsKept
<1> DEFINE Kept(w) ==
      lease[w].token # NoToken /\ lease[w].expires > clock /\ lease'[w] # lease[w] =>
        \E e \in Executors : /\ job[e].token = lease[w].token
                             /\ WorkloadOf(e) = w
                             /\ pc'[e] # pc[e]
<1>1. ASSUME TypeOK, LeaseInvariant, [Next]_vars
      PROVE  [\A w \in Workloads : Kept(w)]_vars
  <2> SUFFICES ASSUME NEW w \in Workloads, lease[w].token # NoToken,
                      lease[w].expires > clock, lease'[w] # lease[w]
               PROVE  \E e \in Executors : /\ job[e].token = lease[w].token
                                           /\ WorkloadOf(e) = w
                                           /\ pc'[e] # pc[e]
    BY <1>1
  <2>1. /\ pc \in [Executors -> Steps] /\ job \in [Executors -> Job]
        /\ lease \in [Workloads -> Lease] /\ clock \in Nat
    BY <1>1 DEF TypeOK, LeaseTypeOK
  <2>2. PICK e \in Executors : AcquireCommit(e) \/ RenewLease(e) \/ ReleaseLease(e)
    <3>1. PICK e \in Executors : Step(e) \/ CallFails(e) \/ Crash(e)
      BY <1>1 DEF Next, Tick, ExternalWrite, Api, PolicyPasses, Approve, Publish, Close,
         QueryEvidence, vars, leaseVars
    <3>2. AcquireCommit(e) \/ RenewLease(e) \/ ReleaseLease(e)
      <4> SUFFICES ASSUME ~ AcquireCommit(e), ~ RenewLease(e), ~ ReleaseLease(e)
                   PROVE  lease' = lease
        OBVIOUS
      <4> QED BY <3>1 DEF Step, Pull, ReadRecord, AcquireRefused, AcquireRead, Authorize,
             Claim, Validate, PolicyRejects, Apply, RecordMutation, VerifySucceeded,
             VerifyFailed, VerifyAmbiguous, RecordTerminal, RestoreInspect,
             RestorePolicy, RestoreApply, RestoreRecord, RestoreVerify, Halt,
             SafeHalt, Refuse, Acknowledge, CallFails, Crash, leaseVars
    <3> QED BY <3>2
  <2>3. CASE AcquireCommit(e)
    <3>1. /\ lease[w] = job[e].seen \/ ~ Occupied(w, job[e].now)
          /\ pc[e] = "commit"
      BY <2>1, <2>3 DEF AcquireCommit, Grant, leaseVars
    <3>2. lease[w].expires <= job[e].now
      <4>1. lease[w].expires \in Nat /\ job[e].now \in Nat
        BY <2>1 DEF Lease, Job
      <4> QED BY <1>1, <3>1, <4>1 DEF LeaseInvariant, Occupied
    <3>3. job[e].now <= clock /\ job[e].now \in Nat /\ lease[w].expires \in Nat
      BY <1>1, <2>1 DEF LeaseInvariant, Lease, Job
    <3> QED BY <2>1, <3>2, <3>3
  <2>4. CASE RenewLease(e)
    <3>1. WorkloadOf(e) = w /\ job[e].token = lease[w].token
      BY <2>1, <2>4 DEF RenewLease, Renew, CanRenew, leaseVars
    <3>2. pc'[e] # pc[e]
      BY <2>1, <2>4 DEF RenewLease, Reply, Goto, OnError
    <3> QED BY <3>1, <3>2
  <2>5. CASE ReleaseLease(e)
    <3>1. WorkloadOf(e) = w /\ job[e].token = lease[w].token
      BY <2>1, <2>5 DEF ReleaseLease, Release
    <3>2. pc'[e] # pc[e]
      BY <2>1, <2>5 DEF ReleaseLease, Goto, Finish
    <3> QED BY <3>1, <3>2
  <2> QED BY <2>2, <2>3, <2>4, <2>5
<1> QED BY <1>1, TypeCorrect, LeaseInvariantAlways, PTL DEF Spec, UnexpiredLeaseIsKept

-----------------------------------------------------------------------------
(* What a step decides of a record.                                        *)

\* What the proofs below need of a record.
Decided(s, policy, policyState, approved, intervention) ==
  /\ s.policy = policy /\ s.policyState = policyState
  /\ s.approved = approved /\ s.intervention = intervention

\* It is the same in r and s.
SameDecided(r, s) == Decided(s, r.policy, r.policyState, r.approved, r.intervention)

\* The store operations that change it leave the rest of it.
LEMMA PolicyDecides ==
  ASSUME NEW r \in Records(DeploymentState), NEW d
  PROVE  Decided(RecordPolicy(r, d), TRUE, d, r.approved, r.intervention)
BY DEF Records, Decided, RecordPolicy

LEMMA ApprovalDecides ==
  ASSUME NEW r \in Records(DeploymentState), NEW x
  PROVE  Decided(RecordApproval(r, x), r.policy, r.policyState, TRUE, r.intervention)
BY DEF Records, Decided, RecordApproval

LEMMA InterventionDecides ==
  ASSUME NEW r \in Records(DeploymentState)
  PROVE  /\ Decided(RecordIntervention(r), r.policy, r.policyState, r.approved, "running")
         /\ \A t : Decided(UpdateIntervention(r, t), r.policy, r.policyState, r.approved, t)
BY DEF Records, Decided, RecordIntervention, UpdateIntervention

LEMMA OthersDecideNothing ==
  ASSUME NEW r \in Records(DeploymentState)
  PROVE  /\ SameDecided(r, CloseIncident(r))
         /\ SameDecided(r, AppendEvidence(r))
         /\ \A t : SameDecided(r, AppendAudit(r, t))
<1> USE DEF Records, Decided, SameDecided
<1>1. SameDecided(r, CloseIncident(r)) /\ SameDecided(r, AppendEvidence(r))
  BY DEF CloseIncident, AppendEvidence
<1>2. \A t : SameDecided(r, AppendAudit(r, t))
  BY DEF AppendAudit
<1> QED BY <1>1, <1>2

\* Executor e writes the terminal state t of its Intervention.
Settles(e, t) ==
  /\ RecordTerminal(e) \/ SafeHalt(e)
  /\ t = "succeeded" => pc[e] = "converged"
  /\ CanUpdateIntervention(RecordOf(e), t)
  /\ WriteRecord(job[e].inc, UpdateIntervention(RecordOf(e), t))

Claims(e) ==
  /\ Claim(e)
  /\ CanRecordIntervention(RecordOf(e), job[e].version)
  /\ WriteRecord(job[e].inc, RecordIntervention(RecordOf(e)))

\* Four operations decide; every other step leaves it alone.
LEMMA DecidedStep ==
  ASSUME TypeOK, [Next]_vars
  PROVE  \/ \A i \in Incidents : SameDecided(record[i], record'[i])
         \/ \E i \in Incidents : PolicyPasses(i)
         \/ \E i \in Incidents : \E left \in 0..ReviewTTL : Approve(i, left)
         \/ \E e \in Executors : Claims(e)
         \/ \E e \in Executors : \E t \in TerminalStates : Settles(e, t)
<1>1. /\ record \in [Incidents -> Records(DeploymentState)]
      /\ \A i \in Incidents : record[i] \in Records(DeploymentState)
  BY DEF TypeOK
<1>2. ASSUME NEW j \in Incidents,
             \/ WriteRecord(j, CloseIncident(record[j]))
             \/ WriteRecord(j, AppendEvidence(record[j]))
             \/ \E t : WriteRecord(j, AppendAudit(record[j], t))
      PROVE  \A i \in Incidents : SameDecided(record[i], record'[i])
  <2>1. PICK s : WriteRecord(j, s) /\ SameDecided(record[j], s)
    BY <1>1, <1>2, OthersDecideNothing
  <2> QED BY <1>1, <2>1 DEF WriteRecord, SameDecided, Decided
<1>3. ASSUME NEW j \in Incidents, Close(j) \/ QueryEvidence(j)
      PROVE  \A i \in Incidents : SameDecided(record[i], record'[i])
  BY <1>2, <1>3 DEF Close, QueryEvidence
<1>4. ASSUME NEW e \in Executors,
             AcquireRefused(e) \/ RecordMutation(e) \/ RestoreRecord(e) \/ Refuse(e)
      PROVE  \A i \in Incidents : SameDecided(record[i], record'[i])
  <2>1. job[e].inc \in Incidents
    BY <1>4, WorkingTypes DEF AcquireRefused, RecordMutation, RestoreRecord, Refuse
  <2>2. \E t : WriteRecord(job[e].inc, AppendAudit(record[job[e].inc], t))
    BY <1>4 DEF AcquireRefused, RecordMutation, RestoreRecord, Refuse, RecordOf
  <2> QED BY <1>2, <2>1, <2>2
<1>5. ASSUME NEW e \in Executors, Claim(e)
      PROVE  UNCHANGED record \/ Claims(e)
  BY <1>5 DEF Claim, Claims
<1>6. ASSUME NEW e \in Executors, RecordTerminal(e)
      PROVE  UNCHANGED record \/ \E t \in TerminalStates : Settles(e, t)
  <2> DEFINE t == TerminalStateAt[pc[e]]
  <2>1. t = "succeeded" => pc[e] = "converged"
    BY <1>6 DEF RecordTerminal, TerminalStateAt
  <2>2. \/ UNCHANGED record
        \/ /\ CanUpdateIntervention(RecordOf(e), t)
           /\ WriteRecord(job[e].inc, UpdateIntervention(RecordOf(e), t))
    BY <1>6 DEF RecordTerminal
  <2> HIDE DEF t
  <2> QED BY <1>6, <2>1, <2>2 DEF Settles, CanUpdateIntervention
<1>7. ASSUME NEW e \in Executors, SafeHalt(e)
      PROVE  UNCHANGED record \/ Settles(e, "safe_halted")
  BY <1>7 DEF SafeHalt, Settles
<1>8. "safe_halted" \in TerminalStates
  BY DEF TerminalStates, InterventionStates
<1>9. ASSUME NEW e \in Executors, Step(e) \/ CallFails(e) \/ Crash(e)
      PROVE  \/ UNCHANGED record
             \/ AcquireRefused(e) \/ RecordMutation(e) \/ RestoreRecord(e) \/ Refuse(e)
             \/ Claim(e) \/ RecordTerminal(e) \/ SafeHalt(e)
  BY <1>9
  DEF Step, Pull, ReadRecord, AcquireRead, AcquireCommit, Authorize, Validate,
      PolicyRejects, RenewLease, Apply, VerifySucceeded, VerifyFailed,
      VerifyAmbiguous, RestoreInspect, RestorePolicy, RestoreApply, RestoreVerify,
      Halt, ReleaseLease, Acknowledge, CallFails, Crash
<1>10. CASE \/ UNCHANGED vars \/ Tick \/ \E w \in Workloads : ExternalWrite(w)
            \/ \E i \in Incidents : Publish(i)
  BY <1>10 DEF vars, Tick, ExternalWrite, Publish, SameDecided, Decided
<1>11. ASSUME UNCHANGED record
       PROVE  \A i \in Incidents : SameDecided(record[i], record'[i])
  BY <1>11 DEF SameDecided, Decided
<1>12. CASE \E e \in Executors : Step(e) \/ CallFails(e) \/ Crash(e)
  <2>1. PICK e \in Executors : Step(e) \/ CallFails(e) \/ Crash(e)
    BY <1>12
  <2> QED BY <1>4, <1>5, <1>6, <1>7, <1>8, <1>9, <1>11, <2>1
<1> QED BY <1>3, <1>10, <1>12 DEF Next, Api

-----------------------------------------------------------------------------
(* What becomes of a delivery.                                             *)

\* The request of i needs no delivery any more.
Settled(i) ==
  record[i].intervention \in TerminalStates \/ "refused" \in record[i].audit

\* consume makes these calls only after a claim, its own or an earlier one.
ClaimedSteps == (InTry \ {"authorize", "claim"}) \cup {"halt", "safe_halt"}

\* The delivery Executor e handles was published; it is claimed where consume
\* takes it for claimed, and settled before the worker acknowledges it.
Delivering(e) ==
  pc[e] # "idle" =>
    /\ queue[job[e].inc].status # "none"
    /\ job[e].claimed \/ pc[e] \in ClaimedSteps => RecordOf(e).intervention # "none"
    /\ pc[e] = "ack" \/ (pc[e] = "release" /\ job[e].ack) => Settled(job[e].inc)

\* RunningIsPending, strengthened to be inductive.
DeliveryInvariant ==
  /\ \A i \in Incidents : queue[i].status = "acked" => Settled(i)
  /\ \A i \in Incidents : record[i].intervention # "none" =>
       record[i].approved /\ queue[i].status # "none"
  /\ \A e \in Executors : Delivering(e)

\* What a store operation never takes back.
LEMMA RecordGrows ==
  ASSUME NEW r \in Records(DeploymentState), NEW s, RecordStep(r, s)
  PROVE  /\ r.audit \subseteq s.audit
         /\ r.approved => s.approved
         /\ r.intervention # "none" => s.intervention # "none"
         /\ s.intervention # "none" => r.intervention # "none" \/ r.approved
<1> USE DEF Records
<1>1. CASE \E d \in DeploymentState : s = RecordPolicy(r, d)
  BY <1>1 DEF RecordPolicy
<1>2. CASE \E x \in Nat : s = RecordApproval(r, x)
  BY <1>2 DEF RecordApproval
<1>3. CASE CanRecordIntervention(r, r.version) /\ s = RecordIntervention(r)
  BY <1>3 DEF CanRecordIntervention, RecordIntervention
<1>4. CASE \E t \in TerminalStates : CanUpdateIntervention(r, t) /\ s = UpdateIntervention(r, t)
  BY <1>4 DEF CanUpdateIntervention, UpdateIntervention, TerminalStates
<1>5. CASE s = CloseIncident(r)
  BY <1>5 DEF CloseIncident
<1>6. CASE s = AppendEvidence(r)
  BY <1>6 DEF AppendEvidence
<1>7. CASE \E t \in AuditTypes : s = AppendAudit(r, t)
  BY <1>7 DEF AppendAudit
<1> QED BY <1>1, <1>2, <1>3, <1>4, <1>5, <1>6, <1>7 DEF RecordStep

\* No step takes it back either.
LEMMA RecordsGrow ==
  ASSUME TypeOK, [Next]_vars, NEW i \in Incidents
  PROVE  /\ Settled(i) => Settled(i)'
         /\ record[i].approved => record'[i].approved
         /\ record[i].intervention # "none" => record'[i].intervention # "none"
         /\ record'[i].intervention # "none" =>
              record[i].intervention # "none" \/ record[i].approved
<1>1. record[i] \in Records(DeploymentState)
  BY DEF TypeOK
<1>2. record'[i] = record[i] \/ RecordStep(record[i], record'[i])
  BY RecordsChange DEF RecordsStep, WriteRecord, TypeOK
<1>3. CASE record'[i] = record[i]
  BY <1>3 DEF Settled
<1>4. CASE RecordStep(record[i], record'[i])
  BY <1>1, <1>4, RecordGrows, FinalRecord DEF Settled
<1> QED BY <1>2, <1>3, <1>4

\* An Intervention begins with the claim of an Executor.
LEMMA ClaimBegins ==
  ASSUME TypeOK, [Next]_vars, NEW i \in Incidents,
         record[i].intervention = "none", record'[i].intervention # "none"
  PROVE  \E e \in Executors : Claim(e) /\ job[e].inc = i
<1>1. /\ record \in [Incidents -> Records(DeploymentState)]
      /\ \A j \in Incidents : record[j] \in Records(DeploymentState)
  BY DEF TypeOK
<1>2. ~ SameDecided(record[i], record'[i])
  BY DEF SameDecided, Decided
<1>3. ASSUME NEW j \in Incidents, NEW s, WriteRecord(j, s)
      PROVE  j = i /\ s.intervention # "none"
  BY <1>1, <1>3 DEF WriteRecord
<1>4. ASSUME NEW j \in Incidents, NEW s, WriteRecord(j, s)
      PROVE  s.intervention # record[j].intervention
  BY <1>3, <1>4
<1>5. ASSUME NEW j \in Incidents
      PROVE  /\ ~ PolicyPasses(j)
             /\ \A left \in 0..ReviewTTL : ~ Approve(j, left)
  <2> DEFINE d == deployment[Target[j]]
  <2>1. record[j] \in Records(DeploymentState)
    BY <1>1
  <2>2. RecordPolicy(record[j], d).intervention = record[j].intervention
    BY <2>1, PolicyDecides DEF Decided
  <2>3. \A x : RecordApproval(record[j], x).intervention = record[j].intervention
    BY <2>1, ApprovalDecides DEF Decided
  <2> QED BY <1>4, <2>2, <2>3 DEF PolicyPasses, Approve
<1>6. ASSUME NEW e \in Executors, NEW t, Settles(e, t)
      PROVE  FALSE
  <2>1. job[e].inc \in Incidents /\ RecordOf(e) \in Records(DeploymentState)
    BY <1>6, WorkingTypes DEF Settles, RecordTerminal, SafeHalt, TerminalStateAt
  <2> QED BY <1>3, <1>6, <2>1 DEF Settles, CanUpdateIntervention, RecordOf
<1>7. ASSUME NEW e \in Executors, Claims(e)
      PROVE  Claim(e) /\ job[e].inc = i
  <2>1. job[e].inc \in Incidents
    BY <1>7, WorkingTypes DEF Claims, Claim
  <2> QED BY <1>3, <1>7, <2>1 DEF Claims
<1> QED BY <1>2, <1>5, <1>6, <1>7, DecidedStep

\* A message that was published stays, and is acknowledged by an Executor.
LEMMA QueueStep ==
  ASSUME TypeOK, [Next]_vars, NEW i \in Incidents
  PROVE  /\ queue[i].status # "none" => queue'[i].status # "none"
         /\ queue'[i].status = "acked" =>
              \/ queue[i].status = "acked"
              \/ \E e \in Executors : pc[e] = "ack" /\ job[e].inc = i
<1>1. queue \in [Incidents -> Message] /\ queue[i] \in Message
  BY DEF TypeOK
<1>2. ASSUME NEW j \in Incidents, Publish(j)
      PROVE  /\ queue[i].status # "none" => queue'[i].status # "none"
             /\ queue'[i].status = "acked" => queue[i].status = "acked"
  BY <1>1, <1>2 DEF Publish, Message
<1>3. ASSUME NEW e \in Executors, NEW j \in Incidents, Pull(e, j)
      PROVE  /\ queue[i].status # "none" => queue'[i].status # "none"
             /\ queue'[i].status = "acked" => queue[i].status = "acked"
  BY <1>1, <1>3 DEF Pull, Message
<1>4. ASSUME NEW e \in Executors, Acknowledge(e)
      PROVE  /\ queue[i].status # "none" => queue'[i].status # "none"
             /\ queue'[i].status = "acked" =>
                  queue[i].status = "acked" \/ (pc[e] = "ack" /\ job[e].inc = i)
  BY <1>1, <1>4 DEF Acknowledge, Message
<1>5. CASE UNCHANGED queue
  BY <1>5
<1>6. ASSUME NEW e \in Executors, SafeHalt(e)
      PROVE  /\ queue[i].status # "none" => queue'[i].status # "none"
             /\ queue'[i].status = "acked" => queue[i].status = "acked"
  BY <1>1, <1>6 DEF SafeHalt, Message
<1>7. ASSUME NEW e \in Executors, Step(e) \/ CallFails(e) \/ Crash(e)
      PROVE  \/ UNCHANGED queue \/ Acknowledge(e) \/ SafeHalt(e)
             \/ \E j \in Incidents : Pull(e, j)
  BY <1>7
  DEF Step, ReadRecord, AcquireRefused, AcquireRead, AcquireCommit, Authorize,
      Claim, Validate, PolicyRejects, RenewLease, Apply, RecordMutation,
      VerifySucceeded, VerifyFailed, VerifyAmbiguous, RecordTerminal,
      RestoreInspect, RestorePolicy, RestoreApply, RestoreRecord, RestoreVerify,
      Halt, Refuse, ReleaseLease, CallFails, Crash
<1>8. CASE \/ UNCHANGED vars \/ Tick \/ \E w \in Workloads : ExternalWrite(w)
           \/ \E j \in Incidents : Api(j)
  BY <1>2, <1>5, <1>8 DEF vars, Tick, ExternalWrite, Api, PolicyPasses, Approve, Close,
                          QueryEvidence
<1> QED BY <1>3, <1>4, <1>5, <1>6, <1>7, <1>8 DEF Next

\* The Executor that takes a step knows what it needs of its delivery.
LEMMA DeliveringSelf ==
  ASSUME TypeOK, DeliveryInvariant, [Next]_vars, NEW e \in Executors,
         Step(e) \/ CallFails(e) \/ Crash(e)
  PROVE  Delivering(e)'
<1>1. /\ pc \in [Executors -> Steps] /\ job \in [Executors -> Job] /\ job[e] \in Job
      /\ queue \in [Incidents -> Message] /\ record \in [Incidents -> Records(DeploymentState)]
  BY DEF TypeOK
<1>2. ASSUME NEW i \in Incidents, Pull(e, i)
      PROVE  Delivering(e)'
  <2>1. job' = [job EXCEPT ![e] = [NoJob EXCEPT !.inc = i, !.now = clock,
                                                !.ackBy = clock + AckDeadline]]
    BY <1>2 DEF Pull
  <2>2. job'[e].inc = i /\ job'[e].claimed = FALSE
    BY <1>1, <2>1 DEF NoJob
  <2>3. queue'[i].status # "none"
    BY <1>2, QueueStep DEF Pull
  <2>4. pc'[e] = "read"
    BY <1>1, <1>2 DEF Pull, Goto
  <2> QED BY <2>2, <2>3, <2>4 DEF Delivering, ClaimedSteps, InTry
<1>3. ASSUME pc[e] # "idle", GoesOn(e)
      PROVE  Delivering(e)'
  <2> PICK i \in Incidents : job[e].inc = i
    BY <1>1, <1>3, WorkingTypes
  <2>1. /\ i \in Incidents /\ job'[e].inc = i /\ job[e].inc = i
        /\ record[i] \in Records(DeploymentState)
    BY <1>1, <1>3 DEF GoesOn
  <2>2. queue'[i].status # "none"
    BY <1>3, <2>1, QueueStep DEF DeliveryInvariant, Delivering
  <2>3. job'[e].claimed \/ pc'[e] \in ClaimedSteps => record'[i].intervention # "none"
    <3> SUFFICES ASSUME record[i].intervention = "none", record'[i].intervention = "none"
                 PROVE  ~ job'[e].claimed /\ pc'[e] \notin ClaimedSteps
      BY <2>1, RecordsGrow
    <3>1. ~ job[e].claimed /\ pc[e] \notin ClaimedSteps
      BY <1>3 DEF DeliveryInvariant, Delivering, RecordOf
    <3>2. CASE ReadRecord(e)
      <4>1. job'[e].claimed = FALSE
        BY <1>1, <3>2 DEF ReadRecord, RecordOf, Job
      <4> QED BY <1>1, <3>2, <4>1 DEF ReadRecord, Goto, ClaimedSteps, InTry
    <3>3. CASE Claim(e)
      <4>1. RecordIntervention(record[i]).intervention = "running"
        BY <2>1 DEF RecordIntervention, Records
      <4>2. ~ CanRecordIntervention(RecordOf(e), job[e].version)
        BY <1>1, <2>1, <3>3, <4>1 DEF Claim, WriteRecord, RecordOf
      <4> QED BY <1>1, <3>1, <3>3, <4>2 DEF Claim, Goto, ClaimedSteps, InTry
    <3>4. CASE ~ ReadRecord(e) /\ ~ Claim(e)
      <4>1. job'[e].claimed = job[e].claimed
        BY <1>3, <3>4 DEF GoesOn
      <4>2. \/ AcquireRefused(e) \/ AcquireRead(e) \/ AcquireCommit(e) \/ Authorize(e)
            \/ Refuse(e) \/ ReleaseLease(e) \/ Acknowledge(e) \/ CallFails(e) \/ Crash(e)
        BY <1>3, <3>1, <3>4
        DEF Step, Pull, Validate, PolicyRejects, RenewLease, Apply, RecordMutation,
            VerifySucceeded, VerifyFailed, VerifyAmbiguous, RecordTerminal,
            RestoreInspect, RestorePolicy, RestoreApply, RestoreRecord, RestoreVerify,
            Halt, SafeHalt, ClaimedSteps, InTry, TerminalStateAt
      <4>3. pc'[e] \notin ClaimedSteps
        BY <1>1, <3>1, <4>2
        DEF AcquireRefused, AcquireRead, AcquireCommit, Authorize, Refuse,
            ReleaseLease, Acknowledge, CallFails, Crash, Goto, Finish, OnError,
            ClaimedSteps, InTry, BeforeTry, InHandler
      <4> QED BY <3>1, <4>1, <4>3
    <3> QED BY <3>2, <3>3, <3>4
  <2>4. pc'[e] = "ack" \/ (pc'[e] = "release" /\ job'[e].ack) => Settled(i)'
    <3> SUFFICES ASSUME pc'[e] \in {"ack", "release"}, job'[e].ack \/ pc'[e] = "ack"
                 PROVE  Settled(i)'
      OBVIOUS
    <3>1. CASE Settled(i)
      BY <2>1, <3>1, RecordsGrow
    <3>2. CASE ReadRecord(e)
      <4>1. Settled(i)
        BY <1>1, <3>2 DEF ReadRecord, Goto, RecordOf, Settled
      <4> QED BY <3>1, <4>1
    <3>3. CASE AcquireRefused(e) \/ Refuse(e)
      <4>1. record'[i] = AppendAudit(record[i], "refused")
        BY <1>1, <2>1, <3>3 DEF AcquireRefused, Refuse, WriteRecord, RecordOf
      <4>2. "refused" \in record'[i].audit
        BY <2>1, <4>1 DEF AppendAudit, Records
      <4> QED BY <4>2 DEF Settled
    <3>4. CASE RecordTerminal(e)
      <4>1. CanUpdateIntervention(RecordOf(e), TerminalStateAt[pc[e]])
        BY <1>1, <3>4 DEF RecordTerminal, Goto
      <4>2. record'[i] = UpdateIntervention(record[i], TerminalStateAt[pc[e]])
        BY <1>1, <2>1, <3>4, <4>1 DEF RecordTerminal, WriteRecord, RecordOf
      <4>3. record'[i].intervention = TerminalStateAt[pc[e]]
        BY <2>1, <4>2 DEF UpdateIntervention, Records
      <4> QED BY <4>1, <4>3 DEF CanUpdateIntervention, Settled
    <3>5. CASE Halt(e)
      <4>1. record[i].intervention \notin {"none", "running"}
        BY <1>1, <1>3, <3>5
        DEF Halt, Goto, RecordOf, DeliveryInvariant, Delivering, ClaimedSteps
      <4> QED BY <2>1, <3>1, <4>1 DEF Settled, TerminalStates, Records
    <3>6. CASE SafeHalt(e)
      <4>1. CanUpdateIntervention(RecordOf(e), "safe_halted")
        BY <1>1, <3>6 DEF SafeHalt, Goto, Job
      <4>2. record'[i] = UpdateIntervention(record[i], "safe_halted")
        BY <1>1, <2>1, <3>6, <4>1 DEF SafeHalt, WriteRecord, RecordOf
      <4>3. record'[i].intervention = "safe_halted"
        BY <2>1, <4>2 DEF UpdateIntervention, Records
      <4> QED BY <4>1, <4>3 DEF CanUpdateIntervention, Settled
    <3>7. CASE ReleaseLease(e)
      <4>1. pc[e] = "release" /\ job[e].ack
        BY <1>1, <3>7 DEF ReleaseLease, Goto, Finish
      <4> QED BY <1>3, <3>1, <4>1 DEF DeliveryInvariant, Delivering
    <3>8. CASE CallFails(e)
      <4>1. job'[e].ack = FALSE
        BY <1>1, <3>8 DEF CallFails, Goto, Finish, OnError, Job
      <4>2. pc'[e] # "ack"
        BY <1>1, <3>8 DEF CallFails, Goto, Finish, OnError
      <4> QED BY <4>1, <4>2
    <3>9. CASE \/ AcquireRead(e) \/ AcquireCommit(e) \/ Authorize(e) \/ Claim(e)
               \/ Validate(e) \/ PolicyRejects(e) \/ RenewLease(e) \/ Apply(e)
               \/ RecordMutation(e) \/ VerifySucceeded(e) \/ VerifyFailed(e)
               \/ VerifyAmbiguous(e) \/ RestoreInspect(e) \/ RestorePolicy(e)
               \/ RestoreApply(e) \/ RestoreRecord(e) \/ RestoreVerify(e)
               \/ Acknowledge(e) \/ Crash(e)
      BY <1>1, <3>9
      DEF AcquireRead, AcquireCommit, Authorize, Claim, Validate, PolicyRejects,
          RenewLease, Apply, RecordMutation, VerifySucceeded, VerifyFailed,
          VerifyAmbiguous, RestoreInspect, RestorePolicy, RestoreApply, RestoreRecord,
          RestoreVerify, Acknowledge, Crash, Reply, Goto, Finish, OnError
    <3> QED BY <1>3, <3>2, <3>3, <3>4, <3>5, <3>6, <3>7, <3>8, <3>9 DEF Step, Pull
  <2> QED BY <2>1, <2>2, <2>3, <2>4 DEF Delivering, RecordOf, Settled
<1>4. CASE pc'[e] = "idle"
  BY <1>4 DEF Delivering
<1>5. CASE Crash(e)
  BY <1>1, <1>5 DEF Crash, Finish, Goto, Delivering
<1>6. CASE pc[e] = "idle" /\ ~ Crash(e) /\ \A i \in Incidents : ~ Pull(e, i)
  BY <1>6 DEF Step, ReadRecord, AcquireRefused, AcquireRead, AcquireCommit,
     Authorize, Claim, Validate, PolicyRejects, RenewLease, Apply, RecordMutation,
     VerifySucceeded, VerifyFailed, VerifyAmbiguous, RecordTerminal,
     RestoreInspect, RestorePolicy, RestoreApply, RestoreRecord, RestoreVerify,
     Halt, SafeHalt, Refuse, ReleaseLease, Acknowledge, CallFails,
     TerminalStateAt, BeforeTry, InTry, InHandler
<1> QED BY <1>2, <1>3, <1>4, <1>5, <1>6, JobSteps

\* The others still know it.
LEMMA DeliveringOthers ==
  ASSUME TypeOK, DeliveryInvariant, [Next]_vars, NEW f \in Executors,
         pc'[f] = pc[f], job'[f] = job[f]
  PROVE  Delivering(f)'
<1>1. CASE pc[f] = "idle"
  BY <1>1 DEF Delivering
<1>2. CASE pc[f] # "idle"
  <2>1. PICK i \in Incidents : job[f].inc = i
    BY <1>2, WorkingTypes
  <2>2. Delivering(f)
    BY DEF DeliveryInvariant
  <2>3. /\ queue[i].status # "none" => queue'[i].status # "none"
        /\ Settled(i) => Settled(i)'
        /\ record[i].intervention # "none" => record'[i].intervention # "none"
    BY RecordsGrow, QueueStep
  <2> QED BY <2>1, <2>2, <2>3 DEF Delivering, RecordOf, Settled
<1> QED BY <1>1, <1>2

LEMMA NextDelivery == TypeOK /\ DeliveryInvariant /\ [Next]_vars => DeliveryInvariant'
<1> SUFFICES ASSUME TypeOK, DeliveryInvariant, [Next]_vars PROVE DeliveryInvariant'
  OBVIOUS
<1>1. ASSUME NEW i \in Incidents, queue'[i].status = "acked"
      PROVE  Settled(i)'
  <2>1. Settled(i)
    BY <1>1, QueueStep DEF DeliveryInvariant, Delivering
  <2> QED BY <2>1, RecordsGrow
<1>2. ASSUME NEW i \in Incidents, record'[i].intervention # "none"
      PROVE  record'[i].approved /\ queue'[i].status # "none"
  <2>1. CASE record[i].intervention # "none"
    BY <2>1, RecordsGrow, QueueStep DEF DeliveryInvariant
  <2>2. CASE record[i].intervention = "none"
    <3>1. PICK e \in Executors : Claim(e) /\ job[e].inc = i
      BY <1>2, <2>2, ClaimBegins
    <3>2. queue[i].status # "none"
      BY <3>1 DEF Claim, DeliveryInvariant, Delivering
    <3> QED BY <1>2, <2>2, <3>2, RecordsGrow, QueueStep
  <2> QED BY <2>1, <2>2
<1>3. ASSUME NEW f \in Executors
      PROVE  Delivering(f)'
  <2>1. CASE \E e \in Executors : Step(e) \/ CallFails(e) \/ Crash(e)
    <3>1. PICK e \in Executors : Step(e) \/ CallFails(e) \/ Crash(e)
      BY <2>1
    <3>2. CASE f = e
      BY <3>1, <3>2, DeliveringSelf
    <3>3. CASE f # e
      BY <3>1, <3>3, OthersStay, DeliveringOthers
    <3> QED BY <3>2, <3>3
  <2>2. CASE ~ \E e \in Executors : Step(e) \/ CallFails(e) \/ Crash(e)
    <3>1. UNCHANGED <<pc, job>>
      BY <2>2 DEF Next, Tick, ExternalWrite, Api, PolicyPasses, Approve, Publish, Close,
                  QueryEvidence, vars
    <3> QED BY <3>1, DeliveringOthers
  <2> QED BY <2>1, <2>2
<1> QED BY <1>1, <1>2, <1>3 DEF DeliveryInvariant, Settled

LEMMA DeliveryInvariantAlways == Spec => []DeliveryInvariant
<1>1. Init => DeliveryInvariant
  BY DEF Init, DeliveryInvariant, Delivering, NoMessage, InitialRecord
<1> QED BY <1>1, NextDelivery, TypeCorrect, PTL DEF Spec

\* What becomes of the delivery attempts.  Each is at an Executor, or it met a
\* fault, or it is counted as unheard, and those only waste what is settled.
AttemptsInvariant ==
  \A i \in Incidents :
    /\ IsFiniteSet(Holding(i))
    /\ queue[i].status # "acked" =>
         queue[i].attempts <= faults + queue[i].unheard + Cardinality(Holding(i))
    /\ queue[i].unheard > 0 => Settled(i)
    /\ record[i].intervention \in {"none", "running"} => record[i].outcome = "not_started"

\* Until an Intervention is settled nothing gives its Incident an outcome.
LEMMA OutcomeBegins ==
  ASSUME TypeOK, [Next]_vars, NEW i \in Incidents,
         record[i].intervention \in {"none", "running"} => record[i].outcome = "not_started",
         record'[i].intervention \in {"none", "running"}
  PROVE  record'[i].outcome = "not_started"
<1> DEFINE r == record[i]
           s == record'[i]
<1>1. r \in Records(DeploymentState)
  BY DEF TypeOK
<1>2. s = r \/ RecordStep(r, s)
  BY RecordsChange DEF RecordsStep, WriteRecord, TypeOK
<1>3. CASE s = r
  BY <1>3
<1>4. CASE RecordStep(r, s)
  <2> HIDE DEF r, s
  <2> SUFFICES r.intervention \in {"none", "running"} /\ s.outcome = r.outcome
    BY DEF r, s
  <2>1. s.intervention \in {"none", "running"}
    BY DEF s
  <2> USE <1>1 DEF Records
  <2>2. CASE \E d \in DeploymentState : s = RecordPolicy(r, d)
    BY <2>1, <2>2 DEF RecordPolicy
  <2>3. CASE \E x \in Nat : s = RecordApproval(r, x)
    BY <2>1, <2>3 DEF RecordApproval
  <2>4. CASE CanRecordIntervention(r, r.version) /\ s = RecordIntervention(r)
    BY <2>1, <2>4 DEF CanRecordIntervention, RecordIntervention
  <2>5. CASE \E t \in TerminalStates : CanUpdateIntervention(r, t) /\ s = UpdateIntervention(r, t)
    BY <2>1, <2>5 DEF CanUpdateIntervention, UpdateIntervention, TerminalStates
  <2>6. CASE s = CloseIncident(r) \/ s = AppendEvidence(r)
    BY <2>1, <2>6 DEF CloseIncident, AppendEvidence
  <2>7. CASE \E t \in AuditTypes : s = AppendAudit(r, t)
    BY <2>1, <2>7 DEF AppendAudit
  <2> QED BY <1>4, <2>2, <2>3, <2>4, <2>5, <2>6, <2>7 DEF RecordStep
<1> QED BY <1>2, <1>3, <1>4

\* An Executor that gives up without a fault found the Intervention settled.
LEMMA UnheardIsSettled ==
  ASSUME TypeOK, DeliveryInvariant, AttemptsInvariant, NEW e \in Executors,
         pc[e] = "ack" \/ (pc[e] = "safe_halt"
                           /\ ~ CanUpdateIntervention(RecordOf(e), "safe_halted"))
  PROVE  Settled(job[e].inc)
<1> PICK i \in Incidents : job[e].inc = i
  BY WorkingTypes
<1>1. CASE pc[e] = "ack"
  BY <1>1 DEF DeliveryInvariant, Delivering
<1>2. CASE pc[e] = "safe_halt" /\ ~ CanUpdateIntervention(RecordOf(e), "safe_halted")
  <2>1. record[i] \in Records(DeploymentState)
    BY DEF TypeOK
  <2>2. record[i].intervention # "none"
    BY <1>2 DEF DeliveryInvariant, Delivering, ClaimedSteps, RecordOf
  <2>3. ASSUME record[i].intervention = "running"
        PROVE  FALSE
    <3>1. record[i].outcome = "not_started"
      BY <2>3 DEF AttemptsInvariant
    <3>2. CanTransition(record[i], record[i].lifecycle, "safe_halted")
      BY <3>1 DEF CanTransition, InterventionOutcomeTransitions
    <3> QED BY <1>2, <2>3, <3>2 DEF CanUpdateIntervention, TerminalStates,
            InterventionStates, LifecycleAfter, OutcomeAfter, RecordOf
  <2> QED BY <2>1, <2>2, <2>3 DEF Settled, TerminalStates, Records
<1> QED BY <1>1, <1>2

\* Only deliveries of what is settled are counted as unheard.
LEMMA UnheardGrows ==
  ASSUME TypeOK, NEW e \in Executors, Step(e) \/ CallFails(e) \/ Crash(e),
         DeliveryInvariant, AttemptsInvariant, NEW i \in Incidents
  PROVE  queue'[i].unheard = queue[i].unheard \/ Settled(i)
<1>1. /\ queue \in [Incidents -> Message] /\ queue[i] \in Message
  BY DEF TypeOK
<1>2. ASSUME NEW j \in Incidents, Pull(e, j)
      PROVE  queue'[i].unheard = queue[i].unheard
  BY <1>1, <1>2 DEF Pull, Message
<1>3. CASE Acknowledge(e)
  <2>1. Settled(job[e].inc) /\ job[e].inc \in Incidents
    BY <1>3, UnheardIsSettled, WorkingTypes DEF Acknowledge
  <2> QED BY <1>1, <1>3, <2>1 DEF Acknowledge, Message
<1>4. CASE SafeHalt(e)
  <2>1. job[e].inc \in Incidents
    BY <1>4, WorkingTypes DEF SafeHalt
  <2>2. CASE CanUpdateIntervention(RecordOf(e), "safe_halted")
    BY <1>4, <2>2 DEF SafeHalt
  <2>3. CASE ~ CanUpdateIntervention(RecordOf(e), "safe_halted")
    <3>1. Settled(job[e].inc)
      BY <1>4, <2>3, UnheardIsSettled DEF SafeHalt
    <3> QED BY <1>1, <1>4, <2>1, <3>1 DEF SafeHalt, Message
  <2> QED BY <2>2, <2>3
<1>5. CASE ~ Acknowledge(e) /\ ~ SafeHalt(e) /\ \A j \in Incidents : ~ Pull(e, j)
  BY <1>5
  DEF Step, ReadRecord, AcquireRefused, AcquireRead, AcquireCommit, Authorize,
      Claim, Validate, PolicyRejects, RenewLease, Apply, RecordMutation,
      VerifySucceeded, VerifyFailed, VerifyAmbiguous, RecordTerminal,
      RestoreInspect, RestorePolicy, RestoreApply, RestoreRecord, RestoreVerify,
      Halt, Refuse, ReleaseLease, CallFails, Crash
<1> QED BY <1>2, <1>3, <1>4, <1>5

\* What a step of Executor e does to the delivery attempts of i.
LEMMA DeliveryCounts ==
  ASSUME TypeOK, NEW e \in Executors, Step(e) \/ CallFails(e) \/ Crash(e),
         NEW i \in Incidents
  PROVE  \/ queue'[i].status = "acked"
         \/ /\ queue'[i].attempts = queue[i].attempts + 1
            /\ queue'[i].unheard = queue[i].unheard
            /\ queue[i].status # "acked" /\ faults' = faults
            /\ e \in Holding(i)' /\ e \notin Holding(i)
         \/ /\ queue'[i] = [queue[i] EXCEPT !.unheard = @ + 1]
            /\ faults' = faults /\ job[e].inc = i
            /\ \/ pc[e] = "ack"
               \/ /\ pc[e] = "safe_halt"
                  /\ ~ CanUpdateIntervention(RecordOf(e), "safe_halted")
         \/ queue'[i] = queue[i] /\ faults' = faults + 1
         \/ /\ queue'[i] = queue[i] /\ faults' = faults
            /\ e \in Holding(i) => e \in Holding(i)'
<1>1. /\ pc \in [Executors -> Steps] /\ job \in [Executors -> Job] /\ job[e] \in Job
      /\ queue \in [Incidents -> Message] /\ queue[i] \in Message
  BY DEF TypeOK
<1>2. ASSUME NEW j \in Incidents, Pull(e, j)
      PROVE  \/ /\ queue'[i].attempts = queue[i].attempts + 1
                /\ queue'[i].unheard = queue[i].unheard
                /\ queue[i].status # "acked" /\ faults' = faults
                /\ e \in Holding(i)' /\ e \notin Holding(i)
             \/ /\ queue'[i] = queue[i] /\ faults' = faults
                /\ e \notin Holding(i)
  <2>1. e \notin Holding(i) /\ faults' = faults
    BY <1>2 DEF Pull, Holding
  <2>2. CASE j # i
    BY <1>1, <1>2, <2>1, <2>2 DEF Pull
  <2>3. CASE j = i
    <3>1. job'[e] = [NoJob EXCEPT !.inc = i, !.now = clock, !.ackBy = clock + AckDeadline]
      BY <1>1, <1>2, <2>3 DEF Pull
    <3>2. pc'[e] = "read" /\ job'[e].inc = i /\ job'[e].ack
      BY <1>1, <1>2, <3>1 DEF Pull, Goto, NoJob
    <3>3. /\ queue'[i].attempts = queue[i].attempts + 1
          /\ queue'[i].unheard = queue[i].unheard /\ queue[i].status # "acked"
      BY <1>1, <1>2, <2>3 DEF Pull, Message
    <3> QED BY <2>1, <3>2, <3>3 DEF Holding
  <2> QED BY <2>2, <2>3
<1>3. CASE Acknowledge(e)
  <2>1. job[e].inc \in Incidents /\ pc[e] = "ack" /\ faults' = faults
    BY <1>3, WorkingTypes DEF Acknowledge
  <2>2. CASE job[e].inc = i
    BY <1>1, <1>3, <2>1, <2>2 DEF Acknowledge, Message
  <2>3. CASE job[e].inc # i
    BY <1>1, <1>3, <2>1, <2>3 DEF Acknowledge, Holding
  <2> QED BY <2>2, <2>3
<1>4. CASE SafeHalt(e)
  <2>1. job[e].inc \in Incidents /\ pc[e] = "safe_halt"
    BY <1>4, WorkingTypes DEF SafeHalt
  <2>2. CASE CanUpdateIntervention(RecordOf(e), "safe_halted")
    <3>1. queue' = queue /\ (faults' = faults + 1 \/ (faults' = faults /\ job' = job))
      BY <1>4, <2>2 DEF SafeHalt, Fault
    <3>2. pc'[e] = "release"
      BY <1>1, <1>4 DEF SafeHalt, Goto
    <3> QED BY <3>1, <3>2 DEF Holding
  <2>3. CASE ~ CanUpdateIntervention(RecordOf(e), "safe_halted")
    <3>1. faults' = faults /\ queue' = [queue EXCEPT ![job[e].inc].unheard = @ + 1]
      BY <1>4, <2>3 DEF SafeHalt
    <3>2. CASE job[e].inc = i
      BY <1>1, <2>1, <2>3, <3>1, <3>2
    <3>3. CASE job[e].inc # i
      BY <1>1, <2>1, <3>1, <3>3 DEF Holding
    <3> QED BY <3>2, <3>3
  <2> QED BY <2>2, <2>3
<1>5. CASE CallFails(e) \/ Crash(e)
  BY <1>5 DEF CallFails, Crash, Fault
<1>6. CASE ReleaseLease(e)
  <2>1. queue' = queue /\ faults' = faults
    BY <1>6 DEF ReleaseLease
  <2>2. CASE job[e].ack
    BY <1>1, <1>6, <2>1, <2>2 DEF ReleaseLease, Goto, Holding
  <2>3. CASE ~ job[e].ack
    BY <2>1, <2>3 DEF Holding
  <2> QED BY <2>2, <2>3
<1>7. CASE /\ ~ Acknowledge(e) /\ ~ SafeHalt(e) /\ ~ CallFails(e) /\ ~ Crash(e)
           /\ ~ ReleaseLease(e) /\ \A j \in Incidents : ~ Pull(e, j)
  <2>1. queue' = queue /\ (faults' = faults \/ faults' = faults + 1)
    BY <1>7
    DEF Step, ReadRecord, AcquireRefused, AcquireRead, AcquireCommit, Authorize,
        Claim, Validate, PolicyRejects, RenewLease, Apply, RecordMutation,
        VerifySucceeded, VerifyFailed, VerifyAmbiguous, RecordTerminal,
        RestoreInspect, RestorePolicy, RestoreApply, RestoreRecord, RestoreVerify,
        Halt, Refuse, Reply, Fault
  <2>2. pc'[e] # "idle" /\ pc[e] # "idle"
    BY <1>1, <1>7
    DEF Step, ReadRecord, AcquireRefused, AcquireRead, AcquireCommit, Authorize,
        Claim, Validate, PolicyRejects, RenewLease, Apply, RecordMutation,
        VerifySucceeded, VerifyFailed, VerifyAmbiguous, RecordTerminal,
        RestoreInspect, RestorePolicy, RestoreApply, RestoreRecord, RestoreVerify,
        Halt, Refuse, Reply, Goto, OnError, TerminalStateAt
  <2>3. GoesOn(e)
    BY <2>2, JobSteps
  <2>4. faults' = faults => job'[e].inc = job[e].inc /\ job'[e].ack = job[e].ack
    <3>1. faults \in Nat
      BY DEF TypeOK
    <3> QED BY <1>7, <2>3, <3>1 DEF GoesOn
  <2> QED BY <2>1, <2>2, <2>4 DEF Holding
<1> QED BY <1>2, <1>3, <1>4, <1>5, <1>6, <1>7

\* One Executor more or less.
LEMMA HoldingChanges ==
  ASSUME NEW S, NEW T, IsFiniteSet(S), NEW e, S \ {e} = T \ {e}
  PROVE  /\ IsFiniteSet(T) /\ Cardinality(S) \in Nat /\ Cardinality(T) \in Nat
         /\ Cardinality(S) <= Cardinality(T) + 1
         /\ (e \in S => e \in T) => Cardinality(S) <= Cardinality(T)
         /\ e \in T /\ e \notin S => Cardinality(T) = Cardinality(S) + 1
<1>1. Cardinality(S) \in Nat
  BY FS_CardinalityType
<1>2. CASE e \in T
  <2>1. T = S \cup {e}
    BY <1>2
  <2>2. /\ IsFiniteSet(T)
        /\ Cardinality(T) = IF e \in S THEN Cardinality(S) ELSE Cardinality(S) + 1
    BY <2>1, FS_AddElement
  <2> QED BY <1>1, <1>2, <2>2
<1>3. CASE e \notin T
  <2>1. T = S \ {e}
    BY <1>3
  <2>2. /\ IsFiniteSet(T)
        /\ Cardinality(T) = IF e \in S THEN Cardinality(S) - 1 ELSE Cardinality(S)
    BY <2>1, FS_RemoveElement
  <2>3. Cardinality(T) \in Nat
    BY <2>2, FS_CardinalityType
  <2> QED BY <1>1, <1>3, <2>2, <2>3
<1> QED BY <1>2, <1>3

LEMMA NextAttempts ==
  TypeOK /\ DeliveryInvariant /\ AttemptsInvariant /\ [Next]_vars => AttemptsInvariant'
<1> SUFFICES ASSUME TypeOK, DeliveryInvariant, AttemptsInvariant, [Next]_vars,
                    NEW i \in Incidents
             PROVE  /\ IsFiniteSet(Holding(i)')
                    /\ queue'[i].status # "acked" =>
                         queue'[i].attempts
                           <= faults' + queue'[i].unheard + Cardinality(Holding(i)')
                    /\ queue'[i].unheard > 0 => Settled(i)'
                    /\ record'[i].intervention \in {"none", "running"} =>
                         record'[i].outcome = "not_started"
  BY DEF AttemptsInvariant, Settled, Holding
<1>1. /\ queue \in [Incidents -> Message] /\ queue[i].attempts \in Nat
      /\ queue[i] \in Message /\ queue[i].unheard \in Nat /\ faults \in Nat
  BY DEF TypeOK, Message
<1>2. /\ IsFiniteSet(Holding(i)) /\ Cardinality(Holding(i)) \in Nat
      /\ queue[i].status # "acked" =>
           queue[i].attempts <= faults + queue[i].unheard + Cardinality(Holding(i))
      /\ queue[i].unheard > 0 => Settled(i)
  BY FS_CardinalityType DEF AttemptsInvariant
<1>3. Settled(i) => Settled(i)'
  BY RecordsGrow
<1>4. record'[i].intervention \in {"none", "running"} => record'[i].outcome = "not_started"
  BY OutcomeBegins DEF AttemptsInvariant
<1>5. ASSUME NEW e \in Executors, Step(e) \/ CallFails(e) \/ Crash(e)
      PROVE  /\ IsFiniteSet(Holding(i)')
             /\ queue'[i].status # "acked" =>
                  queue'[i].attempts
                    <= faults' + queue'[i].unheard + Cardinality(Holding(i)')
             /\ queue'[i].unheard > 0 => Settled(i)'
  <2>1. Holding(i) \ {e} = Holding(i)' \ {e}
    BY <1>5, OthersStay DEF Holding
  <2> DEFINE S == Holding(i)
             T == Holding(i)'
  <2>2. /\ IsFiniteSet(T) /\ Cardinality(T) \in Nat
        /\ Cardinality(S) <= Cardinality(T) + 1
        /\ (e \in S => e \in T) => Cardinality(S) <= Cardinality(T)
        /\ e \in T /\ e \notin S => Cardinality(T) = Cardinality(S) + 1
    BY <1>2, <2>1, HoldingChanges
  <2>3. CASE queue'[i].status = "acked"
    <3>1. queue'[i].unheard = queue[i].unheard \/ Settled(i)
      BY <1>5, <2>3, UnheardGrows
    <3> QED BY <1>2, <1>3, <2>2, <2>3, <3>1
  <2>4. CASE /\ queue'[i].attempts = queue[i].attempts + 1
             /\ queue'[i].unheard = queue[i].unheard
             /\ queue[i].status # "acked" /\ faults' = faults
             /\ e \in T /\ e \notin S
    <3> HIDE DEF S, T
    <3>1. Cardinality(S) \in Nat
             /\ queue[i].attempts <= faults + queue[i].unheard + Cardinality(S)
      BY <1>2, <2>4 DEF S
    <3>2. queue'[i].attempts <= faults' + queue'[i].unheard + Cardinality(T)
      BY <1>1, <2>2, <2>4, <3>1
    <3> QED BY <1>2, <1>3, <2>2, <2>4, <3>2 DEF T
  <2>5. CASE /\ queue'[i] = [queue[i] EXCEPT !.unheard = @ + 1]
             /\ faults' = faults /\ job[e].inc = i
             /\ \/ pc[e] = "ack"
                \/ /\ pc[e] = "safe_halt"
                   /\ ~ CanUpdateIntervention(RecordOf(e), "safe_halted")
    <3> HIDE DEF S, T
    <3>1. /\ queue'[i].status = queue[i].status /\ queue'[i].attempts = queue[i].attempts
          /\ queue'[i].unheard = queue[i].unheard + 1
      BY <1>1, <2>5 DEF Message
    <3>2. Settled(i)'
      BY <1>3, <2>5, UnheardIsSettled
    <3>3. Cardinality(S) \in Nat /\ (queue[i].status # "acked" =>
             queue[i].attempts <= faults + queue[i].unheard + Cardinality(S))
      BY <1>2 DEF S
    <3>4. queue'[i].status # "acked" =>
            queue'[i].attempts <= faults' + queue'[i].unheard + Cardinality(T)
      BY <1>1, <2>2, <2>5, <3>1, <3>3
    <3> QED BY <2>2, <3>2, <3>4 DEF T
  <2>6. CASE queue'[i] = queue[i] /\ faults' = faults + 1
    <3> HIDE DEF S, T
    <3>1. Cardinality(S) \in Nat /\ (queue[i].status # "acked" =>
             queue[i].attempts <= faults + queue[i].unheard + Cardinality(S))
      BY <1>2 DEF S
    <3>2. queue'[i].status # "acked" =>
            queue'[i].attempts <= faults' + queue'[i].unheard + Cardinality(T)
      BY <1>1, <2>2, <2>6, <3>1
    <3> QED BY <1>2, <1>3, <2>2, <2>6, <3>2 DEF T
  <2>7. CASE queue'[i] = queue[i] /\ faults' = faults /\ (e \in S => e \in T)
    <3> HIDE DEF S, T
    <3>1. Cardinality(S) \in Nat /\ (queue[i].status # "acked" =>
             queue[i].attempts <= faults + queue[i].unheard + Cardinality(S))
      BY <1>2 DEF S
    <3>2. queue'[i].status # "acked" =>
            queue'[i].attempts <= faults' + queue'[i].unheard + Cardinality(T)
      BY <1>1, <2>2, <2>7, <3>1
    <3> QED BY <1>2, <1>3, <2>2, <2>7, <3>2 DEF T
  <2> HIDE DEF S, T
  <2> QED BY <1>5, <2>3, <2>4, <2>5, <2>6, <2>7, DeliveryCounts DEF S, T
<1>6. CASE ~ \E e \in Executors : Step(e) \/ CallFails(e) \/ Crash(e)
  <2>1. UNCHANGED <<pc, job, faults>>
    BY <1>6 DEF Next, Tick, ExternalWrite, Api, PolicyPasses, Approve, Publish, Close,
                QueryEvidence, vars
  <2>2. Holding(i)' = Holding(i)
    BY <2>1 DEF Holding
  <2>3. queue'[i] = queue[i] \/ (queue'[i].attempts = 0 /\ queue'[i].unheard = 0)
    BY <1>1, <1>6 DEF Next, Tick, ExternalWrite, Api, PolicyPasses, Approve, Publish, Close,
                      QueryEvidence, vars, NoMessage
  <2> QED BY <1>1, <1>2, <1>3, <1>4, <2>1, <2>2, <2>3
<1> QED BY <1>4, <1>5, <1>6

LEMMA AttemptsInvariantAlways == Spec => []AttemptsInvariant
<1>1. ASSUME Init
      PROVE  AttemptsInvariant
  <2>1. \A i \in Incidents : Holding(i) = {}
    BY <1>1 DEF Init, Holding
  <2>2. \A i \in Incidents : IsFiniteSet(Holding(i)) /\ Cardinality(Holding(i)) = 0
    BY <2>1, FS_EmptySet
  <2>3. faults = 0 /\ \A i \in Incidents : queue[i].attempts = 0 /\ queue[i].unheard = 0
    BY <1>1 DEF Init, NoMessage
  <2>4. \A i \in Incidents : record[i].outcome = "not_started"
    BY <1>1 DEF Init, InitialRecord
  <2> QED BY <2>2, <2>3, <2>4 DEF AttemptsInvariant
<1> QED BY <1>1, NextAttempts, TypeCorrect, DeliveryInvariantAlways, PTL DEF Spec

\* RunningIsPending for every number of Executors, of delivery attempts and of
\* faults: a worker acknowledges the request of a running Intervention only with
\* a refusal in its record, and only as many faults as there are attempts can
\* leave one that nobody handles and nobody will be sent again.
THEOREM RunningStaysPending == Spec => []RunningIsPending
<1>1. ASSUME TypeOK, DeliveryInvariant, AttemptsInvariant
      PROVE  RunningIsPending
  <2> SUFFICES ASSUME NEW i \in Incidents, record[i].intervention = "running",
                      "refused" \notin record[i].audit
               PROVE  /\ queue[i].status = "pending"
                      /\ \/ queue[i].attempts < MaxAttempts
                         \/ Holding(i) # {}
                         \/ faults >= MaxAttempts
    BY DEF RunningIsPending
  <2>1. ~ Settled(i)
    BY DEF Settled, TerminalStates
  <2>2. /\ queue[i] \in Message /\ queue[i].attempts \in Nat /\ queue[i].unheard \in Nat
        /\ faults \in Nat /\ MaxAttempts \in Nat
    BY <1>1, PipelineAssumption DEF TypeOK, Message
  <2>3. queue[i].status = "pending"
    BY <1>1, <2>1, <2>2 DEF DeliveryInvariant, Message
  <2>4. /\ queue[i].attempts <= faults + queue[i].unheard + Cardinality(Holding(i))
        /\ ~ queue[i].unheard > 0
    BY <1>1, <2>1, <2>3 DEF AttemptsInvariant
  <2>5. Holding(i) = {} => Cardinality(Holding(i)) = 0
    BY FS_EmptySet
  <2> QED BY <2>2, <2>3, <2>4, <2>5
<1> QED BY <1>1, TypeCorrect, DeliveryInvariantAlways, AttemptsInvariantAlways, PTL

-----------------------------------------------------------------------------
(* What the recorded outcome says of the Deployment.                       *)

ActionWrites(i) == {x \in writes : x.kind = "action" /\ x.inc = i}

RestoreWrites(i) == {x \in writes : x.kind = "restore" /\ x.inc = i}

\* The approved scale asks for the replicas that were there.
AsksNothing(i) ==
  /\ Action[i].type = "scale"
  /\ Action[i].replicas = record[i].policyState.replicas

\* The patch of i's action was accepted.
Applied(i) == record[i].approved /\ (ActionWrites(i) # {} \/ AsksNothing(i))

\* The calls after an accepted patch and up to the inverse one.
Applying == {"record_mutation", "verify", "restore_inspect", "restore_policy",
             "restore_renew", "restore_apply"}

\* Executor e had i's patch accepted and has not sent the inverse one.
Handles(e, i) == pc[e] \in Applying /\ job[e].inc = i

\* A Deployment still at the resourceVersion the policy saw is the one it saw.
PolicyStateIdentified(i) ==
  LET d == deployment[Target[i]] IN
  /\ record[i].policyState.rv <= d.rv
  /\ record[i].policyState.rv = d.rv => record[i].policyState = d

\* While an Executor may still undo a scale that changed the Deployment, no
\* other one may, and nobody has.
OneUndoes(i) ==
  ActionWrites(i) # {} =>
    \A e \in Executors : Handles(e, i) =>
      /\ RestoreWrites(i) = {}
      /\ \A f \in Executors : Handles(f, i) => f = e

\* SucceededWasApplied and RestoredAtMostOnce, strengthened to be inductive.
OutcomeInvariant ==
  /\ \A i \in Incidents : record[i].policy => PolicyStateIdentified(i)
  /\ \A i \in Incidents : record[i].intervention = "succeeded" => Applied(i)
  /\ \A x \in writes : x.kind = "restore" => x.inc \in Incidents /\ Applied(x.inc)
  /\ \A e \in Executors, i \in Incidents :
       Handles(e, i) \/ (pc[e] = "converged" /\ job[e].inc = i) => Applied(i)
  /\ \A i \in Incidents : OneUndoes(i)
  /\ RestoredAtMostOnce

\* The patch of an Executor whose resourceVersion is still current changes the
\* Deployment for the first time, unless the action asks for nothing.
LEMMA ApplyOutcome ==
  ASSUME TypeOK, ApplyInvariant, OutcomeInvariant, NEW e \in Executors, Apply(e),
         NEW i \in Incidents, job[e].inc = i
  PROVE  \/ UNCHANGED writes /\ pc'[e] = "halt"
         \/ /\ record[i].approved /\ ActionWrites(i) = {}
            /\ \/ AsksNothing(i) /\ UNCHANGED writes
               \/ ~ AsksNothing(i) /\ \E x : /\ x.kind = "action" /\ x.inc = i
                                          /\ writes' = writes \cup {x}
<1> DEFINE w == Target[i]
           d == deployment[w]
           x == [workload |-> w, inc |-> i, kind |-> "action",
                 from |-> d.rv, to |-> Patched(i, d).rv]
<1>1. /\ w \in Workloads /\ d \in DeploymentState /\ Action[i].replicas \in Nat
      /\ d.rv \in Nat /\ d.gen \in Nat
      /\ Action[i].type \in ActionTypes
      /\ pc \in [Executors -> Steps]
  BY PipelineAssumption DEF TypeOK, DeploymentState
<1>2. /\ record[i].approved /\ record[i].policy
      /\ job[e].patchRv = record[i].policyState.rv
  BY DEF Apply, ApplyInvariant, RecordOf
<1>3. CASE d.rv # job[e].patchRv
  BY <1>1, <1>3 DEF Apply, Goto
<1>4. CASE d.rv = job[e].patchRv
  <2>1. d = record[i].policyState
    BY <1>2, <1>4 DEF OutcomeInvariant, PolicyStateIdentified
  <2>2. ASSUME NEW a \in writes, a.kind = "action", a.inc = i
        PROVE  FALSE
    <3>1. a.from = d.rv /\ a.workload = w
      BY <1>2, <1>4, <2>2 DEF ApplyInvariant, WritesAreApproved
    <3>2. a.from < a.to /\ a.to <= d.rv /\ a.to \in Nat
      BY <3>1 DEF ApplyInvariant, TypeOK, Write
    <3> QED BY <1>1, <3>1, <3>2
  <2>3. ActionWrites(i) = {}
    BY <2>2 DEF ActionWrites
  <2>4. WriteDeployment(w, i, "action", Patched(i, d))
    BY <1>4 DEF Apply
  <2>5. CASE AsksNothing(i)
    <3>1. Patched(i, d) = d
      BY <2>1, <2>5 DEF AsksNothing, Patched, Scaled
    <3> QED BY <1>2, <2>3, <2>4, <2>5, <3>1 DEF WriteDeployment
  <2>6. CASE ~ AsksNothing(i)
    <3>1. Patched(i, d).gen = d.gen + 1
      BY <1>1, <2>1, <2>6 DEF AsksNothing, Patched, Scaled, NewTemplate, DeploymentState
    <3>2. writes' = writes \cup {x}
      BY <1>1, <2>4, <3>1 DEF WriteDeployment
    <3>3. x.kind = "action" /\ x.inc = i
      OBVIOUS
    <3> HIDE DEF x
    <3> QED BY <1>2, <2>3, <2>6, <3>2, <3>3
  <2> QED BY <2>5, <2>6
<1> QED BY <1>3, <1>4

\* The inverse patch of an Executor is its last.
LEMMA RestoreOutcome ==
  ASSUME TypeOK, NEW e \in Executors, RestoreApply(e),
         NEW i \in Incidents, job[e].inc = i
  PROVE  /\ Handles(e, i) /\ pc'[e] \notin Applying \cup {"converged"}
         /\ \/ UNCHANGED writes
            \/ \E x : /\ x.kind = "restore" /\ x.inc = i
                     /\ writes' = writes \cup {x}
<1>1. pc \in [Executors -> Steps]
  BY DEF TypeOK
<1>2. Handles(e, i) /\ pc'[e] \notin Applying \cup {"converged"}
  BY <1>1 DEF RestoreApply, Reply, Goto, OnError, Handles, Applying
<1> DEFINE d == Scaled(deployment[Target[i]], record[i].policyState.replicas)
           x == [workload |-> Target[i], inc |-> i, kind |-> "restore",
                 from |-> deployment[Target[i]].rv, to |-> d.rv]
<1>3. writes' = writes \/ writes' = writes \cup {x}
  BY DEF RestoreApply, WriteDeployment
<1>4. x.kind = "restore" /\ x.inc = i
  OBVIOUS
<1> HIDE DEF x
<1> QED BY <1>2, <1>3, <1>4

\* Nobody else adds to the history but other writers.
LEMMA HistoryGrows ==
  ASSUME TypeOK, [Next]_vars
  PROVE  /\ writes \subseteq writes'
         /\ \/ \E e \in Executors : Apply(e) \/ RestoreApply(e)
            \/ \A x \in writes' \ writes : x.kind = "external"
<1>1. DeploymentsStep
  BY ExternalDeployments, ExecutorDeployments
  DEF Next, Tick, Api, PolicyPasses, Approve, Publish, Close, QueryEvidence, vars,
      DeploymentsStep
<1>2. writes \subseteq writes'
  BY <1>1 DEF DeploymentsStep, WriteDeployment
<1>3. ASSUME NEW w \in Workloads, ExternalWrite(w)
      PROVE  \A x \in writes' \ writes : x.kind = "external"
  BY <1>3 DEF ExternalWrite, WriteDeployment
<1>4. ASSUME NEW e \in Executors, Step(e) \/ CallFails(e) \/ Crash(e)
      PROVE  UNCHANGED writes \/ Apply(e) \/ RestoreApply(e)
  BY <1>4
  DEF Step, Pull, ReadRecord, AcquireRefused, AcquireRead, AcquireCommit,
      Authorize, Claim, Validate, PolicyRejects, RenewLease, RecordMutation,
      VerifySucceeded, VerifyFailed, VerifyAmbiguous, RecordTerminal, RestoreInspect,
      RestorePolicy, RestoreRecord, RestoreVerify, Halt, SafeHalt, Refuse,
      ReleaseLease, Acknowledge, CallFails, Crash
<1>5. CASE UNCHANGED vars \/ Tick \/ \E i \in Incidents : Api(i)
  BY <1>5 DEF vars, Tick, Api, PolicyPasses, Approve, Publish, Close, QueryEvidence
<1> QED BY <1>2, <1>3, <1>4, <1>5 DEF Next

\* An Executor comes to these calls by its patch and stays in them.
LEMMA HandlingStep ==
  ASSUME TypeOK, [Next]_vars, NEW e \in Executors,
         pc'[e] \in Applying \cup {"converged"}
  PROVE  /\ job'[e].inc = job[e].inc /\ job[e].inc \in Incidents
         /\ \/ pc[e] \in Applying
            \/ pc[e] = pc'[e]
            \/ Apply(e)
<1>1. /\ pc \in [Executors -> Steps] /\ job \in [Executors -> Job] /\ job[e] \in Job
  BY DEF TypeOK
<1>2. CASE pc'[e] = pc[e] /\ job'[e] = job[e]
  <2>1. pc[e] # "idle"
    BY <1>2 DEF Applying
  <2> QED BY <1>2, <2>1, WorkingTypes
<1>3. CASE Step(e) \/ CallFails(e) \/ Crash(e)
  <2>1. /\ pc[e] # "idle"
        /\ pc[e] \in Applying \/ Apply(e)
    BY <1>1, <1>3
    DEF Step, Pull, ReadRecord, AcquireRefused, AcquireRead, AcquireCommit, Apply,
        Authorize, Claim, Validate, PolicyRejects, RenewLease, RecordMutation,
        VerifySucceeded, VerifyFailed, VerifyAmbiguous, RecordTerminal, RestoreInspect,
        RestorePolicy, RestoreApply, RestoreRecord, RestoreVerify, Halt, SafeHalt,
        Refuse, ReleaseLease, Acknowledge, CallFails, Crash, Reply, Goto, Finish,
        OnError, Applying
  <2>2. pc'[e] # "idle"
    BY DEF Applying
  <2> QED BY <1>3, <2>1, <2>2, JobSteps, WorkingTypes DEF GoesOn
<1>4. CASE \E f \in Executors \ {e} : Step(f) \/ CallFails(f) \/ Crash(f)
  BY <1>2, <1>4, OthersStay
<1>5. CASE ~ \E f \in Executors : Step(f) \/ CallFails(f) \/ Crash(f)
  <2>1. UNCHANGED <<pc, job>>
    BY <1>5 DEF Next, Tick, ExternalWrite, Api, PolicyPasses, Approve, Publish, Close,
                QueryEvidence, vars
  <2> QED BY <1>2, <2>1
<1> QED BY <1>3, <1>4, <1>5

\* The state a policy saw is written by the decision and never again.
LEMMA PolicyStep ==
  ASSUME TypeOK, [Next]_vars, NEW i \in Incidents
  PROVE  \/ /\ record'[i].policy = record[i].policy
            /\ record'[i].policyState = record[i].policyState
         \/ /\ record'[i].policyState = deployment[Target[i]]
            /\ UNCHANGED deployment
<1>1. /\ record \in [Incidents -> Records(DeploymentState)]
      /\ \A j \in Incidents : record[j] \in Records(DeploymentState)
  BY DEF TypeOK
<1> DEFINE Kept == /\ record'[i].policy = record[i].policy
                   /\ record'[i].policyState = record[i].policyState
<1>2. ASSUME NEW j \in Incidents, NEW s, WriteRecord(j, s),
             s.policy = record[j].policy, s.policyState = record[j].policyState
      PROVE  Kept
  BY <1>1, <1>2 DEF WriteRecord
<1>3. ASSUME NEW j \in Incidents, PolicyPasses(j)
      PROVE  Kept \/ (record'[i].policyState = deployment[Target[i]] /\ UNCHANGED deployment)
  <2> DEFINE d == deployment[Target[j]]
  <2>1. record[j] \in Records(DeploymentState)
    BY <1>1
  <2>2. RecordPolicy(record[j], d).policyState = d
    BY <2>1, PolicyDecides DEF Decided
  <2>3. record' = [record EXCEPT ![j] = RecordPolicy(record[j], d)] /\ UNCHANGED deployment
    BY <1>3 DEF PolicyPasses, WriteRecord
  <2> QED BY <1>1, <2>2, <2>3
<1>4. ASSUME NEW j \in Incidents, NEW left, Approve(j, left)
      PROVE  Kept
  <2> DEFINE s == RecordApproval(record[j], clock + left)
  <2>1. record[j] \in Records(DeploymentState)
    BY <1>1
  <2>2. s.policy = record[j].policy /\ s.policyState = record[j].policyState
    BY <2>1, ApprovalDecides DEF Decided
  <2> QED BY <1>2, <1>4, <2>2 DEF Approve
<1>5. ASSUME NEW e \in Executors, Claims(e)
      PROVE  Kept
  <2>1. job[e].inc \in Incidents /\ RecordOf(e) \in Records(DeploymentState)
    BY <1>5, WorkingTypes DEF Claims, Claim
  <2> DEFINE s == RecordIntervention(RecordOf(e))
  <2>2. s.policy = RecordOf(e).policy /\ s.policyState = RecordOf(e).policyState
    BY <2>1, InterventionDecides DEF Decided
  <2> QED BY <1>2, <1>5, <2>1, <2>2 DEF Claims, RecordOf
<1>6. ASSUME NEW e \in Executors, NEW t, Settles(e, t)
      PROVE  Kept
  <2>1. job[e].inc \in Incidents /\ RecordOf(e) \in Records(DeploymentState)
    BY <1>6, WorkingTypes DEF Settles, RecordTerminal, SafeHalt, TerminalStateAt
  <2> DEFINE s == UpdateIntervention(RecordOf(e), t)
  <2>2. s.policy = RecordOf(e).policy /\ s.policyState = RecordOf(e).policyState
    BY <2>1, InterventionDecides DEF Decided
  <2> QED BY <1>2, <1>6, <2>1, <2>2 DEF Settles, RecordOf
<1>7. SameDecided(record[i], record'[i]) => Kept
  BY DEF SameDecided, Decided
<1> QED BY <1>3, <1>4, <1>5, <1>6, <1>7, DecidedStep

\* So a resourceVersion keeps standing for one state of the Deployment.
LEMMA PolicyStateStep ==
  ASSUME TypeOK, OutcomeInvariant, [Next]_vars, NEW i \in Incidents, record'[i].policy
  PROVE  PolicyStateIdentified(i)'
<1> DEFINE w == Target[i]
<1>1. /\ w \in Workloads /\ deployment \in [Workloads -> DeploymentState]
      /\ deployment[w].rv \in Nat /\ record[i].policyState.rv \in Nat
  BY PipelineAssumption DEF TypeOK, DeploymentState, Records
<1>2. deployment'[w] = deployment[w] \/ deployment'[w].rv = deployment[w].rv + 1
  <2>1. DeploymentsStep
    BY ExternalDeployments, ExecutorDeployments
    DEF Next, Tick, Api, PolicyPasses, Approve, Publish, Close, QueryEvidence, vars,
        DeploymentsStep
  <2> QED BY <1>1, <2>1 DEF DeploymentsStep, WriteDeployment
<1>3. CASE /\ record'[i].policy = record[i].policy
           /\ record'[i].policyState = record[i].policyState
  <2>1. /\ record[i].policyState.rv <= deployment[w].rv
        /\ record[i].policyState.rv = deployment[w].rv => record[i].policyState = deployment[w]
    BY <1>3 DEF OutcomeInvariant, PolicyStateIdentified
  <2> QED BY <1>1, <1>2, <1>3, <2>1 DEF PolicyStateIdentified
<1>4. CASE record'[i].policyState = deployment[w] /\ UNCHANGED deployment
  BY <1>1, <1>4 DEF PolicyStateIdentified
<1> QED BY <1>3, <1>4, PolicyStep

\* An accepted patch stays accepted.
LEMMA AppliedStays ==
  ASSUME TypeOK, ApplyInvariant, [Next]_vars, NEW i \in Incidents, Applied(i)
  PROVE  Applied(i)'
<1>1. record'[i].approved /\ Bound(record'[i]) = Bound(record[i])
  BY RecordsChange, ApprovalsStay DEF Applied
<1>2. ActionWrites(i) \subseteq ActionWrites(i)'
  BY HistoryGrows DEF ActionWrites
<1>3. AsksNothing(i) => AsksNothing(i)'
  BY <1>1 DEF AsksNothing, Bound
<1> QED BY <1>1, <1>2, <1>3 DEF Applied

\* Success is recorded where the rollout has converged.
LEMMA SuccessBegins ==
  ASSUME TypeOK, [Next]_vars, NEW i \in Incidents,
         record'[i].intervention = "succeeded"
  PROVE  \/ record[i].intervention = "succeeded"
         \/ \E e \in Executors : pc[e] = "converged" /\ job[e].inc = i
<1>1. /\ record \in [Incidents -> Records(DeploymentState)]
      /\ \A j \in Incidents : record[j] \in Records(DeploymentState)
  BY DEF TypeOK
<1>2. ASSUME NEW j \in Incidents, NEW s, WriteRecord(j, s)
      PROVE  record[i].intervention = "succeeded" \/ (j = i /\ s.intervention = "succeeded")
  BY <1>1, <1>2 DEF WriteRecord
<1>3. ASSUME NEW j \in Incidents
      PROVE  /\ PolicyPasses(j) => record[i].intervention = "succeeded"
             /\ \A left : Approve(j, left) => record[i].intervention = "succeeded"
  <2> DEFINE d == deployment[Target[j]]
  <2>1. record[j] \in Records(DeploymentState)
    BY <1>1
  <2>2. RecordPolicy(record[j], d).intervention = record[j].intervention
    BY <2>1, PolicyDecides DEF Decided
  <2>3. \A x : RecordApproval(record[j], x).intervention = record[j].intervention
    BY <2>1, ApprovalDecides DEF Decided
  <2> QED BY <1>2, <2>2, <2>3 DEF PolicyPasses, Approve
<1>4. ASSUME NEW e \in Executors, Claims(e)
      PROVE  record[i].intervention = "succeeded"
  <2>1. job[e].inc \in Incidents /\ RecordOf(e) \in Records(DeploymentState)
    BY <1>4, WorkingTypes DEF Claims, Claim
  <2>2. RecordIntervention(RecordOf(e)).intervention = "running"
    BY <2>1, InterventionDecides DEF Decided
  <2> QED BY <1>2, <1>4, <2>1, <2>2 DEF Claims
<1>5. ASSUME NEW e \in Executors, NEW t, Settles(e, t)
      PROVE  \/ record[i].intervention = "succeeded"
             \/ pc[e] = "converged" /\ job[e].inc = i
  <2>1. job[e].inc \in Incidents /\ RecordOf(e) \in Records(DeploymentState)
    BY <1>5, WorkingTypes DEF Settles, RecordTerminal, SafeHalt, TerminalStateAt
  <2>2. UpdateIntervention(RecordOf(e), t).intervention = t
    BY <2>1, InterventionDecides DEF Decided
  <2> QED BY <1>2, <1>5, <2>1, <2>2 DEF Settles
<1>6. SameDecided(record[i], record'[i]) => record[i].intervention = "succeeded"
  BY DEF SameDecided, Decided
<1> QED BY <1>3, <1>4, <1>5, <1>6, DecidedStep

\* Whoever handles i after a step handled it before, or has just applied its patch.
LEMMA HandlersStep ==
  ASSUME TypeOK, [Next]_vars, NEW e \in Executors, NEW i \in Incidents, Handles(e, i)'
  PROVE  job[e].inc = i /\ (Handles(e, i) \/ Apply(e))
<1>1. pc'[e] \in Applying /\ job'[e].inc = i
  BY DEF Handles
<1> QED BY <1>1, HandlingStep DEF Handles

\* An accepted patch is known where the rollout is awaited or undone.
LEMMA HandlersApplied ==
  ASSUME TypeOK, ApplyInvariant, OutcomeInvariant, [Next]_vars,
         NEW e \in Executors, NEW i \in Incidents,
         Handles(e, i)' \/ (pc'[e] = "converged" /\ job'[e].inc = i)
  PROVE  Applied(i)'
<1>1. /\ pc'[e] \in Applying \cup {"converged"} /\ job[e].inc = i
      /\ pc[e] \in Applying \/ pc[e] = pc'[e] \/ Apply(e)
  BY HandlingStep DEF Handles
<1>2. CASE Apply(e)
  <2>1. pc'[e] # "halt"
    BY <1>1 DEF Applying
  <2>2. record[i].approved
    BY <1>1, <1>2, <2>1, ApplyOutcome
  <2>3. CASE AsksNothing(i)
    BY <2>2, <2>3, AppliedStays DEF Applied
  <2>4. CASE ~ AsksNothing(i)
    <3>1. ActionWrites(i)' # {}
      BY <1>1, <1>2, <2>1, <2>4, ApplyOutcome DEF ActionWrites
    <3>2. record'[i].approved
      BY <2>2, RecordsGrow
    <3> QED BY <3>1, <3>2 DEF Applied
  <2> QED BY <2>3, <2>4
<1>3. CASE ~ Apply(e)
  <2>1. Handles(e, i) \/ (pc[e] = "converged" /\ job[e].inc = i)
    BY <1>1, <1>3 DEF Handles
  <2>2. Applied(i)
    BY <2>1 DEF OutcomeInvariant
  <2> QED BY <2>2, AppliedStays
<1> QED BY <1>2, <1>3

\* Only who applied i's patch first may undo it, when that changed something.
LEMMA OneUndoesStep ==
  ASSUME TypeOK, ApplyInvariant, OutcomeInvariant, [Next]_vars, NEW i \in Incidents
  PROVE  OneUndoes(i)'
<1> SUFFICES ASSUME ActionWrites(i)' # {}, NEW g \in Executors, Handles(g, i)'
             PROVE  /\ RestoreWrites(i)' = {}
                    /\ \A f \in Executors : Handles(f, i)' => f = g
  BY DEF OneUndoes
<1>1. /\ \A e \in Executors : Handles(e, i)' => job[e].inc = i /\ (Handles(e, i) \/ Apply(e))
      /\ writes \subseteq writes'
  BY HandlersStep, HistoryGrows
<1>2. ASSUME NEW e \in Executors, Apply(e), job[e].inc = i, pc'[e] # "halt"
      PROVE  /\ RestoreWrites(i)' = {}
             /\ \A f \in Executors : Handles(f, i)' => f = e
  <2>1. /\ record[i].approved /\ ActionWrites(i) = {} /\ ~ AsksNothing(i)
        /\ \E x : x.kind = "action" /\ writes' = writes \cup {x}
    <3>1. ActionWrites(i) = {} /\ record[i].approved
      BY <1>2, ApplyOutcome
    <3>2. writes' # writes
      BY <3>1 DEF ActionWrites
    <3> QED BY <1>2, <3>1, <3>2, ApplyOutcome
  <2>2. ~ Applied(i)
    BY <2>1 DEF Applied
  <2>3. RestoreWrites(i) = {}
    BY <2>2 DEF OutcomeInvariant, RestoreWrites
  <2>4. RestoreWrites(i)' = {}
    BY <2>1, <2>3 DEF RestoreWrites
  <2>5. ASSUME NEW f \in Executors, f # e
        PROVE  ~ Handles(f, i)'
    <3>1. ~ Handles(f, i)
      BY <2>2 DEF OutcomeInvariant
    <3>2. pc'[f] = pc[f] /\ job'[f] = job[f]
      BY <1>2, <2>5, OthersStay DEF Step
    <3> QED BY <3>1, <3>2 DEF Handles
  <2> QED BY <2>4, <2>5
<1>3. ASSUME NEW e \in Executors, Apply(e), Handles(e, i)'
      PROVE  /\ RestoreWrites(i)' = {}
             /\ \A f \in Executors : Handles(f, i)' => f = e
  <2>1. pc'[e] # "halt"
    BY <1>3 DEF Handles, Applying
  <2> QED BY <1>1, <1>2, <1>3, <2>1
<1>4. CASE \E e \in Executors : Apply(e) /\ Handles(e, i)'
  BY <1>3, <1>4
<1>5. CASE \A e \in Executors : Handles(e, i)' => ~ Apply(e)
  <2>1. \A e \in Executors : Handles(e, i)' => Handles(e, i)
    BY <1>1, <1>5
  <2>2. ActionWrites(i) # {}
    <3>1. CASE \A x \in writes' \ writes : x.kind # "action" \/ x.inc # i
      BY <3>1 DEF ActionWrites
    <3>2. CASE \E e \in Executors : Apply(e) \/ RestoreApply(e)
      <4>1. PICK e \in Executors : Apply(e) \/ RestoreApply(e)
        BY <3>2
      <4>2. PICK j \in Incidents : job[e].inc = j
        BY <4>1, WorkingTypes DEF Apply, RestoreApply
      <4>3. CASE RestoreApply(e)
        BY <3>1, <4>2, <4>3, RestoreOutcome
      <4>4. CASE Apply(e)
        <5>1. CASE j # i
          BY <3>1, <4>2, <4>4, <5>1, ApplyOutcome
        <5>2. CASE j = i /\ ~ UNCHANGED writes
          <6>1. ~ Applied(i)
            BY <4>2, <4>4, <5>2, ApplyOutcome DEF Applied
          <6>2. Handles(g, i)
            BY <2>1
          <6> QED BY <6>1, <6>2 DEF OutcomeInvariant
        <5>3. CASE UNCHANGED writes
          BY <3>1, <5>3
        <5> QED BY <5>1, <5>2, <5>3
      <4> QED BY <4>1, <4>3, <4>4
    <3> QED BY <3>1, <3>2, HistoryGrows
  <2>3. RestoreWrites(i) = {} /\ \A f \in Executors : Handles(f, i) => f = g
    BY <2>1, <2>2 DEF OutcomeInvariant, OneUndoes
  <2>4. RestoreWrites(i)' = {}
    <3>1. CASE \A x \in writes' \ writes : x.kind # "restore" \/ x.inc # i
      BY <2>3, <3>1 DEF RestoreWrites
    <3>2. CASE \E e \in Executors : Apply(e) \/ RestoreApply(e)
      <4>1. PICK e \in Executors : Apply(e) \/ RestoreApply(e)
        BY <3>2
      <4>2. PICK j \in Incidents : job[e].inc = j
        BY <4>1, WorkingTypes DEF Apply, RestoreApply
      <4>3. CASE Apply(e)
        BY <3>1, <4>2, <4>3, ApplyOutcome
      <4>4. CASE RestoreApply(e)
        <5>1. CASE j = i
          <6>1. e = g /\ ~ Handles(e, i)'
            BY <2>3, <4>2, <4>4, <5>1, RestoreOutcome DEF Handles
          <6> QED BY <6>1
        <5>2. CASE j # i
          BY <3>1, <4>2, <4>4, <5>2, RestoreOutcome
        <5> QED BY <5>1, <5>2
      <4> QED BY <4>1, <4>3, <4>4
    <3> QED BY <3>1, <3>2, HistoryGrows
  <2> QED BY <2>1, <2>3, <2>4
<1> QED BY <1>4, <1>5

\* A change that undoes a scale is the first one, and follows it.
LEMMA RestoredOnceStep ==
  ASSUME TypeOK, ApplyInvariant, OutcomeInvariant, [Next]_vars
  PROVE  /\ \A x \in writes' : x.kind = "restore" => x.inc \in Incidents /\ Applied(x.inc)'
         /\ RestoredAtMostOnce'
<1> DEFINE Undone(W) == \A x \in W : x.kind = "restore" => x.inc \in Incidents /\ Applied(x.inc)
           Once(W) == \A a, b, c \in W :
                        /\ a.kind = "restore" /\ b.kind = "restore" /\ c.kind = "action"
                        /\ a.inc = c.inc /\ b.inc = c.inc
                        => a = b
<1>1. Undone(writes) /\ Once(writes) /\ writes \subseteq writes'
  BY HistoryGrows DEF OutcomeInvariant, RestoredAtMostOnce
<1>2. Undone(writes') /\ Once(writes')
  <2>1. CASE \A x \in writes' \ writes : x.kind = "external"
    BY <1>1, <2>1
  <2>2. CASE \E e \in Executors : Apply(e) \/ RestoreApply(e)
    <3>1. PICK e \in Executors : Apply(e) \/ RestoreApply(e)
      BY <2>2
    <3>2. PICK i \in Incidents : job[e].inc = i
      BY <3>1, WorkingTypes DEF Apply, RestoreApply
    <3>3. CASE UNCHANGED writes
      BY <1>1, <3>3
    <3>4. CASE Apply(e) /\ ~ UNCHANGED writes
      <4>1. PICK x : /\ ~ Applied(i)
                     /\ x.kind = "action" /\ x.inc = i /\ writes' = writes \cup {x}
        BY <3>2, <3>4, ApplyOutcome DEF Applied
      <4>2. \A a \in writes : a.kind = "restore" => a.inc # i
        BY <1>1, <4>1
      <4> QED BY <1>1, <4>1, <4>2
    <3>5. CASE RestoreApply(e) /\ ~ UNCHANGED writes
      <4>1. PICK x : x.kind = "restore" /\ x.inc = i /\ writes' = writes \cup {x}
        BY <3>2, <3>5, RestoreOutcome
      <4>2. Handles(e, i) /\ Applied(i)
        BY <3>2, <3>5, RestoreOutcome DEF OutcomeInvariant
      <4>3. ASSUME NEW c \in writes, c.kind = "action", c.inc = i
            PROVE  \A a \in writes : a.kind = "restore" => a.inc # i
        <5>1. RestoreWrites(i) = {}
          BY <4>2, <4>3 DEF OutcomeInvariant, OneUndoes, ActionWrites
        <5> QED BY <5>1 DEF RestoreWrites
      <4>4. Undone(writes')
        BY <1>1, <4>1, <4>2
      <4>5. Once(writes')
        <5> SUFFICES ASSUME NEW a \in writes', NEW b \in writes', NEW c \in writes',
                            a.kind = "restore", b.kind = "restore", c.kind = "action",
                            a.inc = c.inc, b.inc = c.inc
                     PROVE  a = b
          OBVIOUS
        <5>1. c \in writes
          BY <4>1
        <5>2. CASE a.inc = i
          BY <4>1, <4>3, <5>1, <5>2
        <5>3. CASE a.inc # i
          BY <1>1, <4>1, <5>1, <5>3
        <5> QED BY <5>2, <5>3
      <4> QED BY <4>4, <4>5
    <3> QED BY <3>1, <3>3, <3>4, <3>5
  <2> QED BY <2>1, <2>2, HistoryGrows
<1>3. \A i \in Incidents : Applied(i) => Applied(i)'
  BY AppliedStays
<1> QED BY <1>2, <1>3 DEF RestoredAtMostOnce

LEMMA NextOutcome ==
  TypeOK /\ ApplyInvariant /\ OutcomeInvariant /\ [Next]_vars => OutcomeInvariant'
<1> SUFFICES ASSUME TypeOK, ApplyInvariant, OutcomeInvariant, [Next]_vars
             PROVE  OutcomeInvariant'
  OBVIOUS
<1>1. \A i \in Incidents : record'[i].policy => PolicyStateIdentified(i)'
  BY PolicyStateStep
<1>2. ASSUME NEW i \in Incidents, record'[i].intervention = "succeeded"
      PROVE  Applied(i)'
  <2>1. Applied(i)
    BY <1>2, SuccessBegins DEF OutcomeInvariant
  <2> QED BY <2>1, AppliedStays
<1>3. \A e \in Executors, i \in Incidents :
        Handles(e, i)' \/ (pc'[e] = "converged" /\ job'[e].inc = i) => Applied(i)'
  BY HandlersApplied
<1>4. \A i \in Incidents : OneUndoes(i)'
  BY OneUndoesStep
<1> QED BY <1>1, <1>2, <1>3, <1>4, RestoredOnceStep DEF OutcomeInvariant

LEMMA OutcomeInvariantAlways == Spec => []OutcomeInvariant
<1>1. Init => OutcomeInvariant
  BY DEF Init, OutcomeInvariant, InitialRecord, Handles, Applying, ActionWrites,
         OneUndoes, RestoredAtMostOnce
<1> QED BY <1>1, NextOutcome, Inductive, PTL DEF Spec

\* SucceededWasApplied for any number of Executors, other writers and crashes:
\* an Executor that took a delivery over records success only for a patch that
\* was accepted, never for a rollout it merely found complete.
THEOREM SuccessIsApplied == Spec => []SucceededWasApplied
<1>1. OutcomeInvariant => SucceededWasApplied
  BY DEF OutcomeInvariant, SucceededWasApplied, Applied, ActionWrites, AsksNothing
<1> QED BY <1>1, OutcomeInvariantAlways, PTL

\* RestoredAtMostOnce likewise: two Executors that hold one delivery never
\* both undo its scale.
THEOREM RestoredOnce == Spec => []RestoredAtMostOnce
<1>1. OutcomeInvariant => RestoredAtMostOnce
  BY DEF OutcomeInvariant
<1> QED BY <1>1, OutcomeInvariantAlways, PTL

-----------------------------------------------------------------------------
(* The contract.                                                           *)

\* The refinement mapping.
ContractApproved == {i \in Incidents : record[i].approved}
ContractState == [i \in Incidents |-> record[i].intervention]
ContractApplied == [i \in Incidents |-> {x.to : x \in ActionWrites(i)}]

\* Only an accepted patch adds a change by an action to the history.
LEMMA ActionsStep ==
  ASSUME TypeOK, ApplyInvariant, OutcomeInvariant, [Next]_vars
  PROVE  \/ \A i \in Incidents : ActionWrites(i)' = ActionWrites(i)
         \/ \E e \in Executors, i \in Incidents :
              /\ Apply(e) /\ job[e].inc = i
              /\ record[i].approved /\ ActionWrites(i) = {}
              /\ \E x : /\ x.kind = "action" /\ x.inc = i
                       /\ writes' = writes \cup {x}
<1>1. CASE \A x \in writes' \ writes : x.kind # "action"
  BY <1>1, HistoryGrows DEF ActionWrites
<1>2. CASE \E e \in Executors : Apply(e) \/ RestoreApply(e)
  <2>1. PICK e \in Executors : Apply(e) \/ RestoreApply(e)
    BY <1>2
  <2>2. PICK i \in Incidents : job[e].inc = i
    BY <2>1, WorkingTypes DEF Apply, RestoreApply
  <2>3. CASE RestoreApply(e)
    BY <1>1, <2>2, <2>3, RestoreOutcome
  <2>4. CASE Apply(e)
    BY <1>1, <2>2, <2>4, ApplyOutcome
  <2> QED BY <2>1, <2>3, <2>4
<1> QED BY <1>1, <1>2, HistoryGrows

\* A write of one record, seen by the contract.
LEMMA ContractRecordStep ==
  ASSUME TypeOK, NEW i \in Incidents, NEW s, WriteRecord(i, s),
         UNCHANGED writes
  PROVE  /\ ContractApplied' = ContractApplied
         /\ ContractState' = [ContractState EXCEPT ![i] = s.intervention]
         /\ s.approved => ContractApproved' = ContractApproved \cup {i}
         /\ s.approved = record[i].approved => ContractApproved' = ContractApproved
         /\ s.intervention = record[i].intervention => ContractState' = ContractState
<1>1. /\ \A j \in Incidents : record'[j] = IF j = i THEN s ELSE record[j]
      /\ \A j \in Incidents : ActionWrites(j)' = ActionWrites(j)
  BY DEF TypeOK, WriteRecord, ActionWrites
<1>2. ContractApplied' = ContractApplied
  BY <1>1 DEF ContractApplied
<1>3. ContractState' = [ContractState EXCEPT ![i] = s.intervention]
  BY <1>1 DEF ContractState
<1>4. s.intervention = record[i].intervention => ContractState' = ContractState
  BY <1>1 DEF ContractState
<1>5. s.approved => ContractApproved' = ContractApproved \cup {i}
  BY <1>1 DEF ContractApproved
<1>6. s.approved = record[i].approved => ContractApproved' = ContractApproved
  BY <1>1 DEF ContractApproved
<1> QED BY <1>2, <1>3, <1>4, <1>5, <1>6

\* Each of the four deciding operations is a step of the contract.
LEMMA ContractDecision ==
  ASSUME TypeOK, [Next]_vars,
         ~ \A i \in Incidents : SameDecided(record[i], record'[i])
  PROVE  [Contract!ContractNext]_<<ContractApproved, ContractState, ContractApplied>>
<1>1. ASSUME NEW i \in Incidents, PolicyPasses(i)
      PROVE  UNCHANGED <<ContractApproved, ContractState, ContractApplied>>
  <2> DEFINE s == RecordPolicy(record[i], deployment[Target[i]])
  <2>1. s.approved = record[i].approved /\ s.intervention = record[i].intervention
    BY PolicyDecides DEF TypeOK, Decided
  <2>2. WriteRecord(i, s) /\ UNCHANGED writes
    BY <1>1 DEF PolicyPasses
  <2> HIDE DEF s
  <2> QED BY <2>1, <2>2, ContractRecordStep
<1>2. ASSUME NEW i \in Incidents, NEW left, Approve(i, left)
      PROVE  Contract!ContractApprove(i)
  <2> DEFINE s == RecordApproval(record[i], clock + left)
  <2>1. record[i] \in Records(DeploymentState)
    BY DEF TypeOK
  <2>2. s.approved = TRUE /\ s.intervention = record[i].intervention
    BY <2>1, ApprovalDecides DEF Decided
  <2>3. WriteRecord(i, s) /\ UNCHANGED writes /\ ~ record[i].approved
    BY <1>2 DEF Approve, CanRecordApproval
  <2> HIDE DEF s
  <2>4. /\ ContractApproved' = ContractApproved \cup {i}
        /\ UNCHANGED <<ContractState, ContractApplied>>
    BY <2>2, <2>3, ContractRecordStep
  <2> QED BY <2>3, <2>4
          DEF Contract!ContractApprove, ContractApproved, ContractState, ContractApplied,
              ActionWrites
<1>3. ASSUME NEW e \in Executors, Claims(e)
      PROVE  \E i \in Incidents : Contract!ContractClaim(i)
  <2>1. PICK i \in Incidents : job[e].inc = i
    BY <1>3, WorkingTypes DEF Claims, Claim
  <2> DEFINE s == RecordIntervention(record[i])
  <2>2. s.approved = record[i].approved /\ s.intervention = "running"
    BY InterventionDecides DEF TypeOK, Decided
  <2>3. /\ WriteRecord(i, s) /\ UNCHANGED writes
        /\ record[i].approved /\ record[i].intervention = "none"
    BY <1>3, <2>1 DEF Claims, Claim, CanRecordIntervention, RecordOf
  <2> HIDE DEF s
  <2>4. /\ ContractState' = [ContractState EXCEPT ![i] = "running"]
        /\ UNCHANGED <<ContractApproved, ContractApplied>>
    <3>1. /\ ContractState' = [ContractState EXCEPT ![i] = s.intervention]
          /\ UNCHANGED <<ContractApproved, ContractApplied>>
      BY <2>2, <2>3, ContractRecordStep
    <3> QED BY <2>2, <3>1
  <2>5. i \in ContractApproved /\ ContractState[i] = "none"
    BY <2>3 DEF ContractApproved, ContractState
  <2> QED BY <2>4, <2>5
          DEF Contract!ContractClaim, ContractApproved, ContractState, ContractApplied,
              ActionWrites
<1>4. ASSUME NEW e \in Executors, NEW t \in TerminalStates, Settles(e, t)
      PROVE  \E i \in Incidents : Contract!ContractSettle(i)
  <2>1. PICK i \in Incidents : job[e].inc = i
    BY <1>4, WorkingTypes DEF Settles, RecordTerminal, SafeHalt, TerminalStateAt
  <2> DEFINE s == UpdateIntervention(record[i], t)
  <2>2. s.approved = record[i].approved /\ s.intervention = t
    BY InterventionDecides DEF TypeOK, Decided
  <2>3. /\ WriteRecord(i, s) /\ UNCHANGED writes
        /\ record[i].intervention = "running"
    BY <1>4, <2>1
    DEF Settles, RecordTerminal, SafeHalt, CanUpdateIntervention, RecordOf
  <2> HIDE DEF s
  <2>4. /\ ContractState' = [ContractState EXCEPT ![i] = t]
        /\ UNCHANGED <<ContractApproved, ContractApplied>>
    <3>1. /\ ContractState' = [ContractState EXCEPT ![i] = s.intervention]
          /\ UNCHANGED <<ContractApproved, ContractApplied>>
      BY <2>2, <2>3, ContractRecordStep
    <3> QED BY <2>2, <3>1
  <2>5. ContractState[i] = "running"
    BY <2>3 DEF ContractState
  <2> QED BY <2>4, <2>5
          DEF Contract!ContractSettle, ContractApproved, ContractState, ContractApplied,
              ActionWrites
<1> QED BY <1>1, <1>2, <1>3, <1>4, DecidedStep DEF Contract!ContractNext

\* And so is an accepted patch: of an approved action, claimed, for the first time.
LEMMA ContractPatch ==
  ASSUME TypeOK, ApplyInvariant, OutcomeInvariant, DeliveryInvariant, [Next]_vars,
         ~ \A i \in Incidents : ActionWrites(i)' = ActionWrites(i)
  PROVE  Contract!ContractNext
<1>1. PICK e \in Executors, i \in Incidents :
        /\ Apply(e) /\ job[e].inc = i
        /\ record[i].approved /\ ActionWrites(i) = {}
        /\ \E x : x.kind = "action" /\ x.inc = i /\ writes' = writes \cup {x}
  BY ActionsStep
<1>2. PICK x : x.kind = "action" /\ x.inc = i /\ writes' = writes \cup {x}
  BY <1>1
<1>3. record[i].intervention # "none"
  BY <1>1 DEF Apply, DeliveryInvariant, Delivering, ClaimedSteps, InTry, RecordOf
<1>4. \A j \in Incidents : ActionWrites(j)' = IF j = i THEN {x} ELSE ActionWrites(j)
  BY <1>1, <1>2 DEF ActionWrites
<1>5. UNCHANGED <<ContractApproved, ContractState>>
  BY <1>1 DEF Apply, ContractApproved, ContractState
<1>6. /\ ContractApplied' = [ContractApplied EXCEPT ![i] = {x.to}]
      /\ ContractApplied[i] = {} /\ x.to \in ContractApplied'[i]
  BY <1>1, <1>4 DEF ContractApplied
<1>7. i \in ContractApproved /\ ContractState[i] # "none"
  BY <1>1, <1>3 DEF ContractApproved, ContractState
<1>8. Contract!ContractApply(i)
  BY <1>5, <1>6, <1>7
  DEF Contract!ContractApply, ContractApproved, ContractState, ContractApplied, ActionWrites
<1> QED BY <1>8 DEF Contract!ContractNext

LEMMA ContractStep ==
  ASSUME TypeOK, ApplyInvariant, OutcomeInvariant, DeliveryInvariant, [Next]_vars
  PROVE  [Contract!ContractNext]_<<ContractApproved, ContractState, ContractApplied>>
<1>1. CASE /\ \A i \in Incidents : SameDecided(record[i], record'[i])
           /\ \A i \in Incidents : ActionWrites(i)' = ActionWrites(i)
  BY <1>1 DEF SameDecided, Decided, ContractApproved, ContractState, ContractApplied
<1> QED BY <1>1, ContractDecision, ContractPatch

\* The pipeline implements its contract, for every number of Executors,
\* Incidents and workloads: no crash, redelivery, expired lease or second
\* Executor applies an action again, applies one that is not approved and
\* claimed, or settles an Intervention twice.
THEOREM PipelineKeepsContract == Spec => KeepsContract
<1>1. Init => Contract!ContractInit
  BY DEF Init, InitialRecord, Contract!ContractInit
<1>2. TypeOK /\ ApplyInvariant /\ OutcomeInvariant /\ DeliveryInvariant /\ [Next]_vars =>
        [Contract!ContractNext]_(Contract!contractVars)
  BY ContractStep DEF Contract!contractVars, ContractApproved, ContractState,
                      ContractApplied, ActionWrites
<1> QED BY <1>1, <1>2, Inductive, OutcomeInvariantAlways, DeliveryInvariantAlways, PTL
        DEF Spec, KeepsContract, Contract!ContractSpec

=============================================================================
