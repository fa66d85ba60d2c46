------------------------------ MODULE Approval ------------------------------
(***************************************************************************)
(* From a Remediation Proposal to the request that carries it to the       *)
(* Executor: evaluate_and_record of services/proposal_policy.py, the       *)
(* reviews and decisions of the Responders (services/approval.py), and the *)
(* publication (services/intervention_queue.py), while evidence is         *)
(* appended, the Incident is closed and the Deployment is changed.         *)
(*                                                                         *)
(* Every read of Firestore or of Kubernetes and every write is one step.   *)
(* Hashes are abstracted to what they tell apart: proposal and policy      *)
(* decision are written once, so of a binding remain the version of the    *)
(* Incident, the number of observations, and the state of the Deployment.  *)
(***************************************************************************)
EXTENDS IncidentRecord, Sequences

CONSTANTS
  Responders,
  Proposals,        \* the proposals to choose from
  Minimum, Maximum, \* replica_bounds of the workload
  Unrestorable,     \* pod templates that use a Secret
  ReviewTTL,        \* review_ttl
  InitialReplicas,
  \* Bounds of the model.
  ExternalReplicas, \* replica counts other writers choose
  MaxTime, MaxRv, MaxEvidence,
  MaxFaults         \* crashes and failed calls

Grants == {"declared", "executable", "allowed"}

\* `grants` is what the Application Profile says of target and action.
Proposal == [type : {"rollback", "scale", "restart"}, revision : Nat,
             replicas : Nat, grants : SUBSET Grants]

ASSUME ApprovalAssumption ==
  /\ Proposals \subseteq Proposal
  /\ Unrestorable \subseteq Nat
  /\ ExternalReplicas \subseteq Nat
  /\ {Minimum, Maximum, ReviewTTL, InitialReplicas} \subseteq Nat
  /\ {MaxTime, MaxRv, MaxEvidence, MaxFaults} \subseteq Nat

VARIABLES
  clock,
  states,     \* states[rv]: the Deployment at resourceVersion rv
  history,    \* history[rev]: the template of the ReplicaSet of revision rev
  record,     \* the Investigation Record
  engine,     \* the call of evaluate_and_record, and its locals
  responder,  \* responder[p]: p's review and decision
  requests,   \* the Intervention requests published, in order
  faults      \* crashes and failed calls so far

vars == <<clock, states, history, record, engine, responder, requests, faults>>

-----------------------------------------------------------------------------
(* The Deployment.  Every change gets a new resourceVersion, every change   *)
(* of the spec a new generation, every template another revision; a template *)
(* used again moves its ReplicaSet to the new revision.                     *)

State == [there : BOOLEAN, gen : Nat, rev : Nat, replicas : Nat]

liveRv == Len(states)
live == states[liveRv]

InitialState == [there |-> TRUE, gen |-> 2, rev |-> 2, replicas |-> InitialReplicas]

\* What a PolicyDecision or a caller's local keeps of inspect_deployment.
Seen == [rv : Nat, gen : Nat, rev : Nat]

NotFound == [rv |-> 0, gen |-> 0, rev |-> 0]

Inspected ==
  IF live.there THEN [rv |-> liveRv, gen |-> live.gen, rev |-> live.rev] ELSE NotFound

-----------------------------------------------------------------------------
Codes == {"evidence_current", "enrollment_ready", "target_enrolled",
          "target_executable", "action_allowed", "live_state_available",
          "no_active_intervention", "revision_available", "restoration_safe",
          "replica_bounds", "replica_quota", "server_dry_run"}

\* dry_run_diff: the numbers it names, of replicas or of revisions.
Diff == [from : Nat, to : Nat]

NoDiff == [from |-> 0, to |-> 0]

Decision == [status : {"none", "passed", "rejected", "dry_run_failed"},
             failed : SUBSET Codes, state : Seen, diff : Diff]

NoDecision == [status |-> "none", failed |-> {}, state |-> NotFound, diff |-> NoDiff]

\* ApprovalBinding.  The lifecycle, which is not part of it, is history.
Binding == [version : Nat, evidence : Nat, state : Seen, expires : Nat,
            lifecycle : Lifecycles]

NoBinding == [version |-> 0, evidence |-> 0, state |-> NotFound, expires |-> 0,
              lifecycle |-> "open"]

Approvals == [decision : {"none", "approved", "rejected"},
              by : Responders \cup {"nobody"}, binding : Binding]

NoApproval == [decision |-> "none", by |-> "nobody", binding |-> NoBinding]

Record == [lifecycle : Lifecycles, outcome : InterventionOutcomes, version : Nat,
           evidence : Nat, proposal : Proposals, policy : Decision,
           approval : Approvals,
           requested : BOOLEAN]  \* there is an event intervention_requested

Engine ==
  [step     : {"start", "inspect", "list", "current", "judge", "dry_run",
               "diff_read", "diff_list", "record", "done", "raised"},
   evidence : Nat,       \* of the record that was read
   ready    : BOOLEAN,   \* of EnrollmentChecker
   state    : Seen,
   replicas : Nat,
   revisions : SUBSET Nat,
   template : Nat,       \* of the requested revision in that listing, or 0
   current  : Nat,
   decision : Decision]

NewEngine ==
  [step |-> "start", evidence |-> 0, ready |-> FALSE, state |-> NotFound,
   replicas |-> 0, revisions |-> {}, template |-> 0, current |-> 0,
   decision |-> NoDecision]

Responder ==
  [step     : {"idle", "review_inspect", "reviewed", "decide_inspect", "record",
               "commit", "publish", "announce"},
   read     : Binding,   \* of the record that was read
   binding  : Binding,   \* that was reviewed
   decision : {"none", "approved", "rejected"}]

Idle == [step |-> "idle", read |-> NoBinding, binding |-> NoBinding, decision |-> "none"]

ApprovalTypeOK ==
  /\ clock \in Nat
  /\ states \in Seq(State) /\ states # <<>>
  /\ DOMAIN history \subseteq Nat /\ \A r \in DOMAIN history : history[r] \in Nat
  /\ record \in Record
  /\ engine \in Engine
  /\ responder \in [Responders -> Responder]
  /\ requests \in Seq(Approvals)
  /\ faults \in Nat

\* complete_investigation has recorded the proposal.
Init ==
  /\ clock = 0
  /\ states = <<InitialState>>
  /\ history = [r \in {1, 2} |-> r]
  /\ \E p \in Proposals :
       record = [lifecycle |-> "investigating", outcome |-> "not_started",
                 version |-> 0, evidence |-> 0, proposal |-> p,
                 policy |-> NoDecision, approval |-> NoApproval,
                 requested |-> FALSE]
  /\ engine = NewEngine
  /\ responder = [p \in Responders |-> Idle]
  /\ requests = <<>>
  /\ faults = 0

-----------------------------------------------------------------------------
(* The environment.                                                        *)

Tick ==
  /\ clock < MaxTime
  /\ clock' = clock + 1
  /\ UNCHANGED <<states, history, record, engine, responder, requests, faults>>

Store(s) == states' = Append(states, s)

\* A new revision, the highest there has been, for template t.
Relabelled(t) ==
  LET kept == {r \in DOMAIN history : history[r] # t}
  IN [r \in kept \cup {live.rev + 1} |-> IF r \in kept THEN history[r] ELSE t]

\* A status update, a scale, a release or an undo, a deletion, a recreation.
\* Bound: what was deleted may be created again after MaxRv.
ExternalWrite ==
  /\ liveRv < MaxRv \/ ~ live.there
  /\ \/ live.there /\ Store(live) /\ UNCHANGED history
     \/ /\ live.there
        /\ \E n \in ExternalReplicas \ {live.replicas} :
             Store([live EXCEPT !.gen = @ + 1, !.replicas = n])
        /\ UNCHANGED history
     \/ /\ live.there
        /\ \E t \in {live.rev + 1} \cup {history[r] : r \in DOMAIN history \ {live.rev}} :
             history' = Relabelled(t)
        /\ Store([live EXCEPT !.gen = @ + 1, !.rev = @ + 1])
     \/ live.there /\ Store([live EXCEPT !.there = FALSE]) /\ history' = <<>>
     \/ /\ ~ live.there
        /\ Store([InitialState EXCEPT !.gen = 1, !.rev = 1])
        /\ history' = [r \in {1} |-> 1]
  /\ UNCHANGED <<clock, record, engine, responder, requests, faults>>

\* revisionHistoryLimit: an old ReplicaSet goes; the Deployment stays as it is.
\* Bound: only while the policy engine may still read the history.
Prune ==
  /\ engine.step \notin {"record", "done", "raised"}
  /\ \E r \in DOMAIN history \ {live.rev} :
       history' = [q \in DOMAIN history \ {r} |-> history[q]]
  /\ UNCHANGED <<clock, states, record, engine, responder, requests, faults>>

\* run_evidence_query by a Responder.
QueryEvidence ==
  /\ record.evidence < MaxEvidence
  /\ record' = AppendEvidence(record)
  /\ UNCHANGED <<clock, states, history, engine, responder, requests, faults>>

\* close_incident.  Bound: an Incident is closed once.
Close ==
  /\ record.lifecycle # "closed"
  /\ CanClose(record)
  /\ record' = CloseIncident(record)
  /\ UNCHANGED <<clock, states, history, engine, responder, requests, faults>>

Fault == faults < MaxFaults /\ faults' = faults + 1

-----------------------------------------------------------------------------
(* The policy engine, called once, by the run that completed the Council.  *)

At(step) == engine.step = step

EngineStep(e) ==
  /\ engine' = e
  /\ UNCHANGED <<clock, states, history, record, responder, requests>>

\* evaluate raises; its caller logs that, and nobody calls it again.
Raised == [NewEngine EXCEPT !.step = "raised"]
Done == [NewEngine EXCEPT !.step = "done"]

\* store.get, and the Enrollment of the moment.
Evaluate ==
  /\ At("start")
  /\ \E ready \in BOOLEAN :
       EngineStep([engine EXCEPT !.step = "inspect", !.evidence = record.evidence,
                                 !.ready = ready])
  /\ UNCHANGED faults

\* inspect_deployment, its first read.
InspectRead ==
  /\ At("inspect")
  /\ EngineStep([engine EXCEPT !.step = IF live.there THEN "list" ELSE "judge",
                               !.state = Inspected,
                               !.replicas = IF live.there THEN live.replicas ELSE 0])
  /\ UNCHANGED faults

\* _revisions: the ReplicaSets, and which template is the requested revision's.
InspectList ==
  LET r == record.proposal.revision IN
  /\ At("list")
  /\ EngineStep([engine EXCEPT !.step = "current",
                               !.revisions = DOMAIN history,
                               !.template = IF r \in DOMAIN history THEN history[r] ELSE 0])
  /\ UNCHANGED faults

\* _revisions reads the Deployment again for the current revision, and goes on
\* with revision 1 if that fails.  A state without any revision is not valid.
InspectCurrent ==
  /\ At("current")
  /\ IF engine.revisions = {} THEN EngineStep(Raised) /\ UNCHANGED faults
     ELSE \/ /\ live.there
             /\ EngineStep([engine EXCEPT !.step = "judge", !.current = live.rev])
             /\ UNCHANGED faults
          \/ /\ EngineStep([engine EXCEPT !.step = "judge", !.current = 1])
             /\ IF live.there THEN Fault ELSE UNCHANGED faults

\* The checks of evaluate before the patch; active_intervention is always
\* False and replica_quota_headroom always 0.
Failing(p) ==
  LET found == engine.state # NotFound
      listed == found /\ p.revision \in engine.revisions
  IN  [evidence_current       |-> engine.evidence # 0,
       enrollment_ready       |-> ~ engine.ready,
       target_enrolled        |-> "declared" \notin p.grants,
       target_executable      |-> ~ {"declared", "executable"} \subseteq p.grants,
       action_allowed         |-> ~ {"declared", "allowed"} \subseteq p.grants,
       live_state_available   |-> ~ found,
       no_active_intervention |-> ~ found,
       revision_available     |-> p.type = "rollback" /\ ~ listed,
       restoration_safe       |-> /\ p.type = "rollback"
                                  /\ \/ ~ listed
                                     \/ engine.template \in Unrestorable
                                     \/ p.revision = engine.current,
       replica_bounds         |-> /\ p.type = "scale"
                                  /\ \/ "declared" \notin p.grants
                                     \/ p.replicas \notin Minimum..Maximum,
       replica_quota          |-> /\ p.type = "scale"
                                  /\ ~ found \/ p.replicas > engine.replicas,
       server_dry_run         |-> FALSE]

Rejection(status, codes) ==
  [status |-> status, failed |-> codes, state |-> engine.state, diff |-> NoDiff]

Judge ==
  LET failed == {c \in Codes : Failing(record.proposal)[c]} IN
  /\ At("judge")
  /\ EngineStep(IF failed = {} THEN [engine EXCEPT !.step = "dry_run"]
                ELSE [engine EXCEPT !.step = "record",
                                    !.decision = Rejection("rejected", failed)])
  /\ UNCHANGED faults

DryRunFailed ==
  [engine EXCEPT !.step = "record",
                 !.decision = Rejection("dry_run_failed", {"server_dry_run"})]

\* The API server takes a patch only at the resourceVersion it names; any
\* failure of the call is a rejection.
DryRun ==
  /\ At("dry_run")
  /\ \/ live.there /\ liveRv = engine.state.rv
        /\ EngineStep([engine EXCEPT !.step = "diff_read"]) /\ UNCHANGED faults
     \/ /\ EngineStep(DryRunFailed)
        /\ IF live.there /\ liveRv = engine.state.rv THEN Fault ELSE UNCHANGED faults

\* dry_run_deployment_patch inspects the Deployment again for what it tells.
DiffRead ==
  /\ At("diff_read")
  /\ EngineStep(IF ~ live.there THEN DryRunFailed
                ELSE [engine EXCEPT !.step = "diff_list",
                        !.decision.diff.from = CASE record.proposal.type = "scale" -> live.replicas
                                                 [] record.proposal.type = "rollback" -> live.rev
                                                 [] OTHER -> 0])
  /\ UNCHANGED faults

\* _revision_for_template: the template of the patch has to be listed.
Named ==
  IF record.proposal.type = "rollback"
  THEN {r \in DOMAIN history : history[r] = engine.template}
  ELSE IF DOMAIN history = {} THEN {}
  ELSE {IF record.proposal.type = "scale" THEN record.proposal.replicas ELSE 0}

DiffList ==
  /\ At("diff_list")
  /\ \/ \E to \in Named :
          EngineStep([engine EXCEPT !.step = "record",
                        !.decision = [status |-> "passed", failed |-> {},
                                      state |-> engine.state,
                                      diff |-> [@.diff EXCEPT !.to = to]]])
     \/ Named = {} /\ EngineStep(Raised)
  /\ UNCHANGED faults

\* record_policy_decision: once, and a passed one needs the transition.
RecordDecision ==
  LET d == engine.decision IN
  /\ At("record")
  /\ IF /\ record.policy.status = "none"
        /\ d.status = "passed" => CanTransition(record, "awaiting_approval", record.outcome)
     THEN /\ engine' = Done
          /\ record' = IF d.status = "passed"
                       THEN [record EXCEPT !.policy = d, !.lifecycle = "awaiting_approval",
                                           !.version = @ + 1]
                       ELSE [record EXCEPT !.policy = d]
     ELSE engine' = Raised /\ UNCHANGED record
  /\ UNCHANGED <<clock, states, history, responder, requests, faults>>

\* The process dies, or a call of evaluate raises.
EngineFails ==
  /\ engine.step \notin {"done", "raised"}
  /\ EngineStep(Raised)
  /\ Fault

-----------------------------------------------------------------------------
(* The Responders.  A call that raises ends, and the page forgets the      *)
(* review.                                                                 *)

ResponderStep(p, l) ==
  /\ responder' = [responder EXCEPT ![p] = l]
  /\ UNCHANGED <<clock, states, history, engine>>

\* What the calls take from the record.
Read == [NoBinding EXCEPT !.version = record.version, !.evidence = record.evidence,
                          !.lifecycle = record.lifecycle]

\* build_approval_binding, before the Deployment is looked at.
Reviewable == record.policy.status = "passed" /\ record.approval = NoApproval

\* Mutant: the state of the Deployment is compared by its revision alone.
SameRevision(state) == state.rev = record.policy.state.rev

\* build_approval_binding: the Deployment is the one the policy saw.
MatchesPolicy(state) == state = record.policy.state

\* review: its read of the record.
Review(p) ==
  /\ responder[p].step = "idle"
  /\ Reviewable
  /\ ResponderStep(p, [Idle EXCEPT !.step = "review_inspect", !.read = Read])
  /\ UNCHANGED <<record, requests, faults>>

ReviewInspect(p) ==
  /\ responder[p].step = "review_inspect"
  /\ ResponderStep(p, IF live.there /\ MatchesPolicy(Inspected)
                      THEN [Idle EXCEPT !.step = "reviewed",
                              !.binding = [responder[p].read EXCEPT !.state = Inspected,
                                                            !.expires = clock + ReviewTTL]]
                      ELSE Idle)
  /\ UNCHANGED <<record, requests, faults>>

\* decide: clock() and the read of the record.
Decide(p, decision) ==
  LET l == responder[p] IN
  /\ l.step = "reviewed"
  /\ ResponderStep(p, IF l.binding.expires > clock /\ Reviewable
                      THEN [l EXCEPT !.step = "decide_inspect", !.decision = decision,
                                     !.read = Read]
                      ELSE Idle)
  /\ UNCHANGED <<record, requests, faults>>

\* The context of the moment is the one that was reviewed.
DecideInspect(p) ==
  LET l == responder[p]
      current == [l.read EXCEPT !.state = Inspected, !.expires = l.binding.expires]
  IN  /\ l.step = "decide_inspect"
      /\ ResponderStep(p, IF /\ live.there /\ MatchesPolicy(Inspected)
                             /\ [current EXCEPT !.lifecycle = l.binding.lifecycle] = l.binding
                          THEN [l EXCEPT !.step = "record", !.read = NoBinding] ELSE Idle)
      /\ UNCHANGED <<record, requests, faults>>

\* Mutant: the store does not look at the version.
StillUndecided(b) ==
  /\ record.approval = NoApproval
  /\ record.policy.status = "passed"
  /\ b.evidence = record.evidence
  /\ MatchesPolicy(b.state)

\* What record_approval_decision asks of the document, with
\* approval_matches_record.
DecisionStands(b) ==
  /\ record.version = b.version
  /\ record.approval = NoApproval
  /\ record.policy.status = "passed"
  /\ b.evidence = record.evidence
  /\ MatchesPolicy(b.state)

\* It does not raise.
CanRecordDecision(b) == DecisionStands(b) /\ b.expires > clock

\* The callback of the transaction.
CheckDecision(p) ==
  /\ responder[p].step = "record"
  /\ ResponderStep(p, IF CanRecordDecision(responder[p].binding)
                      THEN [responder[p] EXCEPT !.step = "commit"] ELSE Idle)
  /\ UNCHANGED <<record, requests, faults>>

\* Mutant: whatever was decided is published.
AfterAnyDecision(decision) == "publish"

\* Only an approval goes on.
AfterDecision(decision) == IF decision = "approved" THEN "publish" ELSE "idle"

\* The commit of record_approval_decision, which may come after the expiry; its
\* reply may be lost, and a transaction that is tried again finds its own decision
\* and raises.  If the document has changed, the callback runs again.
RecordApprovalDecision(p) ==
  LET l == responder[p] IN
  /\ l.step = "commit"
  /\ \/ /\ DecisionStands(l.binding)
        /\ record' = [record EXCEPT
                        !.approval = [decision |-> l.decision, by |-> p,
                                      binding |-> l.binding],
                        !.version  = @ + 1]
        /\ \/ /\ ResponderStep(p, IF AfterDecision(l.decision) = "publish"
                                  THEN [l EXCEPT !.step = "publish"] ELSE Idle)
              /\ UNCHANGED faults
           \/ ResponderStep(p, Idle) /\ Fault
     \/ /\ ~ CanRecordDecision(l.binding)
        /\ ResponderStep(p, Idle)
        /\ UNCHANGED <<record, faults>>
  /\ UNCHANGED requests

ApprovalOf(p) == [decision |-> responder[p].decision, by |-> p,
                  binding |-> responder[p].binding]

\* Mutant: the request is built only if the Approval has not expired by then.
PublishInTime(p) ==
  /\ responder[p].step = "publish"
  /\ IF responder[p].binding.expires > clock
     THEN /\ requests' = Append(requests, ApprovalOf(p))
          /\ ResponderStep(p, [responder[p] EXCEPT !.step = "announce"])
     ELSE ResponderStep(p, Idle) /\ UNCHANGED requests
  /\ UNCHANGED <<record, faults>>

\* build_intervention_request from the record the store returned and the time
\* decide began at, and publish, whose reply may be lost.
Publish(p) ==
  /\ responder[p].step = "publish"
  /\ requests' = Append(requests, ApprovalOf(p))
  /\ \/ ResponderStep(p, [responder[p] EXCEPT !.step = "announce"]) /\ UNCHANGED faults
     \/ ResponderStep(p, Idle) /\ Fault
  /\ UNCHANGED record

\* append_audit_event of intervention_requested, which leaves the version alone.
Announce(p) ==
  /\ responder[p].step = "announce"
  /\ record' = [record EXCEPT !.requested = TRUE]
  /\ ResponderStep(p, Idle)
  /\ UNCHANGED <<requests, faults>>

\* The call fails before it took effect, or its process dies.
CallFails(p) ==
  /\ responder[p].step \notin {"idle", "reviewed"}
  /\ ResponderStep(p, Idle)
  /\ Fault
  /\ UNCHANGED <<record, requests>>

\* The Responder leaves the page.
Leave(p) ==
  /\ responder[p].step = "reviewed"
  /\ ResponderStep(p, Idle)
  /\ UNCHANGED <<record, requests, faults>>

-----------------------------------------------------------------------------
Engines ==
  \/ Evaluate \/ InspectRead \/ InspectList \/ InspectCurrent \/ Judge
  \/ DryRun \/ DiffRead \/ DiffList \/ RecordDecision

\* A call goes on until it ends.
CallStep(p) ==
  \/ ReviewInspect(p) \/ DecideInspect(p) \/ CheckDecision(p)
  \/ RecordApprovalDecision(p) \/ Publish(p) \/ Announce(p)

Next ==
  \/ Tick \/ ExternalWrite \/ Prune \/ QueryEvidence \/ Close
  \/ Engines \/ EngineFails
  \/ \E p \in Responders :
       \/ Review(p) \/ Leave(p) \/ CallFails(p) \/ CallStep(p)
       \/ \E d \in {"approved", "rejected"} : Decide(p, d)

Spec == Init /\ [][Next]_vars

\* Nothing in a call waits for anything but a reply, and replies come.
FairSpec ==
  Spec /\ WF_vars(Engines) /\ \A p \in Responders : WF_vars(CallStep(p))

-----------------------------------------------------------------------------
\* The bindings Responders look at, and those that were decided on.
Reviewed ==
  {responder[p].binding : p \in {q \in Responders :
     responder[q].step \in {"reviewed", "decide_inspect", "record", "commit", "publish"}}}
  \cup IF record.approval = NoApproval THEN {} ELSE {record.approval.binding}

\* The dry-run diff tells what p's patch does to a Deployment in state s.
DiffIsTrue(diff, p, s) ==
  /\ p.type = "scale" => diff.from = s.replicas /\ diff.to = p.replicas
  /\ p.type = "rollback" => diff.from = s.rev /\ diff.to = p.revision

\* What a Responder reviews is the truth about the Deployment at the
\* resourceVersion the binding names: its generation and revision, the
\* replicas or revision the dry-run diff starts from, and the target the
\* proposal asked for; although policy engine and review put it together from
\* up to seven separate reads, between which the Deployment may be scaled,
\* released, deleted and created again, and its history pruned.
ReviewIsTruthful ==
  \A b \in Reviewed :
    /\ b.state.rv \in DOMAIN states
    /\ states[b.state.rv].there
    /\ states[b.state.rv].gen = b.state.gen
    /\ states[b.state.rv].rev = b.state.rev
    /\ DiffIsTrue(record.policy.diff, record.proposal, states[b.state.rv])

\* When a decision is recorded, nothing has happened to the Incident since its
\* review: no evidence, no closure, no other decision, though all of these may
\* come between any two calls of decide, or while the transaction is under way.
\* (That the review has not expired is known only of the callback.)
DecidedAsReviewed ==
  [][record'.approval # record.approval =>
       LET b == record'.approval.binding IN
       /\ record.approval = NoApproval
       /\ record.evidence = b.evidence
       /\ record.lifecycle = b.lifecycle]_vars

\* At most one request is published, it carries the one recorded APPROVED
\* decision, and the audit event that says so is never there without it,
\* whichever Responders decide at the same time and whatever replies are lost.
PublishedIsApproved ==
  /\ Len(requests) <= 1
  /\ requests # <<>> => /\ requests[1] = record.approval
                        /\ record.approval.decision = "approved"
  /\ record.requested => requests # <<>>

\* Why that is so: whoever is about to publish holds the recorded decision,
\* and whoever is about to announce has published.
PublishersHoldIt ==
  \A p \in Responders :
    /\ responder[p].step = "publish" =>
         /\ requests = <<>>
         /\ record.approval = ApprovalOf(p)
         /\ responder[p].decision = "approved"
    /\ responder[p].step = "announce" => requests # <<>>

\* An equal version means that the lifecycle is the one that was read.
AsOf(b) ==
  /\ b.version <= record.version
  /\ b.version = record.version => b.lifecycle = record.lifecycle

VersionsNameLifecycles ==
  \A p \in Responders :
    /\ responder[p].step \in {"review_inspect", "decide_inspect"} => AsOf(responder[p].read)
    /\ responder[p].step \in {"reviewed", "decide_inspect", "record", "commit"} =>
         AsOf(responder[p].binding)

\* The state in c was the Deployment's at the resourceVersion it names.
WasSeen(c) ==
  /\ c.rv \in DOMAIN states
  /\ states[c.rv].there /\ states[c.rv].gen = c.gen /\ states[c.rv].rev = c.rev

\* A template belongs to one revision, and what the policy engine read is what
\* was there, as long as the resourceVersion has not moved on.
EngineIsCurrent ==
  /\ engine.step # "record" => engine.decision.status = "none"
  /\ \A q, r \in DOMAIN history : history[q] = history[r] => q = r
  /\ engine.state = NotFound \/ WasSeen(engine.state)
  /\ engine.state # NotFound => states[engine.state.rv].replicas = engine.replicas
  /\ engine.step \in {"list", "current", "dry_run", "diff_read", "diff_list"} =>
       engine.state # NotFound
  /\ /\ engine.step \in {"current", "judge", "dry_run", "diff_read", "diff_list"}
     /\ engine.state.rv = liveRv
     /\ record.proposal.revision \in engine.revisions
     => \A r \in DOMAIN history :
          history[r] = engine.template => r = record.proposal.revision
  /\ engine.step \in {"dry_run", "diff_read", "diff_list"} =>
       (record.proposal.type = "rollback" => record.proposal.revision \in engine.revisions)
  /\ engine.step = "diff_list" /\ engine.state.rv = liveRv =>
       /\ record.proposal.type = "scale" => engine.decision.diff.from = live.replicas
       /\ record.proposal.type = "rollback" => engine.decision.diff.from = live.rev

\* Only a proposal that passed is reviewed or decided.
ReviewedHasPassed ==
  /\ \A p \in Responders : responder[p].step # "idle" => record.policy.status = "passed"
  /\ record.approval # NoApproval => record.policy.status = "passed"
  /\ \A b \in Reviewed : b.state = record.policy.state

\* A passed decision is about a state there was, and its diff is true or the
\* resourceVersion has moved on, so that nobody can review it.
PassedIsCurrent(d) ==
  d.status = "passed" =>
    /\ WasSeen(d.state)
    /\ d.state.rv = liveRv => DiffIsTrue(d.diff, record.proposal, live)

ApprovalInvariant ==
  /\ ApprovalTypeOK
  /\ PublishedIsApproved
  /\ PublishersHoldIt
  /\ VersionsNameLifecycles
  /\ ReviewedHasPassed
  /\ EngineIsCurrent
  /\ PassedIsCurrent(engine.decision)
  /\ PassedIsCurrent(record.policy)
  /\ ReviewIsTruthful

\* The decision and its publication are two calls: without a crash or a lost
\* reply between them every recorded approval is published, however late.
DecisionIsPublished ==
  record.approval.decision = "approved" ~> (requests # <<>> \/ faults > 0)

\* What the check RESTORATION_SAFE says of a proposal that passed ("complete,
\* non-implicated restoration evidence"): the rollback is not to the revision
\* that was running.
RestorationIsSafe ==
  record.policy.status = "passed" /\ record.proposal.type = "rollback" =>
    record.proposal.revision # states[record.policy.state.rv].rev
=============================================================================
