--------------------------- MODULE IncidentRecord ---------------------------
(***************************************************************************)
(* The Investigation Record and the operations of the Incident store on    *)
(* it that Approval and Execution use: the transition tables and           *)
(* transition_incident of domain/incidents.py, and the store methods of    *)
(* domain/incident_fakes.py, which services/incident_store.py runs inside  *)
(* one Firestore transaction each.  An operation is a guard (CanX: the     *)
(* code raises ValueError and writes nothing when it is false) and the     *)
(* record it writes.                                                       *)
(*                                                                         *)
(* A record has at most one Approval and so at most one Intervention; both *)
(* are folded into fields.  Hashes are abstracted to what they tell apart: *)
(* the number of evidence observations stands for the evidence hash, and   *)
(* the Deployment state the policy decision saw for policy and patch.      *)
(* Of the audit timeline the record keeps the set of those event types     *)
(* that no other field implies.                                            *)
(***************************************************************************)
EXTENDS Naturals

Lifecycles == {"open", "investigating", "awaiting_approval", "mitigating",
               "monitoring", "resolved", "closed"}

InterventionOutcomes == {"not_started", "monitoring", "succeeded",
                         "rolled_back", "failed", "safe_halted"}

\* The stored state of the Intervention; "none" until it is claimed.
InterventionStates == {"none", "running", "succeeded", "rolled_back",
                       "failed", "safe_halted"}

TerminalStates == InterventionStates \ {"none", "running"}

AuditTypes == {"refused", "mutated", "restoration_mutated"}

\* The records, where States are the Deployment states.
Records(States) ==
  [lifecycle        : Lifecycles,
   outcome          : InterventionOutcomes,
   version          : Nat,
   evidence         : Nat,      \* number of observations
   policy           : BOOLEAN,  \* there is a policy decision that passed
   policyState      : States,   \* what it saw of the Deployment
   policyEvidence   : Nat,      \* and of the evidence
   approved         : BOOLEAN,  \* there is an Approval
   approvalExpires  : Nat,
   approvalEvidence : Nat,
   intervention     : InterventionStates,
   audit            : SUBSET AuditTypes]

LifecycleTransitions ==
  [open              |-> {"investigating", "closed"},
   investigating     |-> {"awaiting_approval", "monitoring", "closed"},
   awaiting_approval |-> {"investigating", "mitigating", "closed"},
   mitigating        |-> {"monitoring", "closed"},
   monitoring        |-> {"mitigating", "resolved", "closed"},
   resolved          |-> {"closed"},
   closed            |-> {}]

InterventionOutcomeTransitions ==
  [not_started |-> {"monitoring", "succeeded", "rolled_back", "failed",
                    "safe_halted"},
   monitoring  |-> {"succeeded", "rolled_back", "failed", "safe_halted"},
   succeeded   |-> {},
   rolled_back |-> {},
   failed      |-> {},
   safe_halted |-> {}]

\* transition_incident raises ValueError when this is false.
CanTransition(r, lifecycle, outcome) ==
  /\ lifecycle = r.lifecycle \/ lifecycle \in LifecycleTransitions[r.lifecycle]
  /\ outcome = r.outcome \/ outcome \in InterventionOutcomeTransitions[r.outcome]

(***************************************************************************)
(* record_policy_decision of a passed decision that saw deployment state d. *)
(***************************************************************************)
CanRecordPolicy(r) ==
  ~ r.policy /\ CanTransition(r, "awaiting_approval", r.outcome)

RecordPolicy(r, d) ==
  [r EXCEPT !.policy         = TRUE,
            !.policyState    = d,
            !.policyEvidence = r.evidence,
            !.lifecycle      = "awaiting_approval",
            !.version        = @ + 1]

\* approval_matches_record: the evidence hash is the only part of the
\* binding that another operation can change after the decision.
ApprovalMatches(r) == r.policy /\ r.approvalEvidence = r.evidence

\* record_approval_decision, decision APPROVED, made against the current
\* evidence.  There is no condition on the lifecycle.
CanRecordApproval(r, version) ==
  r.policy /\ ~ r.approved /\ r.version = version

RecordApproval(r, expires) ==
  [r EXCEPT !.approved         = TRUE,
            !.approvalExpires  = expires,
            !.approvalEvidence = r.evidence,
            !.version          = @ + 1]

\* Mutant: the claim does not look for an earlier one.
CanClaimAgain(r, version) ==
  /\ r.version = version
  /\ r.approved
  /\ CanTransition(r, "mitigating", r.outcome)

\* record_intervention: the claim.
CanRecordIntervention(r, version) ==
  /\ r.version = version
  /\ r.approved
  /\ r.intervention = "none"
  /\ CanTransition(r, "mitigating", r.outcome)

RecordIntervention(r) ==
  [r EXCEPT !.intervention = "running",
            !.lifecycle    = "mitigating",
            !.version      = @ + 1]

\* update_intervention to a terminal state.
LifecycleAfter(r, state) ==
  IF state = "succeeded" THEN "monitoring" ELSE r.lifecycle

OutcomeAfter(state) == IF state = "succeeded" THEN "monitoring" ELSE state

\* Mutant: the transition tables are not consulted.
CanUpdateUnchecked(r, state) ==
  r.intervention = "running" /\ state \in TerminalStates

\* Mutant: an Intervention that is not running is updated.
CanUpdateSettled(r, state) ==
  /\ state \in TerminalStates
  /\ CanTransition(r, LifecycleAfter(r, state), OutcomeAfter(state))

CanUpdateIntervention(r, state) ==
  /\ r.intervention = "running"
  /\ state \in TerminalStates
  /\ CanTransition(r, LifecycleAfter(r, state), OutcomeAfter(state))

\* Mutant: lifecycle and outcome are swapped.
UpdateSwapped(r, state) ==
  [r EXCEPT !.intervention = state,
            !.lifecycle    = OutcomeAfter(state),
            !.outcome      = LifecycleAfter(r, state),
            !.version      = @ + 1]

UpdateIntervention(r, state) ==
  [r EXCEPT !.intervention = state,
            !.lifecycle    = LifecycleAfter(r, state),
            !.outcome      = OutcomeAfter(state),
            !.version      = @ + 1]

\* close_incident: transition_incident, then compare_and_set on the version.
CanClose(r) == CanTransition(r, "closed", r.outcome)

CloseIncident(r) == [r EXCEPT !.lifecycle = "closed", !.version = @ + 1]

\* append_evidence and append_audit_event leave the version alone.
AppendEvidence(r) == [r EXCEPT !.evidence = @ + 1]

AppendAudit(r, type) == [r EXCEPT !.audit = @ \cup {type}]

\* The record when the Council has completed with a proposal.
InitialRecord(d) ==
  [lifecycle        |-> "investigating",
   outcome          |-> "not_started",
   version          |-> 0,
   evidence         |-> 0,
   policy           |-> FALSE,
   policyState      |-> d,
   policyEvidence   |-> 0,
   approved         |-> FALSE,
   approvalExpires  |-> 0,
   approvalEvidence |-> 0,
   intervention     |-> "none",
   audit            |-> {}]
=============================================================================
