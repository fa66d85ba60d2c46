--------------------------- MODULE ApprovalProofs ---------------------------
(***************************************************************************)
(* Proofs about Approval for any Responders, proposals, times and numbers  *)
(* of writes, observations and faults.                                     *)
(***************************************************************************)
EXTENDS Approval, TLAPS

-----------------------------------------------------------------------------
(* Types. *)

LEMMA SeenTypes ==
  ASSUME ApprovalTypeOK
  PROVE  /\ liveRv \in Nat /\ liveRv >= 1 /\ DOMAIN states = 1..liveRv
         /\ live \in State
         /\ NotFound \in Seen /\ Inspected \in Seen
<1>1. /\ liveRv \in Nat /\ liveRv >= 1 /\ DOMAIN states = 1..liveRv
      /\ live \in State
  BY DEF ApprovalTypeOK, liveRv, live
<1>2. NotFound \in Seen
  BY DEF NotFound, Seen
<1>3. live.gen \in Nat /\ live.rev \in Nat
  BY <1>1 DEF State
<1>4. [rv |-> liveRv, gen |-> live.gen, rev |-> live.rev] \in Seen
  BY <1>1, <1>3 DEF Seen
<1> QED BY <1>1, <1>2, <1>4 DEF Inspected

LEMMA Defaults ==
  /\ NoDiff \in Diff /\ NoDecision \in Decision
  /\ NoBinding \in Binding /\ NoApproval \in Approvals
  /\ Idle \in Responder
<1>1. NotFound \in Seen
  BY DEF NotFound, Seen
<1>2. NoDiff \in Diff
  BY DEF NoDiff, Diff
<1>3. NoDecision \in Decision
  BY <1>1, <1>2 DEF NoDecision, Decision
<1>4. NoBinding \in Binding
  BY <1>1 DEF NoBinding, Binding, Lifecycles
<1>5. NoApproval \in Approvals
  BY <1>4 DEF NoApproval, Approvals
<1>6. Idle \in Responder
  BY <1>4 DEF Idle, Responder
<1> QED BY <1>2, <1>3, <1>4, <1>5, <1>6

LEMMA EngineDefaults ==
  NewEngine \in Engine /\ Raised \in Engine /\ Done \in Engine
<1>1. NewEngine \in Engine
  BY Defaults DEF NewEngine, Engine, NoDecision, NotFound, Seen
<1> QED BY <1>1 DEF Raised, Done, Engine

\* A step of the engine changes nothing else.
LEMMA TypesAfterEngine ==
  ASSUME ApprovalTypeOK, NEW e \in Engine, EngineStep(e), faults' \in Nat
  PROVE  ApprovalTypeOK'
BY DEF ApprovalTypeOK, EngineStep

LEMMA EngineTypes ==
  ASSUME ApprovalTypeOK, Engines \/ EngineFails
  PROVE  ApprovalTypeOK'
<1> USE EngineDefaults
<1>1. /\ engine \in Engine /\ faults \in Nat /\ MaxFaults \in Nat
      /\ record \in Record /\ record.evidence \in Nat
      /\ record.proposal \in Proposal
      /\ DOMAIN history \subseteq Nat /\ \A r \in DOMAIN history : history[r] \in Nat
  BY ApprovalAssumption DEF ApprovalTypeOK, Record
<1>2. /\ live \in State /\ Inspected \in Seen
      /\ live.rev \in Nat /\ live.replicas \in Nat
  BY SeenTypes DEF State
<1>3. record.proposal.revision \in Nat /\ record.proposal.replicas \in Nat
  BY <1>1 DEF Proposal
<1>4. faults' = faults \/ Fault => faults' \in Nat
  BY <1>1 DEF Fault
<1>5. CASE Evaluate
  <2>1. PICK ready \in BOOLEAN :
          EngineStep([engine EXCEPT !.step = "inspect", !.evidence = record.evidence,
                                    !.ready = ready])
    BY <1>5 DEF Evaluate
  <2>2. [engine EXCEPT !.step = "inspect", !.evidence = record.evidence,
                       !.ready = ready] \in Engine
    BY <1>1 DEF Engine
  <2> QED BY <1>4, <1>5, <2>1, <2>2, TypesAfterEngine DEF Evaluate
<1>6. CASE InspectRead
  <2>1. [engine EXCEPT !.step = IF live.there THEN "list" ELSE "judge",
                       !.state = Inspected,
                       !.replicas = IF live.there THEN live.replicas ELSE 0] \in Engine
    BY <1>1, <1>2 DEF Engine
  <2> QED BY <1>4, <1>6, <2>1, TypesAfterEngine DEF InspectRead
<1>7. CASE InspectList
  <2> DEFINE r == record.proposal.revision
             t == IF r \in DOMAIN history THEN history[r] ELSE 0
  <2>1. t \in Nat
    BY <1>1
  <2>2. [engine EXCEPT !.step = "current", !.revisions = DOMAIN history,
                       !.template = t] \in Engine
    BY <1>1, <2>1 DEF Engine
  <2> QED BY <1>4, <1>7, <2>2, TypesAfterEngine DEF InspectList
<1>8. CASE InspectCurrent
  <2>1. \A c \in Nat : [engine EXCEPT !.step = "judge", !.current = c] \in Engine
    BY <1>1 DEF Engine
  <2> QED BY <1>2, <1>4, <1>8, <2>1, TypesAfterEngine DEF InspectCurrent
<1>9. \A status \in {"rejected", "dry_run_failed"}, codes \in SUBSET Codes :
        [engine EXCEPT !.step = "record", !.decision = Rejection(status, codes)] \in Engine
  BY <1>1, Defaults DEF Engine, Rejection, Decision
<1>10. CASE Judge
  <2>1. [engine EXCEPT !.step = "dry_run"] \in Engine
    BY <1>1 DEF Engine
  <2>2. {c \in Codes : Failing(record.proposal)[c]} \in SUBSET Codes
    OBVIOUS
  <2> QED BY <1>4, <1>9, <1>10, <2>1, <2>2, TypesAfterEngine DEF Judge
<1>11. DryRunFailed \in Engine
  BY <1>9 DEF DryRunFailed, Codes
<1>12. CASE DryRun
  <2>1. [engine EXCEPT !.step = "diff_read"] \in Engine
    BY <1>1 DEF Engine
  <2> QED BY <1>4, <1>11, <1>12, <2>1, TypesAfterEngine DEF DryRun
<1>13. CASE DiffRead
  <2>1. \A n \in Nat : [engine EXCEPT !.step = "diff_list", !.decision.diff.from = n] \in Engine
    BY <1>1 DEF Engine, Decision, Diff
  <2> DEFINE n == CASE record.proposal.type = "scale" -> live.replicas
                    [] record.proposal.type = "rollback" -> live.rev
                    [] OTHER -> 0
  <2>2. n \in Nat
    BY <1>2, <1>3
  <2>3. EngineStep(DryRunFailed)
        \/ EngineStep([engine EXCEPT !.step = "diff_list", !.decision.diff.from = n])
    BY <1>13 DEF DiffRead
  <2> HIDE DEF n
  <2> QED BY <1>4, <1>11, <1>13, <2>1, <2>2, <2>3, TypesAfterEngine DEF DiffRead
<1>14. CASE DiffList
  <2>1. Named \subseteq Nat
    BY <1>1, <1>3 DEF Named
  <2>2. \A to \in Nat :
          [engine EXCEPT !.step = "record",
             !.decision = [status |-> "passed", failed |-> {}, state |-> engine.state,
                           diff |-> [@.diff EXCEPT !.to = to]]] \in Engine
    BY <1>1 DEF Engine, Decision, Diff
  <2> QED BY <1>4, <1>14, <2>1, <2>2, TypesAfterEngine DEF DiffList
<1>15. CASE RecordDecision
  <2>1. engine' \in Engine
    BY <1>15 DEF RecordDecision
  <2>2. /\ engine.decision \in Decision /\ record.version + 1 \in Nat
        /\ "awaiting_approval" \in Lifecycles
    BY <1>1 DEF Engine, Record, Lifecycles
  <2>3. record' \in Record
    BY <1>1, <1>15, <2>2 DEF RecordDecision, Record
  <2> QED BY <1>15, <2>1, <2>3 DEF RecordDecision, ApprovalTypeOK
<1>16. CASE EngineFails
  BY <1>4, <1>16, TypesAfterEngine DEF EngineFails
<1> QED BY <1>5, <1>6, <1>7, <1>8, <1>10, <1>12, <1>13, <1>14, <1>15, <1>16 DEF Engines

LEMMA EnvironmentTypes ==
  ASSUME ApprovalTypeOK, Tick \/ ExternalWrite \/ Prune \/ QueryEvidence \/ Close
  PROVE  ApprovalTypeOK'
<1>1. /\ live \in State /\ live.gen \in Nat /\ live.rev \in Nat /\ live.replicas \in Nat
      /\ liveRv \in Nat
      /\ InitialReplicas \in Nat /\ ExternalReplicas \subseteq Nat
      /\ DOMAIN history \subseteq Nat /\ \A r \in DOMAIN history : history[r] \in Nat
  BY SeenTypes, ApprovalAssumption DEF State, ApprovalTypeOK
<1>2. CASE Tick
  BY <1>2 DEF Tick, ApprovalTypeOK
<1>3. CASE ExternalWrite
  <2>1. PICK s \in State : Store(s)
    <3>0. live.gen + 1 \in Nat /\ live.rev + 1 \in Nat
      BY <1>1
    <3>1. \A n \in ExternalReplicas : [live EXCEPT !.gen = @ + 1, !.replicas = n] \in State
      BY <1>1, <3>0 DEF State
    <3>2. [live EXCEPT !.gen = @ + 1, !.rev = @ + 1] \in State
      BY <1>1, <3>0 DEF State
    <3>3. [live EXCEPT !.there = FALSE] \in State
      BY <1>1 DEF State
    <3>4. [InitialState EXCEPT !.gen = 1, !.rev = 1] \in State
      BY <1>1 DEF State, InitialState
    <3> QED BY <1>1, <1>3, <3>1, <3>2, <3>3, <3>4 DEF ExternalWrite
  <2>2. states' \in Seq(State) /\ states' # <<>>
    BY <2>1 DEF Store, ApprovalTypeOK
  <2>3. DOMAIN history' \subseteq Nat /\ \A r \in DOMAIN history' : history'[r] \in Nat
    <3>1. CASE UNCHANGED history
      BY <1>1, <3>1
    <3>2. ASSUME NEW t \in {live.rev + 1} \cup {history[r] : r \in DOMAIN history \ {live.rev}},
                 history' = Relabelled(t)
          PROVE  DOMAIN history' \subseteq Nat /\ \A r \in DOMAIN history' : history'[r] \in Nat
      <4>1. t \in Nat /\ live.rev + 1 \in Nat
        BY <1>1
      <4> QED BY <1>1, <3>2, <4>1 DEF Relabelled
    <3>3. CASE history' = <<>> \/ history' = [r \in {1} |-> 1]
      BY <3>3
    <3> QED BY <1>3, <3>1, <3>2, <3>3 DEF ExternalWrite
  <2> QED BY <1>3, <2>2, <2>3 DEF ExternalWrite, ApprovalTypeOK
<1>4. CASE Prune
  BY <1>1, <1>4 DEF Prune, ApprovalTypeOK
<1>5. CASE QueryEvidence \/ Close
  <2>1. record \in Record
    BY DEF ApprovalTypeOK
  <2>2. record.evidence + 1 \in Nat /\ record.version + 1 \in Nat /\ "closed" \in Lifecycles
    BY <2>1 DEF Record, Lifecycles
  <2>3. AppendEvidence(record) \in Record
    BY <2>1, <2>2 DEF Record, AppendEvidence
  <2>4. CloseIncident(record) \in Record
    BY <2>1, <2>2 DEF Record, CloseIncident
  <2> QED BY <1>5, <2>3, <2>4 DEF QueryEvidence, Close, ApprovalTypeOK
<1> QED BY <1>2, <1>3, <1>4, <1>5

\* What a responder's step writes.
LEMMA TypesAfterResponder ==
  ASSUME ApprovalTypeOK, NEW p \in Responders, NEW l \in Responder, ResponderStep(p, l),
         record' \in Record, requests' \in Seq(Approvals), faults' \in Nat
  PROVE  ApprovalTypeOK'
BY DEF ApprovalTypeOK, ResponderStep

LEMMA ResponderTypes ==
  ASSUME ApprovalTypeOK, NEW p \in Responders,
         \/ Review(p) \/ Leave(p) \/ CallFails(p) \/ CallStep(p)
         \/ \E d \in {"approved", "rejected"} : Decide(p, d)
  PROVE  ApprovalTypeOK'
<1> DEFINE l == responder[p]
<1>1. /\ l \in Responder /\ l.binding \in Binding /\ l.read \in Binding
      /\ l.decision \in {"none", "approved", "rejected"} /\ Idle \in Responder
      /\ record \in Record /\ record.version \in Nat /\ record.evidence \in Nat
      /\ record.lifecycle \in Lifecycles
      /\ requests \in Seq(Approvals) /\ clock \in Nat /\ ReviewTTL \in Nat
  BY Defaults, ApprovalAssumption DEF ApprovalTypeOK, Responder, Record
<1>2. faults' = faults \/ Fault => faults' \in Nat
  BY DEF Fault, ApprovalTypeOK
<1>3. Read \in Binding
  BY <1>1, Defaults DEF Read, Binding, Seen, NoBinding, NotFound
<1>4. ApprovalOf(p) \in Approvals
  BY <1>1 DEF ApprovalOf, Approvals
<1>5. CASE Review(p)
  <2>1. [Idle EXCEPT !.step = "review_inspect", !.read = Read] \in Responder
    BY <1>1, <1>3 DEF Responder
  <2> QED BY <1>1, <1>2, <1>5, <2>1, TypesAfterResponder DEF Review
<1>6. CASE ReviewInspect(p)
  <2>1. [l.read EXCEPT !.state = Inspected, !.expires = clock + ReviewTTL] \in Binding
    <3>1. clock + ReviewTTL \in Nat /\ Inspected \in Seen /\ l.read \in Binding
      BY <1>1, SeenTypes
    <3> HIDE DEF l
    <3> QED BY <3>1 DEF Binding
  <2>2. [Idle EXCEPT !.step = "reviewed",
           !.binding = [l.read EXCEPT !.state = Inspected,
                                      !.expires = clock + ReviewTTL]] \in Responder
    BY <1>1, <2>1 DEF Responder
  <2> QED BY <1>1, <1>2, <1>6, <2>2, TypesAfterResponder DEF ReviewInspect
<1>7. ASSUME NEW d \in {"approved", "rejected"}, Decide(p, d)
      PROVE  ApprovalTypeOK'
  <2>1. [l EXCEPT !.step = "decide_inspect", !.decision = d, !.read = Read] \in Responder
    BY <1>1, <1>3 DEF Responder
  <2> QED BY <1>1, <1>2, <1>7, <2>1, TypesAfterResponder DEF Decide
<1>8. CASE DecideInspect(p)
  <2>1. [l EXCEPT !.step = "record", !.read = NoBinding] \in Responder
    BY <1>1, Defaults DEF Responder
  <2>2. ResponderStep(p, [l EXCEPT !.step = "record", !.read = NoBinding])
        \/ ResponderStep(p, Idle)
    BY <1>8 DEF DecideInspect
  <2> QED BY <1>1, <1>2, <1>8, <2>1, <2>2, TypesAfterResponder DEF DecideInspect
<1>9. CASE RecordApprovalDecision(p)
  <2>1. [l EXCEPT !.step = "publish"] \in Responder
    BY <1>1 DEF Responder
  <2>2. [decision |-> l.decision, by |-> p, binding |-> l.binding] \in Approvals
    BY <1>1 DEF Approvals
  <2>3. [record EXCEPT !.approval = [decision |-> l.decision, by |-> p,
                                     binding |-> l.binding],
                       !.version  = @ + 1] \in Record
    <3>1. record \in Record /\ record.version + 1 \in Nat
      BY <1>1
    <3> HIDE DEF l
    <3> QED BY <2>2, <3>1 DEF Record
  <2> QED BY <1>1, <1>2, <1>9, <2>1, <2>3, TypesAfterResponder DEF RecordApprovalDecision
<1>10. CASE Publish(p)
  <2>1. [l EXCEPT !.step = "announce"] \in Responder
    BY <1>1 DEF Responder
  <2>2. Append(requests, ApprovalOf(p)) \in Seq(Approvals)
    BY <1>1, <1>4
  <2> QED BY <1>1, <1>2, <1>10, <2>1, <2>2, TypesAfterResponder DEF Publish
<1>11. CASE Announce(p)
  <2>1. [record EXCEPT !.requested = TRUE] \in Record
    BY <1>1 DEF Record
  <2> QED BY <1>1, <1>2, <1>11, <2>1, TypesAfterResponder DEF Announce
<1>12. CASE Leave(p) \/ CallFails(p)
  BY <1>1, <1>2, <1>12, TypesAfterResponder DEF Leave, CallFails
<1>13. CASE CheckDecision(p)
  <2>1. [l EXCEPT !.step = "commit"] \in Responder
    BY <1>1 DEF Responder
  <2>2. ResponderStep(p, [l EXCEPT !.step = "commit"]) \/ ResponderStep(p, Idle)
    BY <1>13 DEF CheckDecision
  <2> QED BY <1>1, <1>2, <1>13, <2>1, <2>2, TypesAfterResponder DEF CheckDecision
<1> QED BY <1>5, <1>6, <1>7, <1>8, <1>9, <1>10, <1>11, <1>12, <1>13 DEF CallStep

LEMMA InitialTypes == Init => ApprovalTypeOK
<1> SUFFICES ASSUME Init PROVE ApprovalTypeOK
  OBVIOUS
<1>1. states \in Seq(State) /\ states # <<>>
  BY ApprovalAssumption DEF Init, InitialState, State
<1>2. record \in Record
  <2>1. PICK p \in Proposals :
          record = [lifecycle |-> "investigating", outcome |-> "not_started",
                    version |-> 0, evidence |-> 0, proposal |-> p,
                    policy |-> NoDecision, approval |-> NoApproval, requested |-> FALSE]
    BY DEF Init
  <2>2. "investigating" \in Lifecycles /\ "not_started" \in InterventionOutcomes
    BY DEF Lifecycles, InterventionOutcomes
  <2> QED BY <2>1, <2>2, Defaults DEF Record
<1> QED BY <1>1, <1>2, Defaults, EngineDefaults DEF Init, ApprovalTypeOK

LEMMA TypeStep ==
  ASSUME ApprovalTypeOK, [Next]_vars
  PROVE  ApprovalTypeOK'
<1>1. CASE UNCHANGED vars
  BY <1>1 DEF vars, ApprovalTypeOK
<1> QED BY <1>1, EngineTypes, EnvironmentTypes, ResponderTypes DEF Next

\* Every reachable state of a proposal's way to its publication is well typed.
THEOREM ApprovalTypeCorrect == Spec => []ApprovalTypeOK
BY InitialTypes, TypeStep, PTL DEF Spec

-----------------------------------------------------------------------------
(* The steps that are no Responder's leave approval and requests alone, and *)
(* a new lifecycle comes with a new version.                                *)

BackgroundStep ==
  Tick \/ ExternalWrite \/ Prune \/ QueryEvidence \/ Close \/ Engines \/ EngineFails

ForegroundStep(p) ==
  \/ Review(p) \/ Leave(p) \/ CallFails(p) \/ CallStep(p)
  \/ \E d \in {"approved", "rejected"} : Decide(p, d)

LEMMA Background ==
  ASSUME ApprovalTypeOK, BackgroundStep \/ UNCHANGED vars
  PROVE  /\ UNCHANGED <<responder, requests>>
         /\ record'.approval = record.approval
         /\ record'.requested = record.requested
         /\ record'.proposal = record.proposal
         /\ record'.version \in Nat /\ record'.version >= record.version
         /\ record'.version = record.version => record'.lifecycle = record.lifecycle
<1>1. record \in Record /\ record.version \in Nat
  BY DEF ApprovalTypeOK, Record
<1>2. CASE UNCHANGED record /\ UNCHANGED <<responder, requests>>
  BY <1>1, <1>2
<1>3. CASE QueryEvidence
  BY <1>1, <1>3 DEF QueryEvidence, AppendEvidence, Record
<1>4. CASE Close
  BY <1>1, <1>4 DEF Close, CloseIncident, Record
<1>5. CASE RecordDecision
  <2> DEFINE d == engine.decision
             passed == [record EXCEPT !.policy = d, !.lifecycle = "awaiting_approval",
                                      !.version = @ + 1]
             failed == [record EXCEPT !.policy = d]
  <2>1. /\ record' \in {record, passed, failed}
        /\ UNCHANGED <<responder, requests>>
    BY <1>5 DEF RecordDecision
  <2>2. CASE record' = passed
    <3> HIDE DEF d
    <3> QED BY <1>1, <2>1, <2>2 DEF Record
  <2>3. CASE record' = failed
    <3> HIDE DEF d
    <3> QED BY <1>1, <2>1, <2>3 DEF Record
  <2> QED BY <1>1, <2>1, <2>2, <2>3
<1>6. CASE Tick \/ ExternalWrite \/ Prune
  BY <1>2, <1>6 DEF Tick, ExternalWrite, Prune
<1>7. CASE EngineFails \/ (Engines /\ ~ RecordDecision)
  BY <1>2, <1>7 DEF Engines, EngineFails, EngineStep, Evaluate, InspectRead, InspectList,
                    InspectCurrent, Judge, DryRun, DiffRead, DiffList
<1>8. CASE UNCHANGED vars
  BY <1>2, <1>8 DEF vars
<1> QED BY <1>3, <1>4, <1>5, <1>6, <1>7, <1>8 DEF BackgroundStep, Engines

\* What a Responder's step writes, and nobody else's state with it.
LEMMA Foreground ==
  ASSUME ApprovalTypeOK, NEW p \in Responders, ForegroundStep(p)
  PROVE  /\ \A q \in Responders : q # p => responder'[q] = responder[q]
         /\ UNCHANGED <<clock, states, history, engine>>
         /\ record'.proposal = record.proposal /\ record'.policy = record.policy
         /\ record'.lifecycle = record.lifecycle /\ record'.evidence = record.evidence
         /\ record'.version \in Nat /\ record'.version >= record.version
<1>1. /\ record \in Record /\ record.version \in Nat
      /\ responder \in [Responders -> Responder]
  BY DEF ApprovalTypeOK, Record
<1>2. PICK l : ResponderStep(p, l)
  BY DEF ForegroundStep, CallStep, Review, ReviewInspect, Decide, DecideInspect,
         CheckDecision, RecordApprovalDecision, Publish, Announce, CallFails, Leave
<1>3. /\ \A q \in Responders : q # p => responder'[q] = responder[q]
      /\ UNCHANGED <<clock, states, history, engine>>
  BY <1>1, <1>2 DEF ResponderStep
<1>4. \/ UNCHANGED record
      \/ \E a : record' = [record EXCEPT !.approval = a, !.version = @ + 1]
      \/ record' = [record EXCEPT !.requested = TRUE]
  BY DEF ForegroundStep, CallStep, Review, ReviewInspect, Decide, DecideInspect,
         CheckDecision, RecordApprovalDecision, Publish, Announce, CallFails, Leave
<1>5. ASSUME NEW a, record' = [record EXCEPT !.approval = a, !.version = @ + 1]
      PROVE  /\ record'.proposal = record.proposal /\ record'.policy = record.policy
             /\ record'.lifecycle = record.lifecycle /\ record'.evidence = record.evidence
             /\ record'.version = record.version + 1
  BY <1>1, <1>5 DEF Record
<1>6. ASSUME record' = [record EXCEPT !.requested = TRUE]
      PROVE  /\ record'.proposal = record.proposal /\ record'.policy = record.policy
             /\ record'.lifecycle = record.lifecycle /\ record'.evidence = record.evidence
             /\ record'.version = record.version
  BY <1>1, <1>6 DEF Record
<1>7. CASE UNCHANGED record
  BY <1>1, <1>3, <1>7
<1>8. CASE \E a : record' = [record EXCEPT !.approval = a, !.version = @ + 1]
  <2>1. /\ record'.proposal = record.proposal /\ record'.policy = record.policy
        /\ record'.lifecycle = record.lifecycle /\ record'.evidence = record.evidence
        /\ record'.version = record.version + 1
    BY <1>5, <1>8
  <2> QED BY <1>1, <1>3, <2>1
<1>9. CASE record' = [record EXCEPT !.requested = TRUE]
  <2>1. /\ record'.proposal = record.proposal /\ record'.policy = record.policy
        /\ record'.lifecycle = record.lifecycle /\ record'.evidence = record.evidence
        /\ record'.version = record.version
    BY <1>6, <1>9
  <2> QED BY <1>1, <1>3, <2>1
<1> QED BY <1>4, <1>7, <1>8, <1>9

-----------------------------------------------------------------------------
(* Publication. *)

PublicationOK == PublishedIsApproved /\ PublishersHoldIt

LEMMA PublicationStep ==
  ASSUME ApprovalTypeOK, ApprovalTypeOK', PublicationOK, [Next]_vars
  PROVE  PublicationOK'
<1>1. /\ record \in Record /\ responder \in [Responders -> Responder]
      /\ requests \in Seq(Approvals)
      /\ \A p \in Responders : responder[p] \in Responder
  BY DEF ApprovalTypeOK
<1>2. CASE BackgroundStep \/ UNCHANGED vars
  <2>1. /\ UNCHANGED <<responder, requests>>
        /\ record'.approval = record.approval /\ record'.requested = record.requested
    BY <1>2, Background
  <2> QED BY <2>1 DEF PublicationOK, PublishedIsApproved, PublishersHoldIt, ApprovalOf
<1>3. ASSUME NEW p \in Responders, ForegroundStep(p)
      PROVE  PublicationOK'
  <2>1. \A q \in Responders : q # p => responder'[q] = responder[q] /\ ApprovalOf(q)' = ApprovalOf(q)
    BY <1>3, Foreground DEF ApprovalOf
  <2>2. CASE /\ responder'[p].step \notin {"publish", "announce"}
             /\ record'.approval = record.approval
             /\ record'.requested = record.requested
             /\ UNCHANGED requests
    BY <2>1, <2>2 DEF PublicationOK, PublishedIsApproved, PublishersHoldIt
  <2>3. Idle.step = "idle"
    BY DEF Idle
  <2>4. \A l : ResponderStep(p, l) => responder'[p] = l
    BY <1>1 DEF ResponderStep
  <2>5. CASE Review(p) \/ Leave(p) \/ CallFails(p)
    <3>1. UNCHANGED <<record, requests>>
      BY <2>5 DEF Review, Leave, CallFails
    <3>2. responder'[p].step \in {"idle", "review_inspect"}
      BY <2>3, <2>4, <2>5 DEF Review, Leave, CallFails, Idle
    <3> QED BY <2>2, <3>1, <3>2
  <2>6. CASE ReviewInspect(p) \/ DecideInspect(p) \/ CheckDecision(p)
    <3>1. UNCHANGED <<record, requests>>
      BY <2>6 DEF ReviewInspect, DecideInspect, CheckDecision
    <3>2. responder'[p].step \in {"idle", "reviewed", "record", "commit"}
      BY <1>1, <2>3, <2>4, <2>6 DEF ReviewInspect, DecideInspect, CheckDecision, Idle, Responder
    <3> QED BY <2>2, <3>1, <3>2
  <2>7. ASSUME NEW d \in {"approved", "rejected"}, Decide(p, d)
        PROVE  PublicationOK'
    <3>1. UNCHANGED <<record, requests>>
      BY <2>7 DEF Decide
    <3>2. responder'[p].step \in {"idle", "decide_inspect"}
      BY <1>1, <2>3, <2>4, <2>7 DEF Decide, Responder
    <3> QED BY <2>2, <3>1, <3>2
  <2>8. CASE RecordApprovalDecision(p)
    <3> DEFINE l == responder[p]
               a == [decision |-> l.decision, by |-> p, binding |-> l.binding]
    <3>1. CASE UNCHANGED record /\ ResponderStep(p, Idle)
      <4>1. UNCHANGED <<record, requests>> /\ responder'[p] = Idle
        BY <2>4, <2>8, <3>1 DEF RecordApprovalDecision
      <4> QED BY <2>2, <2>3, <4>1
    <3>2. CASE /\ DecisionStands(l.binding)
               /\ record' = [record EXCEPT !.approval = a, !.version = @ + 1]
               /\ \/ ResponderStep(p, IF AfterDecision(l.decision) = "publish"
                                      THEN [l EXCEPT !.step = "publish"] ELSE Idle)
                  \/ ResponderStep(p, Idle)
      <4>1. /\ record.approval = NoApproval
            /\ record'.approval = a /\ record'.requested = record.requested
            /\ UNCHANGED requests
        BY <1>1, <2>8, <3>2 DEF RecordApprovalDecision, DecisionStands, Record
      <4>2. NoApproval.decision = "none"
        BY DEF NoApproval
      <4>3. requests = <<>> /\ ~ record.requested
        BY <4>1, <4>2 DEF PublicationOK, PublishedIsApproved
      <4>4. \A q \in Responders : responder[q].step # "publish"
        <5>1. \A q \in Responders : ApprovalOf(q).decision = responder[q].decision
          BY DEF ApprovalOf
        <5> QED BY <4>1, <4>2, <5>1 DEF PublicationOK, PublishersHoldIt
      <4>5. \A q \in Responders : responder[q].step # "announce"
        BY <4>3 DEF PublicationOK, PublishersHoldIt
      <4>6. \/ responder'[p] = Idle
            \/ /\ responder'[p] = [l EXCEPT !.step = "publish"]
               /\ l.decision = "approved"
        <5>1. \/ ResponderStep(p, IF AfterDecision(l.decision) = "publish"
                                 THEN [l EXCEPT !.step = "publish"] ELSE Idle)
              \/ ResponderStep(p, Idle)
          BY <2>8, <3>2 DEF RecordApprovalDecision
        <5>2. AfterDecision(l.decision) = "publish" => l.decision = "approved"
          BY DEF AfterDecision
        <5> HIDE DEF l
        <5> QED BY <2>4, <5>1, <5>2
      <4>7. CASE responder'[p] = Idle
        BY <2>1, <2>3, <4>1, <4>3, <4>4, <4>5, <4>7
           DEF PublicationOK, PublishedIsApproved, PublishersHoldIt
      <4>8. CASE responder'[p] = [l EXCEPT !.step = "publish"] /\ l.decision = "approved"
        <5>1. /\ responder'[p].step = "publish" /\ responder'[p].decision = "approved"
              /\ responder'[p].decision = l.decision /\ responder'[p].binding = l.binding
          BY <1>1, <4>8 DEF Responder
        <5>2. ApprovalOf(p)' = a
          BY <5>1 DEF ApprovalOf
        <5> HIDE DEF a
        <5> QED BY <2>1, <4>1, <4>3, <4>4, <4>5, <5>1, <5>2
                DEF PublicationOK, PublishedIsApproved, PublishersHoldIt
      <4> QED BY <4>6, <4>7, <4>8
    <3> QED BY <2>8, <3>1, <3>2 DEF RecordApprovalDecision
  <2>9. CASE Publish(p)
    <3>1. /\ requests = <<>> /\ record.approval = ApprovalOf(p)
          /\ responder[p].decision = "approved"
      BY <2>9 DEF Publish, PublicationOK, PublishersHoldIt
    <3>2. /\ requests' = <<ApprovalOf(p)>> /\ record' = record
          /\ Len(requests') = 1 /\ requests'[1] = ApprovalOf(p) /\ requests' # <<>>
      BY <1>1, <2>9, <3>1 DEF Publish
    <3>3. ApprovalOf(p).decision = "approved"
      BY <3>1 DEF ApprovalOf
    <3>4. responder'[p].step \in {"idle", "announce"}
      BY <1>1, <2>3, <2>4, <2>9 DEF Publish, Responder
    <3>5. \A q \in Responders : q # p => responder[q].step # "publish"
      <4>1. \A q \in Responders : ApprovalOf(q).by = q
        BY DEF ApprovalOf
      <4> QED BY <3>1, <4>1 DEF PublicationOK, PublishersHoldIt
    <3> QED BY <2>1, <3>1, <3>2, <3>3, <3>4, <3>5
            DEF PublicationOK, PublishedIsApproved, PublishersHoldIt
  <2>10. CASE Announce(p)
    <3>1. /\ requests # <<>> /\ UNCHANGED requests
          /\ record'.approval = record.approval /\ responder'[p] = Idle
      BY <1>1, <2>4, <2>10 DEF Announce, Record, PublicationOK, PublishersHoldIt
    <3> QED BY <2>1, <2>3, <3>1 DEF PublicationOK, PublishedIsApproved, PublishersHoldIt
  <2> QED BY <1>3, <2>5, <2>6, <2>7, <2>8, <2>9, <2>10 DEF ForegroundStep, CallStep
<1> QED BY <1>2, <1>3 DEF Next, BackgroundStep, ForegroundStep
\* Nothing is published, and nothing announced, but the one recorded approval.
THEOREM PublishedIsApprovedAlways == Spec => []PublishedIsApproved
<1>1. Init => PublicationOK
  <2> SUFFICES ASSUME Init PROVE PublicationOK
    OBVIOUS
  <2>1. /\ requests = <<>> /\ Len(requests) = 0 /\ ~ record.requested
        /\ \A p \in Responders : responder[p].step = "idle"
    BY DEF Init, Idle
  <2> QED BY <2>1 DEF PublicationOK, PublishedIsApproved, PublishersHoldIt
<1>2. PublicationOK => PublishedIsApproved
  BY DEF PublicationOK
<1>3. ApprovalTypeOK /\ ApprovalTypeOK' /\ PublicationOK /\ [Next]_vars => PublicationOK'
  BY PublicationStep
<1> QED BY <1>1, <1>2, <1>3, ApprovalTypeCorrect, PTL DEF Spec

-----------------------------------------------------------------------------
(* The decision is about what was reviewed. *)

\* AsOf(b)', for a binding b that is the same before and after the step.
StillAsOf(b) ==
  /\ b.version <= record'.version
  /\ b.version = record'.version => b.lifecycle = record'.lifecycle

LEMMA AsOfIsKept ==
  ASSUME ApprovalTypeOK, NEW b \in Binding, AsOf(b),
         record'.version \in Nat, record'.version >= record.version,
         record'.version = record.version => record'.lifecycle = record.lifecycle
  PROVE  StillAsOf(b)
<1>1. b.version \in Nat /\ record.version \in Nat
  BY DEF ApprovalTypeOK, Binding, Record
<1> QED BY <1>1 DEF AsOf, StillAsOf

LEMMA VersionsStep ==
  ASSUME ApprovalTypeOK, ApprovalTypeOK', VersionsNameLifecycles, [Next]_vars
  PROVE  VersionsNameLifecycles'
<1>1. /\ record \in Record /\ responder \in [Responders -> Responder]
      /\ \A p \in Responders : /\ responder[p] \in Responder
                               /\ responder[p].read \in Binding
                               /\ responder[p].binding \in Binding
  BY DEF ApprovalTypeOK, Responder
<1>2. /\ record'.version \in Nat /\ record'.version >= record.version
      /\ record'.version = record.version => record'.lifecycle = record.lifecycle
  BY Background, Foreground DEF Next, BackgroundStep, ForegroundStep
<1>3. \A b \in Binding : AsOf(b) => StillAsOf(b)
  BY <1>2, AsOfIsKept
<1>4. CASE BackgroundStep \/ UNCHANGED vars
  <2>1. UNCHANGED responder
    BY <1>4, Background
  <2>2. \A p \in Responders :
          /\ responder[p].step \in {"review_inspect", "decide_inspect"} => StillAsOf(responder[p].read)
          /\ responder[p].step \in {"reviewed", "decide_inspect", "record", "commit"} =>
               StillAsOf(responder[p].binding)
    BY <1>1, <1>3 DEF VersionsNameLifecycles
  <2> QED BY <2>1, <2>2 DEF VersionsNameLifecycles, AsOf, StillAsOf
<1>5. ASSUME NEW p \in Responders, ForegroundStep(p)
      PROVE  VersionsNameLifecycles'
  <2> DEFINE l == responder[p]
             k == responder'[p]
  <2>1. SUFFICES /\ k.step \in {"review_inspect", "decide_inspect"} => StillAsOf(k.read)
                 /\ k.step \in {"reviewed", "decide_inspect", "record", "commit"} => StillAsOf(k.binding)
    <3>1. \A q \in Responders : q # p => responder'[q] = responder[q]
      BY <1>5, Foreground
    <3>2. \A q \in Responders : q # p =>
            /\ responder'[q].step \in {"review_inspect", "decide_inspect"} =>
                 StillAsOf(responder'[q].read)
            /\ responder'[q].step \in {"reviewed", "decide_inspect", "record", "commit"} =>
                 StillAsOf(responder'[q].binding)
      BY <1>1, <1>3, <3>1 DEF VersionsNameLifecycles
    <3> QED BY <3>2 DEF VersionsNameLifecycles, AsOf, StillAsOf
  <2>2. \A m : ResponderStep(p, m) => k = m
    BY <1>1 DEF ResponderStep
  <2>3. CASE k = Idle
    BY <2>3 DEF Idle
  <2>4. AsOf(Read)
    BY <1>1 DEF AsOf, Read, NoBinding, Record
  <2>5. Read \in Binding
    BY <1>1, Defaults DEF Read, Binding, Record, NoBinding
  <2>6. CASE Review(p)
    <3>1. k = [Idle EXCEPT !.step = "review_inspect", !.read = Read]
      BY <2>2, <2>6 DEF Review
    <3>2. k.step = "review_inspect" /\ k.read = Read
      BY <3>1 DEF Idle
    <3> QED BY <1>3, <2>4, <2>5, <3>2
  <2>7. CASE ReviewInspect(p)
    <3> DEFINE b == [l.read EXCEPT !.state = Inspected, !.expires = clock + ReviewTTL]
    <3>1. k = Idle \/ k = [Idle EXCEPT !.step = "reviewed", !.binding = b]
      BY <2>2, <2>7 DEF ReviewInspect
    <3>2. b.version = l.read.version /\ b.lifecycle = l.read.lifecycle
      BY <1>1 DEF Binding
    <3>3. StillAsOf(l.read)
      BY <1>1, <1>3, <2>7 DEF ReviewInspect, VersionsNameLifecycles
    <3>4. CASE k = [Idle EXCEPT !.step = "reviewed", !.binding = b]
      <4>1. k.step = "reviewed" /\ k.binding = b
        BY <3>4 DEF Idle
      <4> HIDE DEF b, k, l
      <4> QED BY <3>2, <3>3, <4>1 DEF StillAsOf
    <3> QED BY <2>3, <3>1, <3>4
  <2>8. ASSUME NEW d \in {"approved", "rejected"}, Decide(p, d)
        PROVE  /\ k.step \in {"review_inspect", "decide_inspect"} => StillAsOf(k.read)
               /\ k.step \in {"reviewed", "decide_inspect", "record", "commit"} => StillAsOf(k.binding)
    <3>1. k = Idle \/ k = [l EXCEPT !.step = "decide_inspect", !.decision = d, !.read = Read]
      BY <2>2, <2>8 DEF Decide
    <3>2. StillAsOf(l.binding)
      BY <1>1, <1>3, <2>8 DEF Decide, VersionsNameLifecycles
    <3>3. StillAsOf(Read)
      BY <1>3, <2>4, <2>5
    <3>4. CASE k = [l EXCEPT !.step = "decide_inspect", !.decision = d, !.read = Read]
      <4>1. k.step = "decide_inspect" /\ k.read = Read /\ k.binding = l.binding
        BY <1>1, <3>4 DEF Responder
      <4> QED BY <3>2, <3>3, <4>1
    <3> QED BY <2>3, <3>1, <3>4
  <2>9. CASE DecideInspect(p)
    <3>1. k = Idle \/ k = [l EXCEPT !.step = "record", !.read = NoBinding]
      BY <2>2, <2>9 DEF DecideInspect
    <3>2. StillAsOf(l.binding)
      BY <1>1, <1>3, <2>9 DEF DecideInspect, VersionsNameLifecycles
    <3>3. CASE k = [l EXCEPT !.step = "record", !.read = NoBinding]
      <4>1. k.step = "record" /\ k.binding = l.binding
        BY <1>1, <3>3 DEF Responder
      <4> QED BY <3>2, <4>1
    <3> QED BY <2>3, <3>1, <3>3
  <2>10. CASE RecordApprovalDecision(p) \/ Publish(p)
    <3>1. k = Idle \/ k = [l EXCEPT !.step = "publish"] \/ k = [l EXCEPT !.step = "announce"]
      BY <2>2, <2>10 DEF RecordApprovalDecision, Publish
    <3>2. k = Idle \/ k.step \in {"publish", "announce"}
      BY <1>1, <3>1 DEF Responder
    <3> QED BY <2>3, <3>2
  <2>11. CASE Announce(p) \/ Leave(p) \/ CallFails(p)
    BY <2>2, <2>3, <2>11 DEF Announce, Leave, CallFails
  <2>12. CASE CheckDecision(p)
    <3>1. k = Idle \/ k = [l EXCEPT !.step = "commit"]
      BY <2>2, <2>12 DEF CheckDecision
    <3>2. StillAsOf(l.binding)
      BY <1>1, <1>3, <2>12 DEF CheckDecision, VersionsNameLifecycles
    <3>3. CASE k = [l EXCEPT !.step = "commit"]
      <4>1. k.step = "commit" /\ k.binding = l.binding
        BY <1>1, <3>3 DEF Responder
      <4> QED BY <3>2, <4>1
    <3> QED BY <2>3, <3>1, <3>3
  <2> QED BY <1>5, <2>6, <2>7, <2>8, <2>9, <2>10, <2>11, <2>12 DEF ForegroundStep, CallStep
<1> QED BY <1>4, <1>5 DEF Next, BackgroundStep, ForegroundStep

LEMMA DecisionStep ==
  ASSUME ApprovalTypeOK, VersionsNameLifecycles, [Next]_vars,
         record'.approval # record.approval
  PROVE  LET b == record'.approval.binding IN
           /\ record.approval = NoApproval
           /\ record.evidence = b.evidence
           /\ record.lifecycle = b.lifecycle
<1>1. PICK p \in Responders : ForegroundStep(p)
  BY Background DEF Next, BackgroundStep, ForegroundStep
<1> DEFINE b == responder[p].binding
<1>2. record \in Record /\ b \in Binding
  BY DEF ApprovalTypeOK, Responder
<1>3. RecordApprovalDecision(p) /\ DecisionStands(b)
  <2>1. Announce(p) => record'.approval = record.approval
    BY <1>2 DEF Announce, Record
  <2> QED BY <1>1, <2>1 DEF ForegroundStep, CallStep, Review, ReviewInspect, Decide,
             DecideInspect, CheckDecision, RecordApprovalDecision, Publish, CallFails, Leave
<1>4. record'.approval = [decision |-> responder[p].decision, by |-> p, binding |-> b]
  BY <1>2, <1>3 DEF RecordApprovalDecision, Record
<1>5. record'.approval.binding = b
  BY <1>4
<1>6. AsOf(b)
  BY <1>3 DEF RecordApprovalDecision, VersionsNameLifecycles
<1> HIDE DEF b
<1> QED BY <1>2, <1>3, <1>5, <1>6 DEF DecisionStands, AsOf

\* Whatever happens between the calls of a decision, it is about the Incident
\* that was reviewed.
THEOREM DecidedAsReviewedAlways == Spec => DecidedAsReviewed
<1>1. Init => VersionsNameLifecycles
  BY DEF Init, VersionsNameLifecycles, Idle
<1>2. ApprovalTypeOK /\ ApprovalTypeOK' /\ VersionsNameLifecycles /\ [Next]_vars
        => VersionsNameLifecycles'
  BY VersionsStep
<1>3. ApprovalTypeOK /\ VersionsNameLifecycles /\ [Next]_vars
        => [record'.approval # record.approval =>
              LET b == record'.approval.binding IN
              /\ record.approval = NoApproval
              /\ record.evidence = b.evidence
              /\ record.lifecycle = b.lifecycle]_vars
  BY DecisionStep
<1> QED BY <1>1, <1>2, <1>3, ApprovalTypeCorrect, PTL DEF Spec, DecidedAsReviewed
-----------------------------------------------------------------------------
(* What was reviewed is true. *)

\* Nothing but another writer changes the Deployment, and what was stored stays.
LEMMA StatesStep ==
  ASSUME ApprovalTypeOK, [Next]_vars
  PROVE  /\ ExternalWrite \/ UNCHANGED states
         /\ \A k \in DOMAIN states : k \in DOMAIN states' /\ states'[k] = states[k]
         /\ ExternalWrite => liveRv' \notin DOMAIN states
         /\ ExternalWrite \/ Prune \/ UNCHANGED history
<1>1. states \in Seq(State) /\ liveRv \in Nat /\ DOMAIN states = 1..liveRv
  BY SeenTypes DEF ApprovalTypeOK
<1>2. /\ ExternalWrite \/ UNCHANGED states
      /\ ExternalWrite \/ Prune \/ UNCHANGED history
  BY Foreground DEF Next, ForegroundStep, vars, Tick, Prune, QueryEvidence, Close, Engines, EngineFails,
     EngineStep, Evaluate, InspectRead, InspectList, InspectCurrent, Judge, DryRun,
     DiffRead, DiffList, RecordDecision
<1>3. ASSUME ExternalWrite
      PROVE  \E s : states' = Append(states, s)
  BY <1>3 DEF ExternalWrite, Store
<1>4. ASSUME NEW s, states' = Append(states, s)
      PROVE  /\ DOMAIN states' = 1..(liveRv + 1)
             /\ liveRv' = liveRv + 1
             /\ \A k \in 1..liveRv : states'[k] = states[k]
  BY <1>1, <1>4 DEF liveRv
<1> QED BY <1>1, <1>2, <1>3, <1>4

\* A new revision leaves every template with one revision.
LEMMA RelabelledIsOneToOne ==
  ASSUME NEW t, \A q, r \in DOMAIN history : history[q] = history[r] => q = r
  PROVE  LET h == Relabelled(t)
         IN  \A q, r \in DOMAIN h : h[q] = h[r] => q = r
BY DEF Relabelled

EngineOK == EngineIsCurrent /\ PassedIsCurrent(engine.decision)

LEMMA EngineOKBackground ==
  ASSUME ApprovalTypeOK, ApprovalTypeOK', EngineOK, [Next]_vars,
         UNCHANGED engine, record'.proposal = record.proposal
  PROVE  EngineOK'
<1>1. liveRv' # 0
  BY DEF ApprovalTypeOK, liveRv
<1>2. /\ ExternalWrite \/ UNCHANGED states
      /\ ExternalWrite \/ Prune \/ UNCHANGED history
      /\ \A k \in DOMAIN states : k \in DOMAIN states' /\ states'[k] = states[k]
      /\ ExternalWrite => liveRv' \notin DOMAIN states
  BY StatesStep
<1>3. ASSUME NEW c, WasSeen(c)
      PROVE  /\ WasSeen(c)' /\ states'[c.rv] = states[c.rv]
             /\ ExternalWrite => c.rv # liveRv'
  BY <1>2, <1>3 DEF WasSeen
<1>4. CASE ExternalWrite
  <2>1. \A q, r \in DOMAIN history' : history'[q] = history'[r] => q = r
    <3>1. \/ UNCHANGED history \/ \E t : history' = Relabelled(t)
          \/ history' = <<>> \/ history' = [r \in {1} |-> 1]
      BY <1>4 DEF ExternalWrite
    <3>2. \A q, r \in DOMAIN history : history[q] = history[r] => q = r
      BY DEF EngineOK, EngineIsCurrent
    <3> QED BY <3>1, <3>2, RelabelledIsOneToOne
  <2>3. engine.state.rv # liveRv'
    BY <1>1, <1>3, <1>4 DEF EngineOK, EngineIsCurrent, NotFound
  <2>4. EngineIsCurrent'
    BY <1>3, <2>1, <2>3 DEF EngineOK, EngineIsCurrent, NotFound, WasSeen
  <2>5. PassedIsCurrent(engine.decision)'
    BY <1>3, <1>4 DEF EngineOK, PassedIsCurrent, WasSeen
  <2> QED BY <2>4, <2>5 DEF EngineOK
<1>5. CASE ~ ExternalWrite
  <2>0. UNCHANGED states
    BY <1>2, <1>5
  <2>1. \A r \in DOMAIN history' : r \in DOMAIN history /\ history'[r] = history[r]
    <3>1. CASE UNCHANGED history
      BY <3>1
    <3>2. CASE Prune
      BY <3>2 DEF Prune
    <3> QED BY <1>2, <1>5, <3>1, <3>2
  <2>2. EngineIsCurrent'
    BY <2>0, <2>1 DEF EngineOK, EngineIsCurrent, WasSeen, liveRv, live
  <2>3. PassedIsCurrent(engine.decision)'
    BY <2>0 DEF EngineOK, PassedIsCurrent, WasSeen, liveRv, live, DiffIsTrue
  <2> QED BY <2>2, <2>3 DEF EngineOK
<1> QED BY <1>4, <1>5

\* EngineOK of an engine e, while Deployment and history stay as they are.
EngineFits(e) ==
  /\ e.step # "record" => e.decision.status = "none"
  /\ e.state = NotFound \/ (WasSeen(e.state) /\ states[e.state.rv].replicas = e.replicas)
  /\ e.step \in {"list", "current", "dry_run", "diff_read", "diff_list"} =>
       e.state # NotFound
  /\ /\ e.step \in {"current", "judge", "dry_run", "diff_read", "diff_list"}
     /\ e.state.rv = liveRv
     /\ record.proposal.revision \in e.revisions
     => \A r \in DOMAIN history :
          history[r] = e.template => r = record.proposal.revision
  /\ e.step \in {"dry_run", "diff_read", "diff_list"} =>
       (record.proposal.type = "rollback" => record.proposal.revision \in e.revisions)
  /\ e.step = "diff_list" /\ e.state.rv = liveRv =>
       /\ record.proposal.type = "scale" => e.decision.diff.from = live.replicas
       /\ record.proposal.type = "rollback" => e.decision.diff.from = live.rev
  /\ PassedIsCurrent(e.decision)

LEMMA EngineOKForeground ==
  ASSUME EngineOK, EngineFits(engine'), UNCHANGED <<states, history>>,
         record'.proposal = record.proposal
  PROVE  EngineOK'
BY DEF EngineOK, EngineIsCurrent, EngineFits, PassedIsCurrent, WasSeen, DiffIsTrue, liveRv, live

LEMMA EngineOKStep ==
  ASSUME ApprovalTypeOK, ApprovalTypeOK', EngineOK, [Next]_vars
  PROVE  EngineOK'
<1>1. /\ engine \in Engine /\ engine' \in Engine /\ record \in Record
      /\ liveRv \in Nat /\ liveRv >= 1 /\ DOMAIN states = 1..liveRv
  BY SeenTypes DEF ApprovalTypeOK
<1>2. CASE UNCHANGED engine /\ record'.proposal = record.proposal
  BY <1>2, EngineOKBackground
<1>3. NewEngine.step = "start" /\ NewEngine.state = NotFound /\ NewEngine.decision = NoDecision
  BY DEF NewEngine
<1>4. NoDecision.status = "none" /\ NotFound.rv = 0 /\ PassedIsCurrent(NoDecision)
  BY DEF NoDecision, NotFound, PassedIsCurrent
<1>5. CASE /\ engine' \in {Raised, Done}
           /\ UNCHANGED <<states, history>> /\ record'.proposal = record.proposal
  <2>1. /\ engine'.step \in {"raised", "done"} /\ engine'.state = NotFound
        /\ engine'.decision = NoDecision
    BY <1>3, <1>5, EngineDefaults DEF Raised, Done, Engine
  <2>2. EngineFits(engine')
    BY <1>4, <2>1 DEF EngineFits
  <2> QED BY <1>5, <2>2, EngineOKForeground
<1>6. Engines /\ engine.step # "record"
        => UNCHANGED <<states, history>> /\ record'.proposal = record.proposal
  BY DEF Engines, EngineStep, Evaluate, InspectRead, InspectList, InspectCurrent,
         Judge, DryRun, DiffRead, DiffList, RecordDecision, At
<1>7. EngineFits(engine)
  BY DEF EngineOK, EngineIsCurrent, EngineFits
<1>8. \A d : d.status # "passed" => PassedIsCurrent(d)
  BY DEF PassedIsCurrent
<1>10. CASE Evaluate
  <2>1. /\ engine'.step = "inspect" /\ engine'.state = engine.state
        /\ engine'.replicas = engine.replicas /\ engine'.decision = engine.decision
        /\ engine.step = "start"
    BY <1>1, <1>10 DEF Evaluate, EngineStep, Engine, At
  <2>2. EngineFits(engine')
    BY <1>7, <2>1 DEF EngineFits
  <2> QED BY <1>6, <1>10, <2>1, <2>2, EngineOKForeground DEF Engines
<1>11. CASE InspectRead
  <2>1. /\ engine'.step = (IF live.there THEN "list" ELSE "judge")
        /\ engine'.state = Inspected
        /\ live.there => engine'.replicas = live.replicas
        /\ engine'.decision = engine.decision
        /\ engine.step = "inspect"
    BY <1>1, <1>11 DEF InspectRead, EngineStep, Engine, At
  <2>2. live.there => WasSeen(Inspected) /\ Inspected # NotFound /\ states[Inspected.rv] = live
    BY <1>1 DEF WasSeen, Inspected, live, NotFound
  <2>3. ~ live.there => Inspected = NotFound
    BY DEF Inspected
  <2>4. EngineFits(engine')
    BY <1>1, <1>4, <1>7, <2>1, <2>2, <2>3 DEF EngineFits
  <2> QED BY <1>6, <1>11, <2>1, <2>4, EngineOKForeground DEF Engines
<1>12. CASE InspectList
  <2>1. /\ engine'.step = "current" /\ engine'.state = engine.state
        /\ engine'.replicas = engine.replicas /\ engine'.decision = engine.decision
        /\ engine'.revisions = DOMAIN history
        /\ record.proposal.revision \in DOMAIN history =>
             engine'.template = history[record.proposal.revision]
        /\ engine.step = "list"
    BY <1>1, <1>12 DEF InspectList, EngineStep, Engine, At
  <2>2. \A q, r \in DOMAIN history : history[q] = history[r] => q = r
    BY DEF EngineOK, EngineIsCurrent
  <2>3. EngineFits(engine')
    BY <1>7, <2>1, <2>2 DEF EngineFits
  <2> QED BY <1>6, <1>12, <2>1, <2>3, EngineOKForeground DEF Engines
<1>13. CASE InspectCurrent
  <2>1. engine.step = "current" /\ UNCHANGED <<states, history>>
        /\ record'.proposal = record.proposal
    BY <1>6, <1>13 DEF InspectCurrent, At, Engines
  <2>2. \/ engine' = Raised
        \/ /\ engine'.step = "judge" /\ engine'.state = engine.state
           /\ engine'.replicas = engine.replicas /\ engine'.decision = engine.decision
           /\ engine'.revisions = engine.revisions /\ engine'.template = engine.template
    BY <1>1, <1>13 DEF InspectCurrent, EngineStep, Engine
  <2>3. CASE engine' # Raised
    <3>1. EngineFits(engine')
      BY <1>7, <2>1, <2>2, <2>3 DEF EngineFits
    <3> QED BY <2>1, <3>1, EngineOKForeground
  <2> QED BY <1>5, <2>1, <2>3
<1>14. ASSUME NEW status \in {"rejected", "dry_run_failed"}, NEW codes \in SUBSET Codes,
              engine' = [engine EXCEPT !.step = "record",
                                       !.decision = Rejection(status, codes)]
       PROVE  EngineFits(engine')
  <2>1. /\ engine'.step = "record" /\ engine'.state = engine.state
        /\ engine'.replicas = engine.replicas /\ engine'.decision.status = status
    BY <1>1, <1>14 DEF Engine, Rejection
  <2> QED BY <1>7, <1>8, <2>1 DEF EngineFits
<1>15. engine' = DryRunFailed => EngineFits(engine')
  BY <1>14 DEF DryRunFailed, Codes
<1>16. CASE Judge
  <2> DEFINE failed == {c \in Codes : Failing(record.proposal)[c]}
  <2>1. /\ engine.step = "judge" /\ UNCHANGED <<states, history>>
        /\ record'.proposal = record.proposal
    BY <1>6, <1>16 DEF Judge, At, Engines
  <2>2. CASE failed # {}
    <3>1. engine' = [engine EXCEPT !.step = "record",
                                   !.decision = Rejection("rejected", failed)]
      BY <1>16, <2>2 DEF Judge, EngineStep
    <3> HIDE DEF failed
    <3>2. failed \in SUBSET Codes
      BY DEF failed
    <3>3. EngineFits(engine')
      BY <1>14, <3>1, <3>2
    <3> QED BY <2>1, <3>3, EngineOKForeground
  <2>3. CASE failed = {}
    <3>1. engine' = [engine EXCEPT !.step = "dry_run"]
      BY <1>16, <2>3 DEF Judge, EngineStep
    <3>2. /\ engine'.step = "dry_run" /\ engine'.state = engine.state
          /\ engine'.replicas = engine.replicas /\ engine'.decision = engine.decision
          /\ engine'.revisions = engine.revisions /\ engine'.template = engine.template
      BY <1>1, <3>1 DEF Engine
    <3>3. /\ ~ Failing(record.proposal)["live_state_available"]
          /\ ~ Failing(record.proposal)["revision_available"]
      BY <2>3 DEF Codes
    <3>4. /\ engine.state # NotFound
          /\ record.proposal.type = "rollback" => record.proposal.revision \in engine.revisions
      BY <3>3 DEF Failing
    <3>5. EngineFits(engine')
      BY <1>7, <2>1, <3>2, <3>4 DEF EngineFits
    <3> QED BY <2>1, <3>5, EngineOKForeground
  <2> QED BY <2>2, <2>3
<1>17. CASE DryRun
  <2>1. /\ engine.step = "dry_run" /\ UNCHANGED <<states, history>>
        /\ record'.proposal = record.proposal
    BY <1>6, <1>17 DEF DryRun, At, Engines
  <2>2. \/ engine' = DryRunFailed
        \/ engine' = [engine EXCEPT !.step = "diff_read"]
    BY <1>17 DEF DryRun, EngineStep
  <2>3. CASE engine' = [engine EXCEPT !.step = "diff_read"]
    <3>1. /\ engine'.step = "diff_read" /\ engine'.state = engine.state
          /\ engine'.replicas = engine.replicas /\ engine'.decision = engine.decision
          /\ engine'.revisions = engine.revisions /\ engine'.template = engine.template
      BY <1>1, <2>3 DEF Engine
    <3>2. EngineFits(engine')
      BY <1>7, <2>1, <3>1 DEF EngineFits
    <3> QED BY <2>1, <3>2, EngineOKForeground
  <2> QED BY <1>15, <2>1, <2>2, <2>3, EngineOKForeground
<1>18. CASE DiffRead
  <2> DEFINE n == CASE record.proposal.type = "scale" -> live.replicas
                    [] record.proposal.type = "rollback" -> live.rev
                    [] OTHER -> 0
  <2>1. /\ engine.step = "diff_read" /\ UNCHANGED <<states, history>>
        /\ record'.proposal = record.proposal
    BY <1>6, <1>18 DEF DiffRead, At, Engines
  <2>2. \/ engine' = DryRunFailed
        \/ engine' = [engine EXCEPT !.step = "diff_list", !.decision.diff.from = n]
    BY <1>18 DEF DiffRead, EngineStep
  <2>3. /\ record.proposal.type = "scale" => n = live.replicas
        /\ record.proposal.type = "rollback" => n = live.rev
    OBVIOUS
  <2> HIDE DEF n
  <2>4. CASE engine' = [engine EXCEPT !.step = "diff_list", !.decision.diff.from = n]
    <3>1. /\ engine'.step = "diff_list" /\ engine'.state = engine.state
          /\ engine'.replicas = engine.replicas
          /\ engine'.decision.status = engine.decision.status
          /\ engine'.decision.diff.from = n
          /\ engine'.revisions = engine.revisions /\ engine'.template = engine.template
      BY <1>1, <2>4 DEF Engine, Decision, Diff
    <3>2. EngineFits(engine')
      BY <1>7, <1>8, <2>1, <2>3, <3>1 DEF EngineFits
    <3> QED BY <2>1, <3>2, EngineOKForeground
  <2> QED BY <1>15, <2>1, <2>2, <2>4, EngineOKForeground
<1>19. CASE DiffList
  <2>1. /\ engine.step = "diff_list" /\ UNCHANGED <<states, history>>
        /\ record'.proposal = record.proposal
    BY <1>6, <1>19 DEF DiffList, At, Engines
  <2>2. CASE engine' = Raised
    BY <1>5, <2>1, <2>2
  <2>3. ASSUME NEW to \in Named,
               EngineStep([engine EXCEPT !.step = "record",
                             !.decision = [status |-> "passed", failed |-> {},
                                           state |-> engine.state,
                                           diff |-> [@.diff EXCEPT !.to = to]]])
        PROVE  EngineOK'
    <3>1. /\ engine'.step = "record" /\ engine'.state = engine.state
          /\ engine'.replicas = engine.replicas
          /\ engine'.decision.state = engine.state
          /\ engine'.decision.diff.from = engine.decision.diff.from
          /\ engine'.decision.diff.to = to
      BY <1>1, <2>3 DEF EngineStep, Engine, Decision, Diff
    <3>2. WasSeen(engine.state)
      BY <1>7, <2>1 DEF EngineFits
    <3>3. /\ record.proposal.type = "scale" => to = record.proposal.replicas
          /\ record.proposal.type = "rollback" => to \in DOMAIN history /\ history[to] = engine.template
      BY DEF Named
    <3>4. engine.state.rv = liveRv => DiffIsTrue(engine'.decision.diff, record.proposal, live)
      BY <1>7, <2>1, <3>1, <3>3 DEF EngineFits, DiffIsTrue
    <3>5. PassedIsCurrent(engine'.decision)
      BY <3>1, <3>2, <3>4 DEF PassedIsCurrent
    <3>6. EngineFits(engine')
      BY <1>7, <3>1, <3>5 DEF EngineFits
    <3> QED BY <2>1, <3>6, EngineOKForeground
  <2> QED BY <1>19, <2>2, <2>3 DEF DiffList, EngineStep
<1>20. CASE RecordDecision
  <2>1. /\ engine' \in {Raised, Done} /\ UNCHANGED <<states, history>>
    BY <1>20 DEF RecordDecision
  <2>2. record'.proposal = record.proposal
    BY <1>20, Background DEF BackgroundStep, Engines
  <2> QED BY <1>5, <2>1, <2>2
<1>21. CASE EngineFails
  <2>1. /\ engine' = Raised /\ UNCHANGED <<states, history, record>>
    BY <1>21 DEF EngineFails, EngineStep
  <2> QED BY <1>5, <2>1
<1>22. CASE Tick \/ ExternalWrite \/ Prune \/ QueryEvidence \/ Close \/ UNCHANGED vars
  <2>1. UNCHANGED engine
    BY <1>22 DEF Tick, ExternalWrite, Prune, QueryEvidence, Close, vars
  <2>2. record'.proposal = record.proposal
    BY <1>22, Background DEF BackgroundStep
  <2> QED BY <1>2, <2>1, <2>2
<1>23. ASSUME NEW p \in Responders, ForegroundStep(p)
       PROVE  EngineOK'
  BY <1>2, <1>23, Foreground
<1> QED BY <1>10, <1>11, <1>12, <1>13, <1>16, <1>17, <1>18, <1>19, <1>20, <1>21, <1>22, <1>23
        DEF Next, Engines, ForegroundStep

ReviewOK == ReviewedHasPassed /\ PassedIsCurrent(record.policy) /\ ReviewIsTruthful

\* What ReviewOK says of one binding.
TrueReview(b) ==
  /\ record.policy.status = "passed"
  /\ b.state = record.policy.state
  /\ WasSeen(b.state)
  /\ DiffIsTrue(record.policy.diff, record.proposal, states[b.state.rv])

ReviewSteps == {"reviewed", "decide_inspect", "record", "commit", "publish"}

\* ReviewOK, without the set of all bindings.
LEMMA ReviewOKMeans ==
  ReviewOK <=>
    /\ \A p \in Responders :
         /\ responder[p].step # "idle" => record.policy.status = "passed"
         /\ responder[p].step \in ReviewSteps => TrueReview(responder[p].binding)
    /\ record.approval # NoApproval => TrueReview(record.approval.binding)
    /\ PassedIsCurrent(record.policy)
<1>1. "idle" \notin ReviewSteps
  BY DEF ReviewSteps
<1>2. Reviewed =
        {responder[p].binding : p \in {q \in Responders : responder[q].step \in ReviewSteps}}
        \cup IF record.approval = NoApproval THEN {} ELSE {record.approval.binding}
  BY DEF Reviewed, ReviewSteps
<1>3. \A b : /\ record.policy.status = "passed"
             /\ b.state = record.policy.state
             /\ b.state.rv \in DOMAIN states
             /\ states[b.state.rv].there
             /\ states[b.state.rv].gen = b.state.gen
             /\ states[b.state.rv].rev = b.state.rev
             /\ DiffIsTrue(record.policy.diff, record.proposal, states[b.state.rv])
             <=> TrueReview(b)
  BY DEF TrueReview, WasSeen
<1>4. (\A b \in Reviewed : TrueReview(b)) <=>
        /\ \A p \in Responders :
             responder[p].step \in ReviewSteps => TrueReview(responder[p].binding)
        /\ record.approval # NoApproval => TrueReview(record.approval.binding)
  BY <1>2
<1>5. Reviewed # {} =>
        \/ \E p \in Responders : responder[p].step # "idle"
        \/ record.approval # NoApproval
  BY <1>1, <1>2
<1>6. ReviewOK <=>
        /\ \A p \in Responders : responder[p].step # "idle" => record.policy.status = "passed"
        /\ record.approval # NoApproval => record.policy.status = "passed"
        /\ \A b \in Reviewed : TrueReview(b)
        /\ PassedIsCurrent(record.policy)
  BY <1>3, <1>5 DEF ReviewOK, ReviewedHasPassed, ReviewIsTruthful
<1>7. \A b : TrueReview(b) => record.policy.status = "passed"
  BY DEF TrueReview
<1> QED BY <1>4, <1>6, <1>7

LEMMA ReviewOKStep ==
  ASSUME ApprovalTypeOK, ApprovalTypeOK', EngineOK, ReviewOK, [Next]_vars
  PROVE  ReviewOK'
<1>1. /\ record \in Record /\ responder \in [Responders -> Responder]
      /\ liveRv \in Nat /\ liveRv >= 1 /\ DOMAIN states = 1..liveRv
      /\ \A p \in Responders : /\ responder[p] \in Responder
                               /\ responder[p].read \in Binding
                               /\ responder[p].binding \in Binding
  BY SeenTypes DEF ApprovalTypeOK, Responder
<1>2. /\ \A p \in Responders :
           /\ responder[p].step # "idle" => record.policy.status = "passed"
           /\ responder[p].step \in ReviewSteps => TrueReview(responder[p].binding)
      /\ record.approval # NoApproval => TrueReview(record.approval.binding)
      /\ PassedIsCurrent(record.policy)
  BY ReviewOKMeans
<1>3. /\ ExternalWrite \/ UNCHANGED states
      /\ \A k \in DOMAIN states : k \in DOMAIN states' /\ states'[k] = states[k]
      /\ ExternalWrite => liveRv' \notin DOMAIN states
  BY StatesStep
<1>4. CASE UNCHANGED responder /\ record'.approval = record.approval
           /\ record'.policy = record.policy /\ record'.proposal = record.proposal
  <2>1. \A b : TrueReview(b) =>
          /\ record'.policy.status = "passed" /\ b.state = record'.policy.state
          /\ b.state.rv \in DOMAIN states' /\ states'[b.state.rv].there
          /\ states'[b.state.rv].gen = b.state.gen
          /\ states'[b.state.rv].rev = b.state.rev
          /\ DiffIsTrue(record'.policy.diff, record'.proposal, states'[b.state.rv])
    BY <1>3, <1>4 DEF TrueReview, WasSeen
  <2>2. PassedIsCurrent(record.policy)'
    <3>1. CASE ExternalWrite
      BY <1>2, <1>3, <1>4, <3>1 DEF PassedIsCurrent, WasSeen
    <3>2. CASE UNCHANGED states
      BY <1>2, <1>4, <3>2 DEF PassedIsCurrent, WasSeen, liveRv, live, DiffIsTrue
    <3> QED BY <1>3, <3>1, <3>2
  <2>3. ReviewedHasPassed' /\ ReviewIsTruthful'
    <3>1. Reviewed' = Reviewed
      BY <1>4 DEF Reviewed
    <3>2. \A b \in Reviewed : TrueReview(b)
      BY <1>2, ReviewOKMeans DEF Reviewed, ReviewSteps
    <3> QED BY <1>2, <1>4, <2>1, <3>1, <3>2 DEF ReviewedHasPassed, ReviewIsTruthful, TrueReview
  <2> QED BY <2>2, <2>3 DEF ReviewOK
<1>5. CASE RecordDecision
  <2>1. UNCHANGED <<responder, states>> /\ record'.approval = record.approval
        /\ record'.proposal = record.proposal
    BY <1>5, Background DEF RecordDecision, BackgroundStep, Engines
  <2>2. CASE UNCHANGED record
    BY <1>4, <2>1, <2>2
  <2>3. CASE ~ UNCHANGED record
    <3>1. record.policy.status = "none" /\ record'.policy = engine.decision
      BY <1>1, <1>5, <2>3 DEF RecordDecision, Record
    <3>2. /\ \A p \in Responders : responder'[p].step = "idle"
          /\ record'.approval = NoApproval
      BY <1>2, <2>1, <3>1 DEF TrueReview
    <3>3. Reviewed' = {}
      BY <3>2 DEF Reviewed
    <3>4. PassedIsCurrent(record.policy)'
      BY <2>1, <3>1 DEF EngineOK, PassedIsCurrent, WasSeen, DiffIsTrue, liveRv, live
    <3> QED BY <3>2, <3>3, <3>4 DEF ReviewOK, ReviewedHasPassed, ReviewIsTruthful
  <2> QED BY <2>2, <2>3
<1>6. CASE Tick \/ ExternalWrite \/ Prune \/ QueryEvidence \/ Close \/ EngineFails
           \/ (Engines /\ ~ RecordDecision) \/ UNCHANGED vars
  <2>1. \/ UNCHANGED record \/ record' = AppendEvidence(record) \/ record' = CloseIncident(record)
    BY <1>6 DEF Tick, ExternalWrite, Prune, QueryEvidence, Close, EngineFails, Engines,
       EngineStep, Evaluate, InspectRead, InspectList, InspectCurrent, Judge, DryRun,
       DiffRead, DiffList, vars
  <2>2. record'.policy = record.policy
    BY <1>1, <2>1 DEF AppendEvidence, CloseIncident, Record
  <2>3. UNCHANGED responder /\ record'.approval = record.approval
        /\ record'.proposal = record.proposal
    BY <1>6, Background DEF BackgroundStep
  <2> QED BY <1>4, <2>2, <2>3
<1>7. ASSUME NEW p \in Responders, ForegroundStep(p)
      PROVE  ReviewOK'
  <2> DEFINE l == responder[p]
             k == responder'[p]
             RP == record'.approval
  <2>1. /\ \A q \in Responders : q # p => responder'[q] = responder[q]
        /\ UNCHANGED states
        /\ record'.policy = record.policy /\ record'.proposal = record.proposal
    BY <1>7, Foreground
  <2>2. PassedIsCurrent(record.policy)'
    BY <1>2, <2>1 DEF PassedIsCurrent, WasSeen, DiffIsTrue, liveRv, live
  <2>3. SUFFICES /\ k.step # "idle" => record.policy.status = "passed"
                 /\ k.step \in ReviewSteps => TrueReview(k.binding)
                 /\ RP # NoApproval => TrueReview(RP.binding)
    <3>1. (\A q \in Responders :
             /\ responder'[q].step # "idle" => record'.policy.status = "passed"
             /\ responder'[q].step \in ReviewSteps => TrueReview(responder'[q].binding))
          /\ (record'.approval # NoApproval => TrueReview(record'.approval.binding))
      BY <1>2, <2>1
    <3>2. /\ \A b \in Reviewed' : TrueReview(b)
          /\ record'.approval # NoApproval => record'.policy.status = "passed"
      BY <2>1, <3>1 DEF Reviewed, ReviewSteps, TrueReview
    <3>3. ReviewedHasPassed' /\ ReviewIsTruthful'
      BY <2>1, <3>1, <3>2 DEF ReviewedHasPassed, ReviewIsTruthful, TrueReview, WasSeen
    <3> QED BY <2>2, <3>3 DEF ReviewOK
  <2>4. \A m : ResponderStep(p, m) => k = m
    BY <1>1 DEF ResponderStep
  <2>5. Idle.step = "idle" /\ "idle" \notin ReviewSteps
    BY DEF Idle, ReviewSteps
  <2>6. CASE RP = record.approval
    <3>1. RP # NoApproval => TrueReview(RP.binding)
      BY <1>2, <2>6
    <3>2. CASE k = Idle
      BY <2>5, <3>1, <3>2
    <3>3. CASE Review(p)
      <4>1. k = [Idle EXCEPT !.step = "review_inspect", !.read = Read] /\ Reviewable
        BY <2>4, <3>3 DEF Review
      <4>2. k.step = "review_inspect"
        BY <4>1 DEF Idle
      <4> QED BY <3>1, <4>1, <4>2 DEF Reviewable, ReviewSteps
    <3>4. CASE ReviewInspect(p) /\ k # Idle
      <4> DEFINE b == [l.read EXCEPT !.state = Inspected, !.expires = clock + ReviewTTL]
      <4>1. /\ k = [Idle EXCEPT !.step = "reviewed", !.binding = b]
            /\ live.there /\ Inspected = record.policy.state
            /\ l.step = "review_inspect"
        BY <2>4, <3>4 DEF ReviewInspect, MatchesPolicy
      <4>2. k.step = "reviewed" /\ k.binding = b
        BY <4>1 DEF Idle
      <4>3. b.state = Inspected
        BY <1>1 DEF Binding
      <4>4. record.policy.status = "passed"
        BY <1>2, <4>1
      <4>5. Inspected.rv = liveRv /\ states[liveRv] = live
        BY <4>1 DEF Inspected, live
      <4>6. WasSeen(Inspected) /\ DiffIsTrue(record.policy.diff, record.proposal, live)
        BY <1>2, <4>1, <4>4, <4>5 DEF PassedIsCurrent
      <4> HIDE DEF b, k, l
      <4>7. TrueReview(b)
        BY <4>1, <4>3, <4>4, <4>5, <4>6 DEF TrueReview
      <4> QED BY <3>1, <4>2, <4>4, <4>7
    <3>5. CASE /\ l.step \in ReviewSteps /\ k.binding = l.binding
      BY <1>2, <2>5, <3>1, <3>5
    <3>6. ASSUME NEW d \in {"approved", "rejected"}, Decide(p, d), k # Idle
          PROVE  l.step \in ReviewSteps /\ k.binding = l.binding
      <4>1. /\ k = [l EXCEPT !.step = "decide_inspect", !.decision = d, !.read = Read]
            /\ l.step = "reviewed"
        BY <2>4, <3>6 DEF Decide
      <4> QED BY <1>1, <4>1 DEF Responder, ReviewSteps
    <3>7. CASE DecideInspect(p) /\ k # Idle
      <4>1. /\ k = [l EXCEPT !.step = "record", !.read = NoBinding]
            /\ l.step = "decide_inspect"
        BY <2>4, <3>7 DEF DecideInspect
      <4>2. l.step \in ReviewSteps /\ k.binding = l.binding
        BY <1>1, <4>1 DEF Responder, ReviewSteps
      <4> QED BY <3>5, <4>2
    <3>8. CASE (CheckDecision(p) \/ RecordApprovalDecision(p) \/ Publish(p)) /\ k # Idle
      <4>1. /\ \/ k = [l EXCEPT !.step = "commit"]
               \/ k = [l EXCEPT !.step = "publish"]
               \/ k = [l EXCEPT !.step = "announce"]
            /\ l.step \in {"record", "commit", "publish"}
        BY <2>4, <3>8 DEF CheckDecision, RecordApprovalDecision, Publish
      <4>2. l.step \in ReviewSteps /\ k.binding = l.binding
        BY <1>1, <4>1 DEF Responder, ReviewSteps
      <4> QED BY <3>5, <4>2
    <3>9. CASE Announce(p) \/ Leave(p) \/ CallFails(p)
      BY <2>4, <3>2, <3>9 DEF Announce, Leave, CallFails
    <3> QED BY <1>7, <3>2, <3>3, <3>4, <3>5, <3>6, <3>7, <3>8, <3>9 DEF ForegroundStep, CallStep
  <2>7. CASE RP # record.approval
    <3>1. RecordApprovalDecision(p) /\ DecisionStands(l.binding)
      <4>1. Announce(p) => record'.approval = record.approval
        BY <1>1 DEF Announce, Record
      <4> QED BY <1>7, <2>7, <4>1 DEF ForegroundStep, CallStep, Review, ReviewInspect, Decide,
                 DecideInspect, CheckDecision, RecordApprovalDecision, Publish, CallFails, Leave
    <3>2. record'.approval = [decision |-> l.decision, by |-> p, binding |-> l.binding]
      BY <1>1, <2>7, <3>1 DEF RecordApprovalDecision, Record
    <3>3. RP.binding = l.binding /\ l.step = "commit"
      BY <3>1, <3>2 DEF RecordApprovalDecision
    <3>4. TrueReview(l.binding)
      BY <1>2, <3>3 DEF ReviewSteps
    <3>5. k = Idle \/ k = [l EXCEPT !.step = "publish"]
      BY <2>4, <3>1 DEF RecordApprovalDecision
    <3>6. k = Idle \/ k.binding = l.binding
      BY <1>1, <3>5 DEF Responder
    <3>7. record.policy.status = "passed"
      BY <3>4 DEF TrueReview
    <3> QED BY <2>5, <3>3, <3>4, <3>6, <3>7
  <2> QED BY <2>6, <2>7
<1> QED BY <1>5, <1>6, <1>7 DEF Next, Engines, ForegroundStep

ApprovalOK == PublicationOK /\ VersionsNameLifecycles /\ EngineOK /\ ReviewOK

LEMMA ApprovalHolds == Spec => [](ApprovalTypeOK /\ ApprovalOK)
<1>1. Init => ApprovalOK
  <2> SUFFICES ASSUME Init PROVE ApprovalOK
    OBVIOUS
  <2>1. /\ requests = <<>> /\ Len(requests) = 0 /\ ~ record.requested
        /\ record.approval = NoApproval /\ record.policy = NoDecision
        /\ engine.step = "start" /\ engine.state = NotFound /\ engine.decision = NoDecision
        /\ history = [r \in {1, 2} |-> r]
        /\ \A p \in Responders : responder[p].step = "idle"
    BY DEF Init, Idle, NewEngine
  <2>2. NoDecision.status = "none"
    BY DEF NoDecision
  <2>3. PublicationOK
    BY <2>1 DEF PublicationOK, PublishedIsApproved, PublishersHoldIt
  <2>4. VersionsNameLifecycles
    BY <2>1 DEF VersionsNameLifecycles
  <2>5. EngineOK
    BY <2>1, <2>2 DEF EngineOK, EngineIsCurrent, PassedIsCurrent
  <2>6. ReviewOK
    <3>1. Reviewed = {}
      BY <2>1 DEF Reviewed
    <3> QED BY <2>1, <2>2, <3>1 DEF ReviewOK, ReviewedHasPassed, PassedIsCurrent, ReviewIsTruthful
  <2> QED BY <2>3, <2>4, <2>5, <2>6 DEF ApprovalOK
<1>2. ApprovalTypeOK /\ ApprovalTypeOK' /\ ApprovalOK /\ [Next]_vars => ApprovalOK'
  BY PublicationStep, VersionsStep, EngineOKStep, ReviewOKStep DEF ApprovalOK
<1> QED BY <1>1, <1>2, ApprovalTypeCorrect, PTL DEF Spec

\* Types, publication, the versions read, and the reads of the policy engine:
\* the conjunction by which a review is the truth and a request an approval.
THEOREM ApprovalInvariance == Spec => []ApprovalInvariant
<1>1. ApprovalTypeOK /\ ApprovalOK => ApprovalInvariant
  BY DEF ApprovalOK, PublicationOK, EngineOK, ReviewOK, ApprovalInvariant
<1> QED BY <1>1, ApprovalHolds, PTL

\* A Responder reviews what the Deployment was at the resourceVersion named,
\* whatever happened between the reads it is put together from.
THEOREM ReviewIsTruthfulAlways == Spec => []ReviewIsTruthful
<1>1. ApprovalTypeOK /\ ApprovalOK => ReviewIsTruthful
  BY DEF ApprovalOK, ReviewOK
<1> QED BY <1>1, ApprovalHolds, PTL
=============================================================================
