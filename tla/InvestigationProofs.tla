------------------------ MODULE InvestigationProofs ------------------------
(***************************************************************************)
(* Proofs about Investigation for every set of runs, Specialists and       *)
(* Responders, every budget and every number of faults.                    *)
(***************************************************************************)
EXTENDS Investigation, FiniteSetTheorems, TLAPS

-----------------------------------------------------------------------------
(* Types.                                                                  *)

\* A run that goes on to another call has the same other locals.
LEMMA GotoType ==
  ASSUME InvestigationTypeOK, NEW r \in Runs, NEW p \in RunSteps, Goto(r, p)
  PROVE  run' \in [Runs -> RunLocals]
<1>1. run[r] \in RunLocals
  BY DEF InvestigationTypeOK
<1>2. [run[r] EXCEPT !.step = p] \in RunLocals
  BY <1>1, Zenon DEF RunLocals
<1> QED BY <1>2 DEF InvestigationTypeOK, Goto

\* Likewise the task of a Specialist.
LEMMA TaskType ==
  ASSUME InvestigationTypeOK, NEW r \in Runs, NEW s \in Specialists,
         NEW t \in Task, specialist' = [specialist EXCEPT ![r][s] = t]
  PROVE  specialist' \in [Runs -> [Specialists -> Task]]
<1>1. specialist[r] \in [Specialists -> Task]
  BY DEF InvestigationTypeOK
<1>2. [specialist[r] EXCEPT ![s] = t] \in [Specialists -> Task]
  BY <1>1
<1> QED BY <1>2 DEF InvestigationTypeOK

LEMMA TaskGotoType ==
  ASSUME InvestigationTypeOK, NEW r \in Runs, NEW s \in Specialists,
         NEW p \in SpecialistSteps, TaskGoto(r, s, p)
  PROVE  specialist' \in [Runs -> [Specialists -> Task]]
<1>1. specialist[r][s] \in Task
  BY DEF InvestigationTypeOK
<1>2. [specialist[r][s] EXCEPT !.step = p] \in Task
  BY <1>1, Zenon DEF Task
<1>3. specialist' = [specialist EXCEPT ![r][s] = [specialist[r][s] EXCEPT !.step = p]]
  BY DEF TaskGoto
<1> QED BY <1>2, <1>3, TaskType

LEMMA TaskEndType ==
  ASSUME InvestigationTypeOK, NEW r \in Runs, NEW s \in Specialists,
         NEW p \in SpecialistSteps, TaskEnd(r, s, p)
  PROVE  specialist' \in [Runs -> [Specialists -> Task]]
<1>1. [step |-> p, rounds |-> 0] \in Task
  BY DEF Task
<1> QED BY <1>1, TaskType DEF TaskEnd

\* What the store operations write is a record.
LEMMA AppendTypes ==
  ASSUME InvestigationTypeOK, NEW s \in Specialists, NEW n \in Nat
  PROVE  /\ AppendObservation(s) => record' \in Investigated
         /\ AppendQuery(s, n) => record' \in Investigated
<1>1. /\ record \in Investigated
      /\ record.evidence \in [Specialists -> Nat]
      /\ record.queries \in [Specialists -> Nat]
      /\ record.round \in [Specialists -> Nat]
  BY DEF InvestigationTypeOK, Investigated, Evidence
<1> DEFINE e == [record.evidence EXCEPT ![s] = @ + 1]
           q == [record.queries EXCEPT ![s] = @ + 1]
           t == [record.round EXCEPT ![s] = IF n > @ THEN n ELSE @]
<1>2. e \in [Specialists -> Nat] /\ q \in [Specialists -> Nat] /\ t \in [Specialists -> Nat]
  BY <1>1
<1>3. AppendObservation(s) => record' = [record EXCEPT !.evidence = e]
  BY DEF AppendObservation
<1>4. AppendQuery(s, n) => record' = [record EXCEPT !.queries = q, !.round = t]
  BY DEF AppendQuery
<1> HIDE DEF e, q, t
<1>5. [record EXCEPT !.evidence = e] \in Investigated
  BY <1>1, <1>2, Zenon DEF Investigated, Evidence
<1>6. [record EXCEPT !.queries = q, !.round = t] \in Investigated
  BY <1>1, <1>2, Zenon DEF Investigated
<1> QED BY <1>3, <1>4, <1>5, <1>6

\* Whatever the lifecycle, the outcome, the policy and the rest become, too.
LEMMA UpdateTypes ==
  ASSUME InvestigationTypeOK
  PROVE  /\ \A l \in Lifecycles : [record EXCEPT !.lifecycle = l, !.version = @ + 1] \in Investigated
         /\ \A l \in Lifecycles : [record EXCEPT !.policy = "passed", !.lifecycle = l,
                                                 !.version = @ + 1] \in Investigated
         /\ [record EXCEPT !.policy = "rejected"] \in Investigated
         /\ \A e \in Evidence : [record EXCEPT !.evidence = e] \in Investigated
         /\ \A f \in [Specialists -> Runs \cup {NoRun}] :
              [record EXCEPT !.findings = f] \in Investigated
         /\ \A l \in Lifecycles, o \in InvestigationOutcomes, r \in Runs, h \in Evidence :
              [record EXCEPT !.lifecycle = l, !.outcome = o, !.version = @ + 1,
                             !.completed = r, !.hash = h] \in Investigated
<1>1. record \in Investigated /\ record.version + 1 \in Nat
  BY DEF InvestigationTypeOK, Investigated
<1>2. \A l \in Lifecycles : [record EXCEPT !.lifecycle = l, !.version = @ + 1] \in Investigated
  BY <1>1, Zenon DEF Investigated
<1>3. \A l \in Lifecycles : [record EXCEPT !.policy = "passed", !.lifecycle = l,
                                           !.version = @ + 1] \in Investigated
  BY <1>1, Zenon DEF Investigated
<1>4. [record EXCEPT !.policy = "rejected"] \in Investigated
  BY <1>1, Zenon DEF Investigated
<1>5. \A e \in Evidence : [record EXCEPT !.evidence = e] \in Investigated
  BY <1>1, Zenon DEF Investigated
<1>6. \A f \in [Specialists -> Runs \cup {NoRun}] :
        [record EXCEPT !.findings = f] \in Investigated
  BY <1>1, Zenon DEF Investigated
<1>7. \A l \in Lifecycles, o \in InvestigationOutcomes, r \in Runs, h \in Evidence :
        [record EXCEPT !.lifecycle = l, !.outcome = o, !.version = @ + 1,
                       !.completed = r, !.hash = h] \in Investigated
  <2> SUFFICES ASSUME NEW l \in Lifecycles, NEW o \in InvestigationOutcomes,
                      NEW r \in Runs, NEW h \in Evidence
               PROVE  [record EXCEPT !.lifecycle = l, !.outcome = o, !.version = @ + 1,
                                     !.completed = r, !.hash = h] \in Investigated
    OBVIOUS
  <2>1. r \in Runs \cup {NoRun}
    OBVIOUS
  <2> QED BY <1>1, <2>1, Zenon DEF Investigated
<1> QED BY <1>2, <1>3, <1>4, <1>5, <1>6, <1>7

\* A state of which each variable has its type.
LEMMA TypesTogether ==
  ASSUME record' \in Investigated, run' \in [Runs -> RunLocals],
         specialist' \in [Runs -> [Specialists -> Task]],
         query' \in [Responders -> QueryLocals], faults' \in Nat
  PROVE  InvestigationTypeOK'
BY DEF InvestigationTypeOK

LEMMA RunTypeStep ==
  ASSUME InvestigationTypeOK, NEW r \in Runs,
         Begin(r) \/ RunStep(r) \/ Coordinate(r) \/ RunFails(r)
  PROVE  InvestigationTypeOK'
<1>1. /\ record \in Investigated /\ run \in [Runs -> RunLocals]
      /\ specialist \in [Runs -> [Specialists -> Task]]
      /\ query \in [Responders -> QueryLocals] /\ faults \in Nat
      /\ run[r] \in RunLocals /\ record.version \in Nat /\ record.evidence \in Evidence
  BY DEF InvestigationTypeOK, Investigated
<1>2. /\ run[r].outcome \in InvestigationOutcomes
      /\ run[r].hash \in Evidence /\ NoEvidence \in Evidence
      /\ NewRun \in RunLocals
  BY <1>1 DEF RunLocals, NoEvidence, Evidence, NewRun, RunSteps, InvestigationOutcomes
<1>3. {"collect", "start", "claim", "raised", "specialists", "abandoned", "coordinate",
       "complete", "evaluate", "decide", "done"} \subseteq RunSteps
  BY DEF RunSteps
<1>4. /\ {"investigating", "awaiting_approval", "closed"} \subseteq Lifecycles
      /\ "not_started" \in InvestigationOutcomes /\ "inconclusive" \in InvestigationOutcomes
  BY DEF Lifecycles, InvestigationOutcomes
<1>5. CASE Begin(r)
  <2>1. Goto(r, "collect") \/ Goto(r, "start")
    BY <1>5 DEF Begin
  <2>2. run' \in [Runs -> RunLocals]
    BY <1>3, <2>1, GotoType
  <2> QED BY <1>1, <1>5, <2>2, TypesTogether DEF Begin
<1>6. CASE Collect(r)
  <2>1. run' \in [Runs -> RunLocals]
    BY <1>3, <1>6, GotoType DEF Collect
  <2>2. PICK got \in SUBSET Specialists :
          record' = [record EXCEPT !.evidence =
                       [s \in Specialists |-> IF s \in got THEN @[s] + 1 ELSE @[s]]]
    BY <1>6 DEF Collect
  <2>3. [s \in Specialists |-> IF s \in got THEN record.evidence[s] + 1
                                            ELSE record.evidence[s]] \in Evidence
    BY <1>1 DEF Evidence
  <2>4. record' \in Investigated
    BY <2>2, <2>3, UpdateTypes
  <2> QED BY <1>1, <1>6, <2>1, <2>4, TypesTogether DEF Collect
<1>7. CASE Start(r)
  <2>1. [run[r] EXCEPT !.step = "claim", !.version = record.version] \in RunLocals
    BY <1>1, <1>3, Zenon DEF RunLocals
  <2>2. \/ run' = [run EXCEPT ![r] = [run[r] EXCEPT !.step = "claim",
                                                    !.version = record.version]]
        \/ Goto(r, "raised")
    BY <1>7 DEF Start
  <2>3. run' \in [Runs -> RunLocals]
    BY <1>1, <1>3, <2>1, <2>2, GotoType
  <2> QED BY <1>1, <1>7, <2>3, TypesTogether DEF Start
<1>8. CASE Claim(r)
  <2>1. \A p \in RunSteps : [run[r] EXCEPT !.step = p, !.version = 0] \in RunLocals
    <3>1. 0 \in Nat
      OBVIOUS
    <3> QED BY <1>1, <3>1, Zenon DEF RunLocals
  <2>2. \E p \in RunSteps : run' = [run EXCEPT ![r] = [run[r] EXCEPT !.step = p, !.version = 0]]
    BY <1>3, <1>8 DEF Claim
  <2>3. run' \in [Runs -> RunLocals]
    BY <1>1, <2>1, <2>2
  <2>4. record' \in Investigated
    BY <1>1, <1>4, <1>8, UpdateTypes DEF Claim
  <2>5. specialist' \in [Runs -> [Specialists -> Task]]
    <3>1. [s \in Specialists |-> [step |-> "ask", rounds |-> 0]] \in [Specialists -> Task]
      BY DEF Task, SpecialistSteps
    <3> QED BY <1>1, <1>8, <3>1 DEF Claim
  <2> QED BY <1>1, <1>8, <2>3, <2>4, <2>5, TypesTogether DEF Claim
<1>9. CASE Gather(r)
  <2>1. [run[r] EXCEPT !.step = "coordinate", !.hash = record.evidence] \in RunLocals
    BY <1>1, <1>3, Zenon DEF RunLocals
  <2>2. \/ run' = [run EXCEPT ![r] = [run[r] EXCEPT !.step = "coordinate",
                                                    !.hash = record.evidence]]
        \/ Goto(r, "abandoned")
    BY <1>9 DEF Gather
  <2>3. run' \in [Runs -> RunLocals]
    BY <1>1, <1>3, <2>1, <2>2, GotoType
  <2> QED BY <1>1, <1>9, <2>3, TypesTogether DEF Gather
<1>10. CASE Coordinate(r) \/ CoordinatorTimeout(r)
  <2>1. \A o \in InvestigationOutcomes :
          [run[r] EXCEPT !.step = "complete", !.outcome = o] \in RunLocals
    BY <1>1, <1>3, Zenon DEF RunLocals
  <2>2. \E o \in InvestigationOutcomes :
          run' = [run EXCEPT ![r] = [run[r] EXCEPT !.step = "complete", !.outcome = o]]
    BY <1>4, <1>10 DEF Coordinate, CoordinatorTimeout
  <2>3. run' \in [Runs -> RunLocals]
    BY <1>1, <2>1, <2>2
  <2> QED BY <1>1, <1>10, <2>3, TypesTogether DEF Coordinate, CoordinatorTimeout
<1>11. CASE Complete(r)
  <2>1. CompletedBy(r) \in Investigated
    <3>1. (IF run[r].outcome = "proposal_ready" THEN run[r].hash ELSE NoEvidence) \in Evidence
      BY <1>2
    <3> QED BY <1>2, <1>4, <3>1, UpdateTypes, Zenon DEF CompletedBy
  <2>2. AfterCompletion(r) \in RunLocals
    <3>1. \A p \in RunSteps :
            [run[r] EXCEPT !.step = p, !.hash = NoEvidence, !.outcome = "not_started"]
              \in RunLocals
      BY <1>1, <1>2, <1>4, Zenon DEF RunLocals
    <3>2. (IF run[r].outcome = "proposal_ready" THEN "evaluate" ELSE "done") \in RunSteps
      BY <1>3
    <3> QED BY <3>1, <3>2, Zenon DEF AfterCompletion
  <2>3. \/ record' = CompletedBy(r) /\ run' = [run EXCEPT ![r] = AfterCompletion(r)]
        \/ Goto(r, "raised") /\ UNCHANGED record
    BY <1>11 DEF Complete
  <2>4. record' \in Investigated /\ run' \in [Runs -> RunLocals]
    BY <1>1, <1>3, <2>1, <2>2, <2>3, GotoType
  <2> QED BY <1>1, <1>11, <2>4, TypesTogether DEF Complete
<1>12. CASE Evaluate(r)
  <2>1. \A v \in {"passed", "rejected"} :
          [run[r] EXCEPT !.step = "decide", !.verdict = v] \in RunLocals
    <3>1. \A v \in {"passed", "rejected"} : v \in {"none", "passed", "rejected"}
      OBVIOUS
    <3> QED BY <1>1, <1>3, <3>1, Zenon DEF RunLocals
  <2>2. \E v \in {"passed", "rejected"} :
          run' = [run EXCEPT ![r] = [run[r] EXCEPT !.step = "decide", !.verdict = v]]
    BY <1>12 DEF Evaluate
  <2>3. run' \in [Runs -> RunLocals]
    BY <1>1, <2>1, <2>2
  <2> QED BY <1>1, <1>12, <2>3, TypesTogether DEF Evaluate
<1>13. CASE Decide(r)
  <2>1. \A p \in RunSteps : [run[r] EXCEPT !.step = p, !.verdict = "none"] \in RunLocals
    <3>1. "none" \in {"none", "passed", "rejected"}
      OBVIOUS
    <3> QED BY <1>1, <3>1, Zenon DEF RunLocals
  <2>2. \E p \in RunSteps :
          run' = [run EXCEPT ![r] = [run[r] EXCEPT !.step = p, !.verdict = "none"]]
    BY <1>3, <1>13 DEF Decide
  <2>3. run' \in [Runs -> RunLocals]
    BY <1>1, <2>1, <2>2
  <2>4. \/ record' = [record EXCEPT !.policy = "passed", !.lifecycle = "awaiting_approval",
                                    !.version = @ + 1]
        \/ record' = [record EXCEPT !.policy = "rejected"]
        \/ UNCHANGED record
    BY <1>13 DEF Decide
  <2>5. record' \in Investigated
    <3>1. /\ [record EXCEPT !.policy = "passed", !.lifecycle = "awaiting_approval",
                            !.version = @ + 1] \in Investigated
          /\ [record EXCEPT !.policy = "rejected"] \in Investigated
          /\ record \in Investigated
      <4>1. "awaiting_approval" \in Lifecycles
        BY DEF Lifecycles
      <4> QED BY <1>1, <4>1, UpdateTypes, Zenon
    <3> QED BY <2>4, <3>1, Zenon
  <2> QED BY <1>1, <1>13, <2>3, <2>5, TypesTogether DEF Decide
<1>14. CASE RunFails(r)
  <2>1. [NewRun EXCEPT !.step = "raised"] \in RunLocals
    BY <1>2, <1>3, Zenon DEF RunLocals
  <2>2. run' \in [Runs -> RunLocals] /\ faults' \in Nat
    BY <1>1, <1>14, <2>1 DEF RunFails, Fault
  <2> QED BY <1>1, <1>14, <2>2, TypesTogether DEF RunFails
<1> QED BY <1>5, <1>6, <1>7, <1>8, <1>9, <1>10, <1>11, <1>12, <1>13, <1>14 DEF RunStep

LEMMA TaskTypeStep ==
  ASSUME InvestigationTypeOK, NEW r \in Runs, NEW s \in Specialists,
         TaskStep(r, s) \/ Answer(r, s) \/ TaskFails(r, s)
  PROVE  InvestigationTypeOK'
<1>1. /\ record \in Investigated /\ run \in [Runs -> RunLocals]
      /\ query \in [Responders -> QueryLocals] /\ faults \in Nat
      /\ specialist[r][s] \in Task /\ specialist[r][s].rounds \in Nat
      /\ record.findings \in [Specialists -> Runs \cup {NoRun}]
  BY DEF InvestigationTypeOK, Investigated, Task
<1>2. {"ask", "issue", "observe", "record", "succeeded", "failed", "raised"}
        \subseteq SpecialistSteps
  BY DEF SpecialistSteps
<1>3. CASE SpecialistTimeout(r, s)
  BY <1>1, <1>2, <1>3, TaskEndType, TypesTogether DEF SpecialistTimeout
<1>4. CASE Issue(r, s)
  <2>1. specialist[r][s].rounds + 1 \in Nat
    BY <1>1
  <2> QED BY <1>1, <1>2, <1>4, <2>1, TaskGotoType, AppendTypes, TypesTogether DEF Issue
<1>5. CASE Observe(r, s)
  <2>1. [step |-> "ask", rounds |-> specialist[r][s].rounds + 1] \in Task
    BY <1>1, <1>2 DEF Task
  <2>2. specialist' = [specialist EXCEPT ![r][s] =
                         [step |-> "ask", rounds |-> specialist[r][s].rounds + 1]]
    BY <1>5 DEF Observe
  <2>3. specialist' \in [Runs -> [Specialists -> Task]]
    BY <2>1, <2>2, TaskType
  <2>4. record' \in Investigated
    BY <1>1, <1>5, AppendTypes DEF Observe
  <2> QED BY <1>1, <1>5, <2>3, <2>4, TypesTogether DEF Observe
<1>6. CASE ObservationFails(r, s)
  BY <1>1, <1>2, <1>6, TaskEndType, TypesTogether DEF ObservationFails
<1>7. CASE RecordFinding(r, s)
  <2>1. [record.findings EXCEPT ![s] = r] \in [Specialists -> Runs \cup {NoRun}]
    BY <1>1
  <2>2. \/ record' = [record EXCEPT !.findings = [record.findings EXCEPT ![s] = r]]
        \/ UNCHANGED record
    BY <1>7 DEF RecordFinding
  <2>3. record' \in Investigated
    BY <1>1, <2>1, <2>2, UpdateTypes
  <2>4. TaskEnd(r, s, "succeeded") \/ TaskEnd(r, s, "raised")
    BY <1>7 DEF RecordFinding
  <2>5. specialist' \in [Runs -> [Specialists -> Task]]
    BY <1>2, <2>4, TaskEndType
  <2> QED BY <1>1, <1>7, <2>3, <2>5, TypesTogether DEF RecordFinding
<1>8. CASE Answer(r, s)
  <2>1. TaskGoto(r, s, "record") \/ TaskGoto(r, s, "issue") \/ TaskEnd(r, s, "failed")
    BY <1>8 DEF Answer, AnswerFinding, AnswerQuery, NoAnswer
  <2>2. specialist' \in [Runs -> [Specialists -> Task]]
    BY <1>2, <2>1, TaskGotoType, TaskEndType
  <2> QED BY <1>1, <1>8, <2>2, TypesTogether DEF Answer
<1>9. CASE TaskFails(r, s)
  <2>1. TaskEnd(r, s, "raised") \/ TaskEnd(r, s, "failed")
    BY <1>9 DEF TaskFails
  <2>2. specialist' \in [Runs -> [Specialists -> Task]]
    BY <1>2, <2>1, TaskEndType
  <2> QED BY <1>1, <1>9, <2>2, TypesTogether DEF TaskFails, Fault
<1> QED BY <1>3, <1>4, <1>5, <1>6, <1>7, <1>8, <1>9 DEF TaskStep

LEMMA QueryTypeStep ==
  ASSUME InvestigationTypeOK, NEW p \in Responders, QueryStep(p)
  PROVE  InvestigationTypeOK'
<1>1. /\ record \in Investigated /\ run \in [Runs -> RunLocals]
      /\ specialist \in [Runs -> [Specialists -> Task]]
      /\ query \in [Responders -> QueryLocals] /\ faults \in Nat
      /\ query[p] \in QueryLocals
      /\ query[p].role \in Specialists /\ query[p].round \in Nat
  BY DEF InvestigationTypeOK, QueryLocals
<1>2. ASSUME NEW s \in Specialists, NEW n \in 1..MaxQueries, Request(p, s, n)
      PROVE  InvestigationTypeOK'
  <2>1. [step |-> "issue", role |-> s, round |-> n] \in QueryLocals
    BY InvestigationAssumption DEF QueryLocals
  <2>2. query' \in [Responders -> QueryLocals]
    BY <1>1, <1>2, <2>1 DEF Request
  <2> QED BY <1>1, <1>2, <2>2, TypesTogether DEF Request
<1>3. CASE RequestIssue(p)
  <2>1. [query[p] EXCEPT !.step = "observe", !.round = 0] \in QueryLocals
    <3>1. "observe" \in {"idle", "issue", "observe"} /\ 0 \in Nat
      OBVIOUS
    <3> QED BY <1>1, <3>1, Zenon DEF QueryLocals
  <2>2. query' = [query EXCEPT ![p] = [query[p] EXCEPT !.step = "observe", !.round = 0]]
    BY <1>3 DEF RequestIssue
  <2>3. query' \in [Responders -> QueryLocals]
    BY <1>1, <2>1, <2>2
  <2> QED BY <1>1, <1>3, <2>3, AppendTypes, TypesTogether DEF RequestIssue
<1>4. CASE RequestObserve(p)
  <2>1. [query[p] EXCEPT !.step = "idle"] \in QueryLocals
    <3>1. "idle" \in {"idle", "issue", "observe"}
      OBVIOUS
    <3> QED BY <1>1, <3>1, Zenon DEF QueryLocals
  <2>2. query' = [query EXCEPT ![p] = [query[p] EXCEPT !.step = "idle"]]
    BY <1>4 DEF RequestObserve
  <2>3. query' \in [Responders -> QueryLocals]
    BY <1>1, <2>1, <2>2
  <2>4. record' \in Investigated
    BY <1>1, <1>4, AppendTypes DEF RequestObserve
  <2> QED BY <1>1, <1>4, <2>3, <2>4, TypesTogether DEF RequestObserve
<1> QED BY <1>2, <1>3, <1>4 DEF QueryStep

\* Every step keeps the types.
LEMMA InvestigationTypeStep ==
  ASSUME InvestigationTypeOK, [Next]_vars
  PROVE  InvestigationTypeOK'
<1>1. CASE UNCHANGED vars
  BY <1>1 DEF vars, InvestigationTypeOK
<1>2. CASE Close
  <2>1. record' \in Investigated
    BY <1>2, UpdateTypes DEF Close, Lifecycles
  <2> QED BY <1>2, <2>1, TypesTogether DEF Close, InvestigationTypeOK
<1>3. ASSUME NEW dead \in SUBSET Runs, Crash(dead)
      PROVE  InvestigationTypeOK'
  <2>1. [NewRun EXCEPT !.step = "dead"] \in RunLocals
    <3>1. NewRun \in RunLocals /\ "dead" \in RunSteps
      BY DEF NewRun, RunLocals, NoEvidence, Evidence, RunSteps, InvestigationOutcomes
    <3> QED BY <3>1, Zenon DEF RunLocals
  <2>2. run' \in [Runs -> RunLocals]
    BY <1>3, <2>1 DEF Crash, InvestigationTypeOK
  <2>3. [s \in Specialists |-> NoTask] \in [Specialists -> Task]
    BY DEF NoTask, Task, SpecialistSteps
  <2>4. specialist' \in [Runs -> [Specialists -> Task]]
    BY <1>3, <2>3 DEF Crash, InvestigationTypeOK
  <2>5. UNCHANGED <<record, query>> /\ faults' \in Nat
    BY <1>3 DEF Crash, Fault, InvestigationTypeOK
  <2> QED BY <2>2, <2>4, <2>5, TypesTogether DEF InvestigationTypeOK
<1> QED BY <1>1, <1>2, <1>3, RunTypeStep, TaskTypeStep, QueryTypeStep DEF Next

LEMMA InvestigationTypeInit ==
  ASSUME Init
  PROVE  InvestigationTypeOK
<1>1. NoEvidence \in Evidence /\ [s \in Specialists |-> 0] \in [Specialists -> Nat]
      /\ [s \in Specialists |-> NoRun] \in [Specialists -> Runs \cup {NoRun}]
  BY DEF NoEvidence, Evidence
<1>2. record \in Investigated
  BY <1>1 DEF Init, Investigated, Lifecycles, InvestigationOutcomes
<1>3. run \in [Runs -> RunLocals]
  BY <1>1 DEF Init, NewRun, RunLocals, RunSteps, InvestigationOutcomes
<1>4. specialist \in [Runs -> [Specialists -> Task]]
  BY DEF Init, NoTask, Task, SpecialistSteps
<1>5. query \in [Responders -> QueryLocals]
  BY DEF Init, QueryLocals
<1> QED BY <1>2, <1>3, <1>4, <1>5 DEF Init, InvestigationTypeOK

\* The types hold in every reachable state.
THEOREM InvestigationTypeCorrect == Spec => []InvestigationTypeOK
BY InvestigationTypeInit, InvestigationTypeStep, PTL DEF Spec

-----------------------------------------------------------------------------
(* What the steps do to the record.                                        *)

\* The parts of the record only an investigation and its decision change.
LEMMA RecordEffect ==
  ASSUME InvestigationTypeOK, [Next]_vars
  PROVE  \/ /\ record'.outcome = record.outcome
            /\ record'.lifecycle = record.lifecycle
            /\ record'.version = record.version
            /\ record'.completed = record.completed
            /\ record'.hash = record.hash
         \/ \E r \in Runs :
              /\ RunAt(r, "claim") /\ run[r].version = record.version
              /\ run' = [run EXCEPT ![r].step = "specialists", ![r].version = 0]
              /\ record'.lifecycle = "investigating"
              /\ record'.version = record.version + 1
              /\ record'.outcome = record.outcome
              /\ record'.completed = record.completed
              /\ record'.hash = record.hash
         \/ \E r \in Runs :
              /\ Complete(r) /\ record.outcome = "not_started"
              /\ run' = [run EXCEPT ![r] = AfterCompletion(r)]
              /\ record'.lifecycle = "investigating"
              /\ record'.version = record.version + 1
              /\ record'.outcome = run[r].outcome
         \/ \E r \in Runs :
              /\ Decide(r)
              /\ record'.lifecycle = "awaiting_approval"
              /\ record'.version = record.version + 1
              /\ record'.outcome = record.outcome
              /\ record'.completed = record.completed
              /\ record'.hash = record.hash
         \/ /\ UNCHANGED run
            /\ record'.lifecycle = "closed"
            /\ record'.version = record.version + 1
            /\ record'.outcome = record.outcome
            /\ record'.completed = record.completed
            /\ record'.hash = record.hash
<1> DEFINE Plain == /\ record'.outcome = record.outcome
                    /\ record'.lifecycle = record.lifecycle
                    /\ record'.version = record.version
                    /\ record'.completed = record.completed
                    /\ record'.hash = record.hash
<1>1. record \in Investigated
  BY DEF InvestigationTypeOK
<1>2. CASE UNCHANGED vars
  BY <1>2 DEF vars
<1>3. ASSUME NEW r \in Runs, Claim(r)
      PROVE  \/ Plain
             \/ /\ RunAt(r, "claim") /\ run[r].version = record.version
                /\ run' = [run EXCEPT ![r].step = "specialists", ![r].version = 0]
                /\ record'.lifecycle = "investigating"
                /\ record'.version = record.version + 1
                /\ record'.outcome = record.outcome
                /\ record'.completed = record.completed
                /\ record'.hash = record.hash
  BY <1>1, <1>3 DEF Claim, Investigated
<1>4. ASSUME NEW r \in Runs, Complete(r)
      PROVE  \/ Plain
             \/ /\ record.outcome = "not_started"
                /\ run' = [run EXCEPT ![r] = AfterCompletion(r)]
                /\ record'.lifecycle = "investigating"
                /\ record'.version = record.version + 1
                /\ record'.outcome = run[r].outcome
  BY <1>1, <1>4 DEF Complete, CompletedBy, Investigated
<1>5. ASSUME NEW r \in Runs, Decide(r)
      PROVE  \/ Plain
             \/ /\ record'.lifecycle = "awaiting_approval"
                /\ record'.version = record.version + 1
                /\ record'.outcome = record.outcome
                /\ record'.completed = record.completed
                /\ record'.hash = record.hash
  BY <1>1, <1>5 DEF Decide, Investigated
<1>6. ASSUME NEW r \in Runs, \/ Begin(r) \/ Collect(r) \/ Start(r) \/ Gather(r)
                             \/ CoordinatorTimeout(r) \/ Evaluate(r)
                             \/ Coordinate(r) \/ RunFails(r)
      PROVE  Plain
  BY <1>1, <1>6 DEF Begin, Collect, Start, Gather, CoordinatorTimeout, Evaluate,
                    Coordinate, RunFails, Investigated
<1>7. ASSUME NEW r \in Runs, NEW s \in Specialists,
             TaskStep(r, s) \/ Answer(r, s) \/ TaskFails(r, s)
      PROVE  Plain
  BY <1>1, <1>7 DEF TaskStep, SpecialistTimeout, Issue, Observe, ObservationFails,
                    RecordFinding, Answer, TaskFails, AppendObservation, AppendQuery,
                    Investigated
<1>8. ASSUME NEW p \in Responders, QueryStep(p)
      PROVE  Plain
  BY <1>1, <1>8 DEF QueryStep, Request, RequestIssue, RequestObserve,
                    AppendObservation, AppendQuery, Investigated
<1>9. CASE Close
  BY <1>1, <1>9 DEF Close, Investigated
<1>10. ASSUME NEW dead \in SUBSET Runs, Crash(dead)
       PROVE  Plain
  BY <1>10 DEF Crash
<1> QED BY <1>2, <1>3, <1>4, <1>5, <1>6, <1>7, <1>8, <1>9, <1>10 DEF Next, RunStep

\* The outcome, and what it is bound to, is set once: only complete_investigation
\* sets it, and only if there is none.
THEOREM CompletedOnceAlways == Spec => CompletedOnce
<1>1. ASSUME InvestigationTypeOK, [Next]_vars
      PROVE  [record.outcome # "not_started" =>
                /\ record'.outcome = record.outcome
                /\ record'.completed = record.completed
                /\ record'.hash = record.hash]_vars
  BY <1>1, RecordEffect
<1> QED BY <1>1, InvestigationTypeCorrect, PTL DEF Spec, CompletedOnce

-----------------------------------------------------------------------------
(* What a run relies on.                                                   *)

\* Who is about to claim, to evaluate or to decide, and how it came there.
LEMMA RunEffect ==
  ASSUME InvestigationTypeOK, [Next]_vars, NEW q \in Runs
  PROVE  /\ run'[q].step = "claim" =>
              \/ run'[q] = run[q]
              \/ /\ UNCHANGED record
                 /\ run'[q].version = record.version
                 /\ record.outcome = "not_started"
         /\ run'[q].step \in {"evaluate", "decide"} =>
              \/ run[q].step \in {"evaluate", "decide"}
              \/ record'.outcome = "proposal_ready"
<1> USE DEF RunAt, Goto
<1>1. /\ record \in Investigated /\ run \in [Runs -> RunLocals]
      /\ record.version \in Nat
      /\ \A r \in Runs : run[r] \in RunLocals
  BY DEF InvestigationTypeOK, Investigated
<1>2. CASE UNCHANGED run
  BY <1>2
<1>3. ASSUME NEW r \in Runs, r # q, \A o \in Runs \ {r} : run'[o] = run[o]
      PROVE  run'[q] = run[q]
  BY <1>3
<1>4. CASE Begin(q) \/ Collect(q) \/ Claim(q) \/ Gather(q) \/ Coordinate(q)
           \/ CoordinatorTimeout(q) \/ Decide(q)
  BY <1>1, <1>4 DEF Begin, Collect, Claim, Gather, Coordinate, CoordinatorTimeout,
                    Decide, RunLocals
<1>5. CASE Start(q)
  BY <1>1, <1>5 DEF Start, RunLocals
<1>6. CASE Complete(q)
  <2>1. CASE Goto(q, "raised")
    BY <1>1, <2>1 DEF RunLocals
  <2>2. CASE record' = CompletedBy(q) /\ run' = [run EXCEPT ![q] = AfterCompletion(q)]
    BY <1>1, <2>2 DEF CompletedBy, AfterCompletion, RunLocals, Investigated
  <2> QED BY <1>6, <2>1, <2>2 DEF Complete
<1>7. CASE Evaluate(q)
  BY <1>1, <1>7 DEF Evaluate, RunLocals
<1>8. CASE RunFails(q)
  BY <1>1, <1>8 DEF RunFails, NewRun
<1>9. ASSUME NEW r \in Runs, Begin(r) \/ RunStep(r) \/ Coordinate(r) \/ RunFails(r)
      PROVE  \A o \in Runs \ {r} : run'[o] = run[o]
  BY <1>1, <1>9 DEF Begin, RunStep, Collect, Start, Claim, Gather, CoordinatorTimeout,
                    Complete, Evaluate, Decide, Coordinate, RunFails
<1>10. ASSUME NEW dead \in SUBSET Runs, Crash(dead)
       PROVE  run'[q] = run[q] \/ run'[q].step = "dead"
  BY <1>1, <1>10 DEF Crash, NewRun
<1>11. ASSUME NEW r \in Runs, NEW s \in Specialists,
              TaskStep(r, s) \/ Answer(r, s) \/ TaskFails(r, s)
       PROVE  UNCHANGED run
  BY <1>11 DEF TaskStep, SpecialistTimeout, Issue, Observe, ObservationFails,
               RecordFinding, Answer, TaskFails
<1>12. ASSUME NEW p \in Responders, QueryStep(p)
       PROVE  UNCHANGED run
  BY <1>12 DEF QueryStep, Request, RequestIssue, RequestObserve
<1>13. CASE Close \/ UNCHANGED vars
  BY <1>2, <1>13 DEF Close, vars
<1>14. ASSUME NEW r \in Runs, Begin(r) \/ RunStep(r) \/ Coordinate(r) \/ RunFails(r)
       PROVE  \/ run'[q] = run[q]
              \/ Begin(q) \/ RunStep(q) \/ Coordinate(q) \/ RunFails(q)
  BY <1>3, <1>9, <1>14
<1>15. CASE RunStep(q)
  BY <1>4, <1>5, <1>6, <1>7, <1>15 DEF RunStep
<1> QED
  BY <1>2, <1>4, <1>8, <1>10, <1>11, <1>12, <1>13, <1>14, <1>15 DEF Next

LEMMA ReadIsCurrentStep ==
  ASSUME InvestigationTypeOK, ReadIsCurrent, [Next]_vars
  PROVE  ReadIsCurrent'
<1> USE DEF RunAt
<1>1. /\ record.version \in Nat
      /\ \A r \in Runs : run[r] \in RunLocals /\ run[r].version \in Nat
  BY DEF InvestigationTypeOK, Investigated, RunLocals
<1>2. /\ record'.version >= record.version
      /\ record'.version = record.version => record'.outcome = record.outcome
      /\ record.outcome # "not_started" => record'.outcome = record.outcome
      /\ record'.version \in Nat
  <2>1. /\ \/ record'.version = record.version /\ record'.outcome = record.outcome
           \/ record'.version = record.version + 1
        /\ record.outcome # "not_started" => record'.outcome = record.outcome
    BY RecordEffect, Zenon
  <2> QED BY <1>1, <2>1
<1>3. ASSUME NEW q \in Runs, run'[q].step = "claim"
      PROVE  /\ run'[q].version <= record'.version
             /\ run'[q].version = record'.version => record'.outcome = "not_started"
  <2>1. CASE run'[q] = run[q]
    <3>1. /\ run[q].version <= record.version
          /\ run[q].version = record.version => record.outcome = "not_started"
      BY <1>3, <2>1 DEF ReadIsCurrent
    <3> QED BY <1>1, <1>2, <2>1, <3>1
  <2>2. CASE /\ UNCHANGED record
             /\ run'[q].version = record.version
             /\ record.outcome = "not_started"
    BY <1>1, <2>2
  <2> QED BY <1>3, <2>1, <2>2, RunEffect
<1>4. ASSUME NEW q \in Runs, run'[q].step \in {"evaluate", "decide"}
      PROVE  record'.outcome # "not_started"
  BY <1>2, <1>4, RunEffect DEF ReadIsCurrent
<1>5. ASSUME record'.lifecycle = "awaiting_approval"
      PROVE  record'.outcome # "not_started"
  <2>1. ASSUME NEW r \in Runs, Decide(r), record'.outcome = record.outcome
        PROVE  record'.outcome # "not_started"
    BY <2>1 DEF Decide, ReadIsCurrent
  <2>2. \/ record'.lifecycle = record.lifecycle /\ record'.outcome = record.outcome
        \/ \E r \in Runs : Decide(r) /\ record'.outcome = record.outcome
    BY <1>5, RecordEffect
  <2> QED BY <1>5, <2>1, <2>2 DEF ReadIsCurrent
<1> QED BY <1>3, <1>4, <1>5 DEF ReadIsCurrent

\* The findings, and whose they are.
LEMMA OwnFindingsStep ==
  ASSUME InvestigationTypeOK, OwnFindings, [Next]_vars
  PROVE  OwnFindings'
<1> USE DEF TaskAt
<1>1. /\ record \in Investigated
      /\ record.findings \in [Specialists -> Runs \cup {NoRun}]
      /\ specialist \in [Runs -> [Specialists -> Task]]
  BY DEF InvestigationTypeOK, Investigated
<1>2. ASSUME record'.findings = record.findings,
             \A q \in Runs, t \in Specialists :
               specialist'[q][t].step = "succeeded" => specialist[q][t].step = "succeeded"
      PROVE  OwnFindings'
  BY <1>2 DEF OwnFindings
<1>3. ASSUME NEW r \in Runs, NEW s \in Specialists, RecordFinding(r, s)
      PROVE  OwnFindings'
  <2>1. \A q \in Runs, t \in Specialists :
          ~ (q = r /\ t = s) => specialist'[q][t] = specialist[q][t]
    BY <1>1, <1>3 DEF RecordFinding, TaskEnd
  <2>2. CASE /\ record.findings[s] = NoRun
             /\ record' = [record EXCEPT !.findings[s] = r]
    <3>1. record'.findings = [record.findings EXCEPT ![s] = r]
      BY <1>1, <2>2 DEF Investigated
    <3>2. \A q \in Runs : specialist[q][s].step # "succeeded"
      BY <2>2, InvestigationAssumption DEF OwnFindings
    <3> QED BY <1>1, <2>1, <3>1, <3>2 DEF OwnFindings
  <2>3. CASE TaskEnd(r, s, "raised") /\ UNCHANGED record
    <3>1. specialist'[r][s].step = "raised"
      BY <1>1, <2>3 DEF TaskEnd
    <3> QED BY <1>2, <2>1, <2>3, <3>1
  <2> QED BY <1>3, <2>2, <2>3 DEF RecordFinding
<1>4. ASSUME NEW r \in Runs, NEW s \in Specialists, NEW p \in SpecialistSteps,
             p # "succeeded", TaskGoto(r, s, p) \/ TaskEnd(r, s, p)
      PROVE  \A q \in Runs, t \in Specialists :
               specialist'[q][t].step = "succeeded" => specialist[q][t].step = "succeeded"
  <2>1. PICK x \in Task : /\ x.step = p
                          /\ specialist' = [specialist EXCEPT ![r][s] = x]
    <3>1. specialist[r][s] \in Task
      BY <1>1
    <3>2. /\ [specialist[r][s] EXCEPT !.step = p] \in Task
          /\ [specialist[r][s] EXCEPT !.step = p].step = p
      BY <1>4, <3>1 DEF Task
    <3>3. [step |-> p, rounds |-> 0] \in Task
      BY <1>4 DEF Task
    <3>4. CASE TaskGoto(r, s, p)
      BY <3>2, <3>4 DEF TaskGoto
    <3>5. CASE TaskEnd(r, s, p)
      BY <3>3, <3>5 DEF TaskEnd
    <3> QED BY <1>4, <3>4, <3>5
  <2> QED BY <1>1, <1>4, <2>1
<1>5. ASSUME NEW r \in Runs, NEW s \in Specialists,
             \/ SpecialistTimeout(r, s) \/ ObservationFails(r, s) \/ Answer(r, s)
             \/ TaskFails(r, s)
      PROVE  OwnFindings'
  <2>1. \E p \in {"issue", "record", "failed", "raised"} :
          TaskGoto(r, s, p) \/ TaskEnd(r, s, p)
    BY <1>5 DEF SpecialistTimeout, ObservationFails, Answer, AnswerFinding, AnswerQuery,
                NoAnswer, TaskFails
  <2>2. {"issue", "record", "failed", "raised"} \subseteq SpecialistSteps \ {"succeeded"}
    BY DEF SpecialistSteps
  <2>3. UNCHANGED record
    BY <1>5 DEF SpecialistTimeout, ObservationFails, Answer, TaskFails
  <2> QED BY <1>2, <1>4, <2>1, <2>2, <2>3
<1>6. ASSUME NEW r \in Runs, NEW s \in Specialists, Issue(r, s) \/ Observe(r, s)
      PROVE  OwnFindings'
  <2>1. record'.findings = record.findings
    BY <1>1, <1>6 DEF Issue, Observe, AppendQuery, AppendObservation, Investigated
  <2>2. \A q \in Runs, t \in Specialists :
          specialist'[q][t].step = "succeeded" => specialist[q][t].step = "succeeded"
    <3>1. CASE Issue(r, s)
      <4>1. "observe" \in SpecialistSteps /\ TaskGoto(r, s, "observe")
        BY <3>1 DEF Issue, SpecialistSteps
      <4> QED BY <1>4, <4>1
    <3>2. CASE Observe(r, s)
      BY <1>1, <3>2 DEF Observe
    <3> QED BY <1>6, <3>1, <3>2
  <2> QED BY <1>2, <2>1, <2>2
<1>7. ASSUME NEW r \in Runs, Claim(r)
      PROVE  OwnFindings'
  <2>1. record'.findings = record.findings
    BY <1>1, <1>7 DEF Claim, Investigated
  <2>2. \A q \in Runs, t \in Specialists :
          specialist'[q][t].step = "succeeded" => specialist[q][t].step = "succeeded"
    BY <1>1, <1>7 DEF Claim
  <2> QED BY <1>2, <2>1, <2>2
<1>8. ASSUME NEW dead \in SUBSET Runs, Crash(dead)
      PROVE  OwnFindings'
  <2>1. \A q \in Runs, t \in Specialists :
          specialist'[q][t].step = "succeeded" => specialist[q][t].step = "succeeded"
    BY <1>1, <1>8 DEF Crash, NoTask
  <2> QED BY <1>2, <1>8, <2>1 DEF Crash
<1>9. ASSUME NEW r \in Runs,
             \/ Begin(r) \/ Collect(r) \/ Start(r) \/ Gather(r) \/ CoordinatorTimeout(r)
             \/ Complete(r) \/ Evaluate(r) \/ Decide(r) \/ Coordinate(r) \/ RunFails(r)
      PROVE  record'.findings = record.findings /\ UNCHANGED specialist
  BY <1>1, <1>9 DEF Begin, Collect, Start, Gather, CoordinatorTimeout, Complete,
                    CompletedBy, Evaluate, Decide, Coordinate, RunFails, Investigated
<1>10. ASSUME NEW p \in Responders, QueryStep(p)
       PROVE  record'.findings = record.findings /\ UNCHANGED specialist
  BY <1>1, <1>10 DEF QueryStep, Request, RequestIssue, RequestObserve,
                     AppendObservation, AppendQuery, Investigated
<1>11. CASE Close \/ UNCHANGED vars
  <2>1. record'.findings = record.findings /\ UNCHANGED specialist
    BY <1>1, <1>11 DEF Close, vars, Investigated
  <2> QED BY <1>2, <2>1
<1>12. ASSUME record'.findings = record.findings, UNCHANGED specialist
       PROVE  OwnFindings'
  BY <1>2, <1>12
<1> QED
  BY <1>3, <1>5, <1>6, <1>7, <1>8, <1>9, <1>10, <1>11, <1>12 DEF Next, RunStep, TaskStep

\* The inductive invariant holds in every reachable state.
THEOREM InvestigationInvariance == Spec => []InvestigationInvariant
<1>1. Init => InvestigationInvariant
  <2>1. Init => OwnFindings /\ ReadIsCurrent
    BY DEF Init, OwnFindings, TaskAt, NoTask, ReadIsCurrent, RunAt, NewRun
  <2> QED BY <2>1, InvestigationTypeInit DEF InvestigationInvariant
<1>2. ASSUME InvestigationInvariant, [Next]_vars
      PROVE  InvestigationInvariant'
  BY <1>2, InvestigationTypeStep, OwnFindingsStep, ReadIsCurrentStep
     DEF InvestigationInvariant
<1> QED BY <1>1, <1>2, PTL DEF Spec

\* What a Specialist's success says is in the record, whichever runs of the same
\* Incident record findings at the same time: append_finding takes the first.
THEOREM OwnFindingsAlways == Spec => []OwnFindings
<1>1. InvestigationInvariant => OwnFindings
  BY DEF InvestigationInvariant
<1> QED BY <1>1, InvestigationInvariance, PTL

\* An Incident that awaits its Approval is not taken back: a claim that read it
\* earlier holds an older version, and whoever is about to complete finds the
\* outcome set.
THEOREM ApprovalNotWithdrawnAlways == Spec => ApprovalNotWithdrawn
<1>1. ASSUME InvestigationInvariant, [Next]_vars
      PROVE  [record.lifecycle = "awaiting_approval" =>
                record'.lifecycle \in {"awaiting_approval", "closed"}]_vars
  <2> SUFFICES ASSUME record.lifecycle = "awaiting_approval"
               PROVE  record'.lifecycle \in {"awaiting_approval", "closed"}
    OBVIOUS
  <2>1. InvestigationTypeOK /\ record.outcome # "not_started"
    BY <1>1 DEF InvestigationInvariant, ReadIsCurrent
  <2>2. \A r \in Runs : ~ (RunAt(r, "claim") /\ run[r].version = record.version)
    BY <1>1, <2>1 DEF InvestigationInvariant, ReadIsCurrent
  <2> QED BY <1>1, <2>1, <2>2, RecordEffect
<1> QED BY <1>1, InvestigationInvariance, PTL DEF Spec, ApprovalNotWithdrawn

-----------------------------------------------------------------------------
(* The budget.                                                             *)

\* At each step and for each Specialist, either nobody is admitted and nothing
\* used, or the budget was not used up, or one who was admitted uses his query.
LEMMA BudgetEffect ==
  ASSUME InvestigationTypeOK, [Next]_vars, NEW z \in Specialists
  PROVE  \/ record'.queries[z] = record.queries[z] /\ Admitted(z)' \subseteq Admitted(z)
         \/ record'.queries[z] = record.queries[z] /\ record.queries[z] < MaxQueries
         \/ /\ record'.queries[z] = record.queries[z] + 1
            /\ \E x \in Admitted(z) : Admitted(z)' \subseteq Admitted(z) \ {x}
<1> DEFINE Same == record'.queries[z] = record.queries[z]
           None == Same /\ Admitted(z)' \subseteq Admitted(z)
           Left == Same /\ record.queries[z] < MaxQueries
           Used == /\ record'.queries[z] = record.queries[z] + 1
                   /\ \E x \in Admitted(z) : Admitted(z)' \subseteq Admitted(z) \ {x}
<1> USE DEF TaskAt
<1>1. /\ record \in Investigated
      /\ record.queries \in [Specialists -> Nat]
      /\ specialist \in [Runs -> [Specialists -> Task]]
      /\ query \in [Responders -> QueryLocals]
  BY DEF InvestigationTypeOK, Investigated
<1>2. ASSUME Same, UNCHANGED query,
             \A r \in Runs : specialist'[r][z].step = "issue" => specialist[r][z].step = "issue"
      PROVE  None
  BY <1>2 DEF Admitted
<1>3. ASSUME NEW r \in Runs, NEW s \in Specialists, NEW p \in SpecialistSteps,
             TaskGoto(r, s, p) \/ TaskEnd(r, s, p)
      PROVE  /\ specialist'[r][s].step = p
             /\ \A q \in Runs, t \in Specialists :
                  ~ (q = r /\ t = s) => specialist'[q][t] = specialist[q][t]
  <2>1. PICK x \in Task : /\ x.step = p
                          /\ specialist' = [specialist EXCEPT ![r][s] = x]
    <3>1. specialist[r][s] \in Task
      BY <1>1
    <3>2. /\ [specialist[r][s] EXCEPT !.step = p] \in Task
          /\ [specialist[r][s] EXCEPT !.step = p].step = p
      BY <1>3, <3>1 DEF Task
    <3>3. [step |-> p, rounds |-> 0] \in Task
      BY <1>3 DEF Task
    <3>4. CASE TaskGoto(r, s, p)
      BY <3>2, <3>4 DEF TaskGoto
    <3>5. CASE TaskEnd(r, s, p)
      BY <3>3, <3>5 DEF TaskEnd
    <3> QED BY <1>3, <3>4, <3>5
  <2> QED BY <1>1, <2>1
<1>4. {"ask", "issue", "observe", "record", "succeeded", "failed", "raised"} = SpecialistSteps \ {"idle"}
  BY DEF SpecialistSteps
<1>5. ASSUME NEW r \in Runs, NEW s \in Specialists, Issue(r, s)
      PROVE  None \/ Used
  <2>1. /\ specialist'[r][s].step = "observe"
        /\ \A q \in Runs, t \in Specialists :
             ~ (q = r /\ t = s) => specialist'[q][t] = specialist[q][t]
    BY <1>3, <1>4, <1>5 DEF Issue
  <2>2. /\ record'.queries = [record.queries EXCEPT ![s] = @ + 1]
        /\ specialist[r][s].step = "issue" /\ UNCHANGED query
    BY <1>1, <1>5 DEF Issue, AppendQuery, Investigated
  <2>3. CASE s = z
    <3>1. r \in Admitted(z)
      BY <2>2, <2>3 DEF Admitted
    <3>2. Admitted(z)' \subseteq Admitted(z) \ {r}
      BY <2>1, <2>2, <2>3, InvestigationAssumption DEF Admitted
    <3> QED BY <1>1, <2>2, <2>3, <3>1, <3>2
  <2>4. CASE s # z
    BY <1>1, <1>2, <2>1, <2>2, <2>4
  <2> QED BY <2>3, <2>4
<1>6. ASSUME NEW p \in Responders, RequestIssue(p)
      PROVE  None \/ Used
  <2>1. /\ query[p].step = "issue" /\ query'[p].step = "observe"
        /\ \A q \in Responders \ {p} : query'[q] = query[q]
        /\ UNCHANGED specialist
    BY <1>1, <1>6 DEF RequestIssue, QueryLocals
  <2>2. record'.queries = [record.queries EXCEPT ![query[p].role] = @ + 1]
    BY <1>1, <1>6 DEF RequestIssue, AppendQuery, Investigated
  <2>3. Admitted(z)' \subseteq Admitted(z) \ {p}
    BY <2>1, InvestigationAssumption DEF Admitted
  <2>4. CASE query[p].role = z
    <3>1. p \in Admitted(z)
      BY <2>1, <2>4 DEF Admitted
    <3> QED BY <1>1, <2>2, <2>3, <2>4, <3>1
  <2>5. CASE query[p].role # z
    BY <1>1, <2>2, <2>3, <2>5
  <2> QED BY <2>4, <2>5
<1>7. ASSUME NEW r \in Runs, NEW s \in Specialists, Answer(r, s)
      PROVE  None \/ Left
  <2>1. Same /\ UNCHANGED query
    BY <1>7 DEF Answer
  <2>2. CASE AnswerQuery(r, s) /\ s = z
    BY <2>1, <2>2 DEF AnswerQuery, WithinBudget
  <2>3. CASE AnswerQuery(r, s) /\ s # z
    <3>1. \A q \in Runs : specialist'[q][z] = specialist[q][z]
      BY <1>3, <1>4, <2>3 DEF AnswerQuery
    <3> QED BY <1>2, <2>1, <3>1
  <2>4. CASE AnswerFinding(r, s) \/ NoAnswer(r, s)
    <3>1. TaskGoto(r, s, "record") \/ TaskEnd(r, s, "failed")
      BY <2>4 DEF AnswerFinding, NoAnswer
    <3>2. \A q \in Runs : specialist'[q][z].step = "issue" => specialist[q][z].step = "issue"
      BY <1>3, <1>4, <3>1
    <3> QED BY <1>2, <2>1, <3>2
  <2> QED BY <1>7, <2>2, <2>3, <2>4 DEF Answer
<1>8. ASSUME NEW p \in Responders, NEW s \in Specialists, NEW n \in 1..MaxQueries,
             Request(p, s, n)
      PROVE  None \/ Left
  <2>1. Same /\ UNCHANGED specialist
    BY <1>8 DEF Request
  <2>2. CASE s = z
    BY <1>8, <2>1, <2>2 DEF Request, WithinBudget
  <2>3. CASE s # z
    <3>1. /\ query'[p].role # z
          /\ \A q \in Responders \ {p} : query'[q] = query[q]
      BY <1>1, <1>8, <2>3 DEF Request
    <3> QED BY <2>1, <3>1 DEF Admitted
  <2> QED BY <2>2, <2>3
<1>9. ASSUME NEW r \in Runs, NEW s \in Specialists,
             \/ SpecialistTimeout(r, s) \/ ObservationFails(r, s) \/ TaskFails(r, s)
             \/ RecordFinding(r, s)
      PROVE  None
  <2>1. Same /\ UNCHANGED query
    BY <1>1, <1>9 DEF SpecialistTimeout, ObservationFails, TaskFails, RecordFinding,
                      Investigated
  <2>2. \E p \in {"succeeded", "failed", "raised"} : TaskEnd(r, s, p)
    BY <1>9 DEF SpecialistTimeout, ObservationFails, TaskFails, RecordFinding
  <2>3. \A q \in Runs : specialist'[q][z].step = "issue" => specialist[q][z].step = "issue"
    BY <1>3, <1>4, <2>2
  <2> QED BY <1>2, <2>1, <2>3
<1>10. ASSUME NEW r \in Runs, NEW s \in Specialists, Observe(r, s)
       PROVE  None
  <2>1. Same /\ UNCHANGED query
    BY <1>1, <1>10 DEF Observe, AppendObservation, Investigated
  <2>2. \A q \in Runs : specialist'[q][z].step = "issue" => specialist[q][z].step = "issue"
    BY <1>1, <1>10 DEF Observe
  <2> QED BY <1>2, <2>1, <2>2
<1>11. ASSUME NEW p \in Responders, RequestObserve(p)
       PROVE  None
  <2>1. Same /\ UNCHANGED specialist
    BY <1>1, <1>11 DEF RequestObserve, AppendObservation, Investigated
  <2>2. /\ query'[p].step = "idle"
        /\ \A q \in Responders \ {p} : query'[q] = query[q]
    BY <1>1, <1>11 DEF RequestObserve, QueryLocals
  <2> QED BY <2>1, <2>2 DEF Admitted
<1>12. ASSUME NEW r \in Runs, Claim(r)
       PROVE  None
  <2>1. Same /\ UNCHANGED query
    BY <1>1, <1>12 DEF Claim, Investigated
  <2>2. \A q \in Runs : specialist'[q][z].step = "issue" => specialist[q][z].step = "issue"
    BY <1>1, <1>12 DEF Claim
  <2> QED BY <1>2, <2>1, <2>2
<1>13. ASSUME NEW dead \in SUBSET Runs, Crash(dead)
       PROVE  None
  <2>1. \A q \in Runs : specialist'[q][z].step = "issue" => specialist[q][z].step = "issue"
    BY <1>1, <1>13 DEF Crash, NoTask
  <2> QED BY <1>2, <1>13, <2>1 DEF Crash
<1>14. ASSUME NEW r \in Runs,
              \/ Begin(r) \/ Collect(r) \/ Start(r) \/ Gather(r) \/ CoordinatorTimeout(r)
              \/ Complete(r) \/ Evaluate(r) \/ Decide(r) \/ Coordinate(r) \/ RunFails(r)
       PROVE  None
  <2>1. Same /\ UNCHANGED <<specialist, query>>
    BY <1>1, <1>14 DEF Begin, Collect, Start, Gather, CoordinatorTimeout, Complete,
                       CompletedBy, Evaluate, Decide, Coordinate, RunFails, Investigated
  <2> QED BY <1>2, <2>1
<1>15. CASE Close \/ UNCHANGED vars
  <2>1. Same /\ UNCHANGED <<specialist, query>>
    BY <1>1, <1>15 DEF Close, vars, Investigated
  <2> QED BY <1>2, <2>1
<1> QED
  BY <1>5, <1>6, <1>7, <1>8, <1>9, <1>10, <1>11, <1>12, <1>13, <1>14, <1>15
     DEF Next, RunStep, TaskStep, QueryStep

\* The budget is overrun by fewer queries than there are callers.
THEOREM BudgetOverrunBounded == Spec => []BudgetOverrun
<1> DEFINE N == Cardinality(Runs \cup Responders)
<1>1. IsFiniteSet(Runs \cup Responders) /\ N \in Nat
  BY InvestigationAssumption, FS_Union, FS_CardinalityType
<1>2. \A s \in Specialists :
        /\ Admitted(s) \subseteq Runs \cup Responders
        /\ IsFiniteSet(Admitted(s)) /\ Cardinality(Admitted(s)) \in Nat
        /\ Cardinality(Admitted(s)) <= N
  <2>1. \A s \in Specialists : Admitted(s) \subseteq Runs \cup Responders
    BY DEF Admitted
  <2> QED BY <1>1, <2>1, FS_Subset, FS_CardinalityType
<1>3. N > 0
  <2>1. Runs \cup Responders # {}
    BY InvestigationAssumption
  <2> QED BY <1>1, <2>1, FS_EmptySet
<1>4. Init => BudgetOverrun
  <2> SUFFICES ASSUME Init, NEW s \in Specialists
               PROVE  record.queries[s] + Cardinality(Admitted(s)) < MaxQueries + N
    BY DEF BudgetOverrun
  <2>1. record.queries[s] = 0
    BY DEF Init
  <2>2. Admitted(s) = {}
    BY DEF Init, Admitted, TaskAt, NoTask
  <2>3. Cardinality(Admitted(s)) = 0
    BY <2>2, FS_EmptySet
  <2> QED BY <1>1, <1>3, <2>1, <2>3, InvestigationAssumption
<1>5. ASSUME InvestigationTypeOK, BudgetOverrun, [Next]_vars
      PROVE  BudgetOverrun'
  <2> SUFFICES ASSUME NEW s \in Specialists
               PROVE  record'.queries[s] + Cardinality(Admitted(s)') < MaxQueries + N
    BY DEF BudgetOverrun
  <2>1. /\ record.queries[s] \in Nat
        /\ record.queries[s] + Cardinality(Admitted(s)) < MaxQueries + N
        /\ MaxQueries \in Nat
    BY <1>5, InvestigationAssumption DEF BudgetOverrun, InvestigationTypeOK, Investigated
  <2>2. /\ Admitted(s)' \subseteq Runs \cup Responders
        /\ IsFiniteSet(Admitted(s)') /\ Cardinality(Admitted(s)') \in Nat
        /\ Cardinality(Admitted(s)') <= N
    <3>1. Admitted(s)' \subseteq Runs \cup Responders
      BY DEF Admitted
    <3> QED BY <1>1, <3>1, FS_Subset, FS_CardinalityType
  <2>3. CASE record'.queries[s] = record.queries[s] /\ Admitted(s)' \subseteq Admitted(s)
    <3>1. Cardinality(Admitted(s)') <= Cardinality(Admitted(s))
      BY <1>2, <2>3, FS_Subset
    <3> QED BY <1>1, <1>2, <2>1, <2>2, <2>3, <3>1
  <2>4. CASE record'.queries[s] = record.queries[s] /\ record.queries[s] < MaxQueries
    BY <1>1, <2>1, <2>2, <2>4
  <2>5. CASE /\ record'.queries[s] = record.queries[s] + 1
             /\ \E x \in Admitted(s) : Admitted(s)' \subseteq Admitted(s) \ {x}
    <3>1. PICK x \in Admitted(s) : Admitted(s)' \subseteq Admitted(s) \ {x}
      BY <2>5
    <3>2. /\ IsFiniteSet(Admitted(s) \ {x})
          /\ Cardinality(Admitted(s) \ {x}) = Cardinality(Admitted(s)) - 1
      BY <1>2, FS_RemoveElement
    <3>3. Cardinality(Admitted(s)') <= Cardinality(Admitted(s)) - 1
      BY <3>1, <3>2, FS_Subset
    <3> QED BY <1>1, <1>2, <2>1, <2>2, <2>5, <3>3
  <2> QED BY <1>5, <2>3, <2>4, <2>5, BudgetEffect
<1> QED BY <1>4, <1>5, InvestigationTypeCorrect, PTL DEF Spec
=============================================================================
