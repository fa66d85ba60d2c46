--------------------------- MODULE Investigation ---------------------------
(***************************************************************************)
(* The Council on one Incident, from its first evidence to the policy      *)
(* decision: InitialEvidenceWindowCollector, BoundedIncidentCouncil,       *)
(* EvidenceQueryGateway and evaluate_and_record, started by the alert      *)
(* worker (runtime/workers.py) and by Responders (api/incidents.py).       *)
(*                                                                         *)
(* A run is one call of investigate with what its caller does around it.   *)
(* Each read or write of the Incident store is one step.  A model answers  *)
(* anything or nothing: its call, the only await inside the deadlines, is  *)
(* the step that chooses.  Audit events and the metadata of model calls,   *)
(* which no decision reads, are written with their neighbours.             *)
(***************************************************************************)
EXTENDS IncidentRecord, FiniteSets

CONSTANTS
  Runs,           \* calls of investigate, by whomever
  Specialists,    \* SpecialistRole
  Responders,     \* who run evidence queries by hand
  NoRun,
  MaxQueries,     \* maximum_queries_per_specialist of the evidence budget
  MaxRounds,      \* query rounds a Specialist may take in one run: 2
  \* Bound of the model.
  MaxFaults       \* crashes and failed calls

ASSUME InvestigationAssumption ==
  /\ IsFiniteSet(Runs) /\ IsFiniteSet(Responders) /\ Runs # {}
  /\ Runs \cap Responders = {}
  /\ NoRun \notin Runs
  /\ MaxQueries \in Nat
  /\ MaxRounds \in Nat
  /\ MaxFaults \in Nat

VARIABLES
  record,      \* the Investigation Record, as far as an investigation goes
  run,         \* run[r]: the call r makes next, and its locals
  specialist,  \* specialist[r][s]: the same of the task of s in run r
  query,       \* query[p]: a Responder's call of the gateway
  faults

vars == <<record, run, specialist, query, faults>>

InvestigationOutcomes == {"not_started", "proposal_ready", "needs_more_evidence",
                          "no_safe_action", "inconclusive"}

InvestigationOutcomeTransitions ==
  [not_started         |-> InvestigationOutcomes \ {"not_started"},
   needs_more_evidence |-> {"proposal_ready", "no_safe_action", "inconclusive"},
   proposal_ready      |-> {},
   no_safe_action      |-> {},
   inconclusive        |-> {}]

\* Hashes of evidence tell apart how much of it there is: none is ever taken
\* back.  Each observation belongs to the Specialist whose kinds it has.
Evidence == [Specialists -> Nat]

NoEvidence == [s \in Specialists |-> 0]

Investigated ==
  [lifecycle : Lifecycles,
   outcome   : InvestigationOutcomes,
   version   : Nat,
   evidence  : Evidence,
   queries   : [Specialists -> Nat],            \* how many each has used
   round     : [Specialists -> Nat],            \* the latest round of them
   findings  : [Specialists -> Runs \cup {NoRun}],
   completed : Runs \cup {NoRun},               \* whose outcome it is
   hash      : Evidence,                        \* the proposal's evidence hash
   policy    : {"none", "passed", "rejected"}]

RunSteps == {"idle", "collect", "start", "claim", "specialists", "coordinate",
             "complete", "evaluate", "decide",
             "done", "raised", "abandoned", "dead"}

Ended == {"done", "raised", "abandoned", "dead"}

RunLocals ==
  [step    : RunSteps,
   version : Nat,                       \* of the record read before the claim
   hash    : Evidence,                  \* of the record the Coordinator got
   outcome : InvestigationOutcomes,     \* the Coordinator's output
   verdict : {"none", "passed", "rejected"}]

SpecialistSteps == {"idle", "ask", "issue", "observe", "record",
                    "succeeded", "failed", "raised"}

Settled == {"succeeded", "failed", "raised"}

Task == [step : SpecialistSteps, rounds : Nat]

QueryLocals ==
  [step : {"idle", "issue", "observe"}, role : Specialists, round : Nat]

InvestigationTypeOK ==
  /\ record \in Investigated
  /\ run \in [Runs -> RunLocals]
  /\ specialist \in [Runs -> [Specialists -> Task]]
  /\ query \in [Responders -> QueryLocals]
  /\ faults \in Nat

NewRun == [step |-> "idle", version |-> 0, hash |-> NoEvidence,
           outcome |-> "not_started", verdict |-> "none"]

NoTask == [step |-> "idle", rounds |-> 0]

\* A new Incident, without evidence: create.
Init ==
  /\ record = [lifecycle |-> "open", outcome |-> "not_started", version |-> 0,
               evidence  |-> NoEvidence,
               queries   |-> [s \in Specialists |-> 0],
               round     |-> [s \in Specialists |-> 0],
               findings  |-> [s \in Specialists |-> NoRun],
               completed |-> NoRun, hash |-> NoEvidence, policy |-> "none"]
  /\ run = [r \in Runs |-> NewRun]
  /\ specialist = [r \in Runs |-> [s \in Specialists |-> NoTask]]
  /\ query \in [Responders -> [step : {"idle"}, role : Specialists, round : {0}]]
  /\ faults = 0

-----------------------------------------------------------------------------
RunAt(r, p) == run[r].step = p

TaskAt(r, s, p) == specialist[r][s].step = p

Goto(r, p) == run' = [run EXCEPT ![r].step = p]

TaskGoto(r, s, p) == specialist' = [specialist EXCEPT ![r][s].step = p]

\* The task of s returns its result, or raises.
TaskEnd(r, s, p) ==
  specialist' = [specialist EXCEPT ![r][s] = [step |-> p, rounds |-> 0]]

Fault == faults < MaxFaults /\ faults' = faults + 1

\* transition_incident with an investigation outcome.
CanMove(lifecycle, outcome) ==
  /\ lifecycle = record.lifecycle \/ lifecycle \in LifecycleTransitions[record.lifecycle]
  /\ outcome = record.outcome \/ outcome \in InvestigationOutcomeTransitions[record.outcome]

AppendObservation(s) == record' = [record EXCEPT !.evidence[s] = @ + 1]

\* Mutant: the budget counts rounds, not queries.
WithinRounds(s, n) == 1 <= n /\ n <= MaxQueries /\ record.round[s] <= n

\* _validate_budget, on the record execute read.
WithinBudget(s, n) ==
  /\ 1 <= n /\ n <= MaxQueries
  /\ record.queries[s] < MaxQueries
  /\ record.round[s] <= n

\* append_evidence_query: nothing about the budget is looked at again.
AppendQuery(s, n) ==
  record' = [record EXCEPT !.queries[s] = @ + 1,
                           !.round[s]   = IF n > @ THEN n ELSE @]

-----------------------------------------------------------------------------
\* The alert worker collects evidence for a record it found without; it goes
\* on to the Council either way, and a Responder comes there directly.
Begin(r) ==
  /\ RunAt(r, "idle")
  /\ \/ record.evidence = NoEvidence /\ Goto(r, "collect")
     \/ Goto(r, "start")
  /\ UNCHANGED <<record, specialist, query, faults>>

\* collect: what the provider returns is appended, for each Specialist at most
\* one observation; a failing provider leaves none.  One step: appending is not
\* guarded by anything.
Collect(r) ==
  /\ RunAt(r, "collect")
  /\ \E got \in SUBSET Specialists :
       record' = [record EXCEPT !.evidence =
                    [s \in Specialists |-> IF s \in got THEN @[s] + 1 ELSE @[s]]]
  /\ Goto(r, "start")
  /\ UNCHANGED <<specialist, query, faults>>

\* investigate reads the record; without the conditions it raises CouncilError.
Start(r) ==
  /\ RunAt(r, "start")
  /\ IF /\ record.outcome = "not_started"
        /\ record.evidence # NoEvidence
        /\ CanMove("investigating", record.outcome)
     THEN run' = [run EXCEPT ![r].step = "claim", ![r].version = record.version]
     ELSE Goto(r, "raised")
  /\ UNCHANGED <<record, specialist, query, faults>>

\* Mutant: the version is not compared, and the Incident that was read is put
\* back.
ClaimUnversioned(r) ==
  /\ RunAt(r, "claim")
  /\ record' = [record EXCEPT !.lifecycle = "investigating",
                              !.version = run[r].version + 1]
  /\ Goto(r, "specialists")
  /\ specialist' = [specialist EXCEPT ![r] = [s \in Specialists |->
                      [step |-> "ask", rounds |-> 0]]]
  /\ UNCHANGED <<query, faults>>

\* compare_and_set; then one task for each Specialist.
Claim(r) ==
  /\ RunAt(r, "claim")
  /\ IF record.version = run[r].version
     THEN /\ record' = [record EXCEPT !.lifecycle = "investigating",
                                      !.version = @ + 1]
          /\ run' = [run EXCEPT ![r].step = "specialists", ![r].version = 0]
          /\ specialist' = [specialist EXCEPT ![r] = [s \in Specialists |->
                              [step |-> "ask", rounds |-> 0]]]
     ELSE /\ run' = [run EXCEPT ![r].step = "raised", ![r].version = 0]
          /\ UNCHANGED <<record, specialist>>
  /\ UNCHANGED <<query, faults>>

-----------------------------------------------------------------------------
\* The model answers with a finding for its own Incident and role.
AnswerFinding(r, s) ==
  /\ record.evidence[s] > 0
  /\ TaskGoto(r, s, "record")

\* It asks for a query that is admitted.
AnswerQuery(r, s) ==
  /\ record.evidence[s] > 0
  /\ specialist[r][s].rounds < MaxRounds
  /\ WithinBudget(s, specialist[r][s].rounds + 1)
  /\ TaskGoto(r, s, "issue")

\* There is no evidence for its role, so that it is not asked; or it asks for a
\* query that is refused, raises, or answers nothing usable.
NoAnswer(r, s) == TaskEnd(r, s, "failed")

Answer(r, s) ==
  /\ TaskAt(r, s, "ask")
  /\ AnswerFinding(r, s) \/ AnswerQuery(r, s) \/ NoAnswer(r, s)
  /\ UNCHANGED <<record, run, query, faults>>

\* asyncio.timeout around the model.
SpecialistTimeout(r, s) ==
  /\ TaskAt(r, s, "ask")
  /\ TaskEnd(r, s, "failed")
  /\ UNCHANGED <<record, run, query, faults>>

\* execute appends the query; then the adapter is called, once or twice.
Issue(r, s) ==
  /\ TaskAt(r, s, "issue")
  /\ AppendQuery(s, specialist[r][s].rounds + 1)
  /\ TaskGoto(r, s, "observe")
  /\ UNCHANGED <<run, query, faults>>

\* Its observation is appended and the model asked again.
Observe(r, s) ==
  /\ TaskAt(r, s, "observe")
  /\ AppendObservation(s)
  /\ specialist' = [specialist EXCEPT ![r][s] =
                      [step |-> "ask", rounds |-> @.rounds + 1]]
  /\ UNCHANGED <<run, query, faults>>

\* The provider fails (late, out of scope or window, too much), and the
\* Specialist with it; the query stays spent.
ObservationFails(r, s) ==
  /\ TaskAt(r, s, "observe")
  /\ TaskEnd(r, s, "failed")
  /\ UNCHANGED <<record, run, query, faults>>

\* Mutant: a later finding replaces an earlier one.
RecordFindingAgain(r, s) ==
  /\ TaskAt(r, s, "record")
  /\ record' = [record EXCEPT !.findings[s] = r]
  /\ TaskEnd(r, s, "succeeded")
  /\ UNCHANGED <<run, query, faults>>

\* append_finding takes one finding of a Specialist, citing recorded evidence;
\* otherwise it raises, outside the try that turns errors into results.
RecordFinding(r, s) ==
  /\ TaskAt(r, s, "record")
  /\ \/ /\ record.findings[s] = NoRun
        /\ record' = [record EXCEPT !.findings[s] = r]
        /\ TaskEnd(r, s, "succeeded")
     \/ TaskEnd(r, s, "raised") /\ UNCHANGED record
  /\ UNCHANGED <<run, query, faults>>

-----------------------------------------------------------------------------
\* gather returns when all have, and raises as soon as one does; the others go
\* on.  The Coordinator's request carries the evidence hash of that moment.
Gather(r) ==
  /\ RunAt(r, "specialists")
  /\ \/ /\ \A s \in Specialists : specialist[r][s].step \in {"succeeded", "failed"}
        /\ run' = [run EXCEPT ![r].step = "coordinate", ![r].hash = record.evidence]
     \/ /\ \E s \in Specialists : TaskAt(r, s, "raised")
        /\ Goto(r, "abandoned")
  /\ UNCHANGED <<record, specialist, query, faults>>

\* The Coordinator's model answers; malformed output counts as inconclusive.
Coordinate(r) ==
  /\ RunAt(r, "coordinate")
  /\ \E o \in InvestigationOutcomes \ {"not_started"} :
       run' = [run EXCEPT ![r].step = "complete", ![r].outcome = o]
  /\ UNCHANGED <<record, specialist, query, faults>>

\* Mutant: the Coordinator has no deadline.
CoordinatorNeverTimesOut(r) == FALSE /\ UNCHANGED vars

CoordinatorTimeout(r) ==
  /\ RunAt(r, "coordinate")
  /\ run' = [run EXCEPT ![r].step = "complete", ![r].outcome = "inconclusive"]
  /\ UNCHANGED <<record, specialist, query, faults>>

\* Mutant: lifecycle and outcome are swapped.
CompletedSwapped(r) ==
  [record EXCEPT !.lifecycle = run[r].outcome,
                 !.outcome   = "investigating",
                 !.completed = r]

\* Mutant: completing does not count the version up.
CompletedUnversioned(r) ==
  [record EXCEPT !.lifecycle = "investigating",
                 !.outcome   = run[r].outcome,
                 !.completed = r,
                 !.hash      = IF run[r].outcome = "proposal_ready"
                               THEN run[r].hash ELSE NoEvidence]

\* The record complete_investigation writes for run r.
CompletedBy(r) ==
  [record EXCEPT !.lifecycle = "investigating",
                 !.outcome   = run[r].outcome,
                 !.version   = @ + 1,
                 !.completed = r,
                 !.hash      = IF run[r].outcome = "proposal_ready"
                               THEN run[r].hash ELSE NoEvidence]

\* Mutant: investigate returns and nobody evaluates the proposal.
AfterAnyCompletion(r) ==
  [run[r] EXCEPT !.step = "done", !.hash = NoEvidence, !.outcome = "not_started"]

\* What becomes of the run then.
AfterCompletion(r) ==
  [run[r] EXCEPT !.step = IF run[r].outcome = "proposal_ready" THEN "evaluate" ELSE "done",
                 !.hash = NoEvidence, !.outcome = "not_started"]

\* Mutant: whether the investigation is completed already is left to the
\* transition table.
CompleteByTable(r) ==
  /\ RunAt(r, "complete")
  /\ IF CanMove("investigating", run[r].outcome)
     THEN record' = CompletedBy(r) /\ run' = [run EXCEPT ![r] = AfterCompletion(r)]
     ELSE Goto(r, "raised") /\ UNCHANGED record
  /\ UNCHANGED <<specialist, query, faults>>

\* complete_investigation; it raises if the outcome is set, the Incident closed
\* or a hypothesis cites evidence that is not recorded.
Complete(r) ==
  /\ RunAt(r, "complete")
  /\ \/ /\ record.outcome = "not_started"
        /\ CanMove("investigating", run[r].outcome)
        /\ record' = CompletedBy(r)
        /\ run' = [run EXCEPT ![r] = AfterCompletion(r)]
     \/ Goto(r, "raised") /\ UNCHANGED record
  /\ UNCHANGED <<specialist, query, faults>>

\* evaluate, on the record read: EVIDENCE_CURRENT and all the other checks.
Evaluate(r) ==
  /\ RunAt(r, "evaluate")
  /\ \E v \in {"passed", "rejected"} :
       /\ v = "passed" => record.hash = record.evidence
       /\ run' = [run EXCEPT ![r].step = "decide", ![r].verdict = v]
  /\ UNCHANGED <<record, specialist, query, faults>>

\* record_policy_decision: once, and a passed one needs the transition.
Decide(r) ==
  /\ RunAt(r, "decide")
  /\ IF /\ record.policy = "none"
        /\ run[r].verdict = "passed" => CanMove("awaiting_approval", record.outcome)
     THEN /\ record' = IF run[r].verdict = "passed"
                       THEN [record EXCEPT !.policy    = "passed",
                                           !.lifecycle = "awaiting_approval",
                                           !.version   = @ + 1]
                       ELSE [record EXCEPT !.policy = "rejected"]
          /\ run' = [run EXCEPT ![r].step = "done", ![r].verdict = "none"]
     ELSE /\ run' = [run EXCEPT ![r].step = "raised", ![r].verdict = "none"]
          /\ UNCHANGED record
  /\ UNCHANGED <<specialist, query, faults>>

-----------------------------------------------------------------------------
\* A Responder's evidence query: run_evidence_query calls the same execute.
Request(p, s, n) ==
  /\ query[p].step = "idle"
  /\ WithinBudget(s, n)
  /\ query' = [query EXCEPT ![p] = [step |-> "issue", role |-> s, round |-> n]]
  /\ UNCHANGED <<record, run, specialist, faults>>

RequestIssue(p) ==
  /\ query[p].step = "issue"
  /\ AppendQuery(query[p].role, query[p].round)
  /\ query' = [query EXCEPT ![p].step = "observe", ![p].round = 0]
  /\ UNCHANGED <<run, specialist, faults>>

RequestObserve(p) ==
  /\ query[p].step = "observe"
  /\ AppendObservation(query[p].role) \/ UNCHANGED record
  /\ query' = [query EXCEPT ![p].step = "idle"]
  /\ UNCHANGED <<run, specialist, faults>>

\* close_incident.
Close ==
  /\ CanMove("closed", record.outcome)
  /\ record.lifecycle # "closed"
  /\ record' = [record EXCEPT !.lifecycle = "closed", !.version = @ + 1]
  /\ UNCHANGED <<run, specialist, query, faults>>

\* A store call of investigate or its caller raises, before it took effect.
RunFails(r) ==
  /\ run[r].step \in {"start", "claim", "complete", "evaluate", "decide"}
  /\ Fault
  /\ run' = [run EXCEPT ![r] = [NewRun EXCEPT !.step = "raised"]]
  /\ UNCHANGED <<record, specialist, query>>

\* Likewise in a Specialist: inside its try this is one more failed result.
TaskFails(r, s) ==
  /\ specialist[r][s].step \in {"issue", "observe", "record"}
  /\ Fault
  /\ TaskEnd(r, s, IF TaskAt(r, s, "record") THEN "raised" ELSE "failed")
  /\ UNCHANGED <<record, run, query>>

\* A process dies, with the runs it is in the middle of and their tasks.
Crash(dead) ==
  /\ \E r \in dead : run[r].step \notin Ended \cup {"idle"}
  /\ Fault
  /\ run' = [r \in Runs |->
       IF r \in dead /\ run[r].step \notin Ended \cup {"idle"}
       THEN [NewRun EXCEPT !.step = "dead"] ELSE run[r]]
  /\ specialist' = [r \in Runs |->
       IF r \in dead THEN [s \in Specialists |-> NoTask] ELSE specialist[r]]
  /\ UNCHANGED <<record, query>>

-----------------------------------------------------------------------------
\* What goes on by itself: everything but what a model decides to answer.
RunStep(r) ==
  \/ Collect(r) \/ Start(r) \/ Claim(r) \/ Gather(r)
  \/ CoordinatorTimeout(r) \/ Complete(r) \/ Evaluate(r) \/ Decide(r)

TaskStep(r, s) ==
  \/ SpecialistTimeout(r, s)
  \/ Issue(r, s) \/ Observe(r, s) \/ ObservationFails(r, s)
  \/ RecordFinding(r, s)

QueryStep(p) ==
  \/ \E s \in Specialists, n \in 1..MaxQueries : Request(p, s, n)
  \/ RequestIssue(p)
  \/ RequestObserve(p)

Next ==
  \/ \E r \in Runs : Begin(r) \/ RunStep(r) \/ Coordinate(r) \/ RunFails(r)
  \/ \E r \in Runs, s \in Specialists : TaskStep(r, s) \/ Answer(r, s) \/ TaskFails(r, s)
  \/ \E p \in Responders : QueryStep(p)
  \/ Close
  \/ \E dead \in SUBSET Runs : Crash(dead)

Spec == Init /\ [][Next]_vars

\* The event loop runs every task that is not waiting for a model, and the
\* deadlines end the waiting.
Fairness ==
  /\ \A r \in Runs : WF_vars(RunStep(r))
  /\ \A r \in Runs, s \in Specialists : WF_vars(TaskStep(r, s))

FairSpec == Spec /\ Fairness
-----------------------------------------------------------------------------
\* A result a run goes on with is in the record: the finding of a Specialist
\* that succeeded is the one that run recorded, whatever other runs of the same
\* Incident found meanwhile (council.py, append_finding of the store).
OwnFindings ==
  \A r \in Runs, s \in Specialists :
    TaskAt(r, s, "succeeded") => record.findings[s] = r

\* The callers of execute that have been admitted for s and not yet issued.
Admitted(s) ==
  {r \in Runs : TaskAt(r, s, "issue")}
  \cup {p \in Responders : query[p].step = "issue" /\ query[p].role = s}

\* The budget is checked on a record read earlier, so it may be exceeded, but
\* never by more than the callers that can be between check and append at once
\* (_validate_budget and append_evidence_query of evidence_gateway.py).
BudgetOverrun ==
  \A s \in Specialists :
    record.queries[s] + Cardinality(Admitted(s))
      < MaxQueries + Cardinality(Runs \cup Responders)

\* An investigation is completed once: no other run, and no lost race, ever
\* replaces its outcome or the evidence its proposal is bound to
\* (complete_investigation).
CompletedOnce ==
  [][record.outcome # "not_started" =>
       /\ record'.outcome = record.outcome
       /\ record'.completed = record.completed
       /\ record'.hash = record.hash]_vars

\* A run that read the Incident before another one completed it does not take
\* it back from the Responder's Approval (compare_and_set of investigate).
ApprovalNotWithdrawn ==
  [][record.lifecycle = "awaiting_approval" =>
       record'.lifecycle \in {"awaiting_approval", "closed"}]_vars

\* What a run relies on after it read the record: a claim that will be granted
\* is one of an Incident without an outcome, and whoever evaluates a proposal
\* or awaits its Approval has one.
ReadIsCurrent ==
  /\ \A r \in Runs : RunAt(r, "claim") =>
       /\ run[r].version <= record.version
       /\ run[r].version = record.version => record.outcome = "not_started"
  /\ \A r \in Runs : run[r].step \in {"evaluate", "decide"} =>
       record.outcome # "not_started"
  /\ record.lifecycle = "awaiting_approval" => record.outcome # "not_started"

\* The inductive invariant of the races between runs.
InvestigationInvariant ==
  /\ InvestigationTypeOK
  /\ OwnFindings
  /\ ReadIsCurrent

\* Every run ends, whatever the models do: the deadlines of the Specialists and
\* of the Coordinator see to it.
RunsEnd == \A r \in Runs : RunAt(r, "start") ~> run[r].step \in Ended

\* A proposal gets its policy decision, unless the Incident is closed first or
\* something fails: nobody would evaluate it later (proposal_policy.py:230).
ProposalIsDecided ==
  record.outcome = "proposal_ready" ~>
    record.policy # "none" \/ record.lifecycle = "closed" \/ faults > 0
=============================================================================
