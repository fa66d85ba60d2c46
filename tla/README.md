# KubeCouncil in TLA+

KubeCouncil investigates incidents of enrolled Kubernetes workloads with a
council of models, proposes one bounded remediation, and, after a Responder
approves it, applies it with a deterministic Executor. Nothing here models what
a model says; everything here is about the deterministic code around it: what
is stored, who may change it, in which order, and what is left when a process
dies in the middle.

Paths below are relative to `src/backend/app` unless they start with `src/`.

## 1. Inventory

| Component | State | Operations | Interacts with | Here |
|---|---|---|---|---|
| Alert ingestion (`services/alerts.py`, `runtime/workers.py`) | none | normalise, deduplicate, correlate, create or append, acknowledge | Pub/Sub, enrollment, store | modelled |
| Enrollment (`services/enrollment.py`) | none | checks over a snapshot of the cluster | cluster readers; ingestion | modelled |
| Council (`services/council.py`, `services/adk_council.py`) | the running tasks | four concurrent Specialists, Coordinator | models, gateway, store | modelled |
| Evidence window and gateway (`services/evidence.py`, `services/evidence_gateway.py`) | none | collect, query with budget and retry, redact | readers, store | partly |
| Proposal policy (`services/proposal_policy.py`) | none | evaluate, evaluate and record | live Deployment, enrollment, store | partly: not the shape of patches |
| Approval and queue (`services/approval.py`, `domain/approval.py`, `services/intervention_queue.py`) | none of its own | review, decide, publish | store, policy's provider, Pub/Sub | modelled |
| Intervention executor (`services/intervention_executor.py`, `runtime/workers.py`) | locals of `consume`; the remembered rollback revisions of its provider | receive, claim, revalidate, apply, verify, restore, settle, refuse, halt | Pub/Sub, leases, the store, Kubernetes | modelled |
| Workload leases (`services/workload_lease.py`) | one document per Managed Workload | acquire, renew, release | Firestore transactions; executors | modelled |
| Kubernetes provider of the runtime (`runtime/live_providers.py`) | the remembered rollback revisions | inspect, patch, await convergence | Kubernetes | partly |
| Recovery verification (`services/recovery_verifier.py`) | none | verify the next window | metrics, probes, store | modelled |
| Incident store and lifecycle (`domain/incidents.py`, `domain/incident_fakes.py`, `services/incident_store.py`) | one Investigation Record per Incident: lifecycle, outcomes, version, evidence, findings, proposal, policy, Approvals, Interventions, assessments, audit timeline | create, fourteen appends and updates, compare-and-set, timeline | everything | partly |
| Incident API (`api/incidents.py`) and web console (`src/frontend/src/App.tsx`) | the open streams; what a page shows | open, investigate, query, decide, close, stream; load, listen, refresh | store, services | partly |
| GKE bootstrap (`bootstrap/`) | the environment itself | inspect, plan, apply, verify | `gcloud`, `kubectl` | partly |
| Scenario controller (`scenario_controller/`) | an audit list in memory | inject and reset two demo faults | two Deployments | no |
| Rehearsal and legacy run API (`rehearsal/`, `api/runs.py`, `agents/council.py`, `kubernetes/`) | an in-memory run store; rehearsal namespaces | analyse, rehearse, clean up | Kubernetes | no: `main.py` mounts the health, identity, applications and incidents routers only |
| Repositories, pull requests, load scenarios, identity, configuration | none that changes | calls and rendering | GitHub, a child process | no |

What is hard about it, and what makes each part correct:

* **Ingestion.** Several writes per notification; deduplication and correlation see
  only what is written; deliveries overlap and run out; Enrollment comes and goes.
  Correct: an acknowledged alert is recorded, an Incident is about one thing, every
  alert is ingested unless it was refused until its last attempt.
* **Council and gateway.** Two starters, concurrent Specialists, a budget checked on
  a record read earlier, models that never answer, processes that die. Correct: an
  investigation is completed once, on findings that are its own; no run takes back
  what another finished; the budget is overrun by a bounded number; runs end.
* **Approval and policy.** Several reads of live state that another writer can fall
  between, a review, a decision, then a publication and its announcement. Correct:
  what a Responder reviews is true, what is decided is what was reviewed, and what
  is approved, and nothing else, is published, once.
* **Executor.** Delivery is at least once, the process may die after any call,
  two Executors may hold the same message, the lease is shorter than the
  verification, and other writers change the Deployment all the time. Correct:
  an approved action is applied at most once and only to the state that was
  approved; an Intervention settles once; no claimed Intervention is forgotten.
* **Leases.** Optimistic transactions run their callback again; time passes
  between reading the clock and committing. Correct: an unexpired lease is
  changed by its holder only, and two holders never share one.
* **Recovery.** Consecutive windows over a record others change. Correct: resolved
  only after the required windows in a row, never by the provider's closure.
* **Store.** Many writers, some guarded by a version and some not, transactions that
  start over on their own writes. Correct: closed is final, terminal is final,
  lifecycle and outcome move along the tables, an append happens once.
* **Timeline.** A stream that breaks, a page that reloads, refreshes answered out of
  order. Correct: a page hears every event once and in order.
* **Bootstrap.** Actions of several commands, of which any may fail; a second call
  applies what a first one planned; others change the environment meanwhile.
  Correct: only reviewed actions run, in an order that works, repetition completes.

`PROJECT.json` lists the hazards at their lines with the properties that cover them.

## 2. Modules

| Module | Models |
|---|---|
| `IncidentRecord` | the record's lifecycles and outcomes, and the store operations Approval and Execution use, as a guard and a new record each |
| `WorkloadLease` | the lease documents, wall-clock time, and the effect of each lease operation |
| `InterventionPipeline` | the executor, composed with the two above, the queue, the live Deployment and its other writers |
| `InterventionContract` | the abstract specification: approve, claim, apply at most once, settle at most once |
| `InterventionClaims` | properties the documents state and the code does not keep |
| `InterventionPipelineProofs` | the theorems about what is written to the Deployment and the record |
| `InterventionOutcomeProofs` | the theorems about leases, deliveries and outcomes, and the refinement |
| `Enrollment` | the checklist of a Managed Application over the facts of a cluster |
| `AlertIngestion` | alerts becoming Incidents: `consume` of `services/alerts.py`, its worker up to the acknowledgement, `open_incident`, closing; composed with `Enrollment` |
| `AlertIngestionProofs` | the theorems about it |
| `Investigation` | one Incident from its first evidence to the policy decision: collector, Council, gateway, and `evaluate_and_record`, by several runs and Responders |
| `InvestigationProofs` | the theorems about it |
| `Approval` | from the proposal to the published request: `evaluate_and_record` read by read, reviews, decisions and publication by several Responders |
| `ApprovalProofs` | the theorems about it |
| `Recovery` | `verify_next_window` and `record_recovery_assessment` against a history of what customers saw |
| `RecoveryProofs` | the theorems about it |
| `Timeline` | the append transaction, the event stream and a browser page |
| `TimelineContract` | the abstract specification: a log that grows and pages that hear it |
| `TimelineProofs` | the theorems about them |
| `Bootstrap` | preflight, plan, apply and verify of an environment by operators and other hands |
| `BootstrapProofs` | the theorems about it |
| `MC...` | instances for TLC |

The flow of an Incident is `AlertIngestion`, `Investigation`, `Approval`,
`InterventionPipeline`, `Recovery`; the record is the interface between them. Each
module starts from the states in which the one before it can leave the record:
a new Incident without evidence, one with a proposal, one with a passed policy
decision, one whose Intervention has succeeded. `Investigation` has the policy
engine as two steps with any result, `InterventionPipeline` has policy and Approval
as one step each, because what matters there comes after them; `Approval` has their
insides. `Timeline` lies under all of them: elsewhere a store
method is one step, and `Timeline` is where that step is an optimistic
transaction with retries and lost replies.

### How the state corresponds to the code

**`InterventionPipeline`**

* `record[i]` is Incident `i`'s Investigation Record in Firestore. A record has at
  most one Approval (`record_approval_decision` refuses a second) and at most one
  Intervention, so both are folded into fields. The number of evidence
  observations stands for the evidence hash and the Deployment state a decision
  saw for its policy and patch hashes: within one record these tell apart all the
  hashes do. `audit` keeps only the event types no other field implies.
* `deployment[w]` is `DeploymentPolicyState`: resourceVersion, generation, active
  revision, replicas. The API server and the Deployment controller are external:
  a changed spec gets a new resourceVersion and generation, a changed template a
  new revision, and an unchanged one nothing.
* `lease[w]` is the lease document. Tokens are fresh (`uuid4`), so `issued` counts
  them. The owner is not kept: every Executor is `gke-executor`, so `renew` and
  `release` are decided by the token.
* `queue[i]` is the Pub/Sub message of `i`'s request: pending and visible from
  some time on, or acknowledged. An acknowledgement after the deadline may be lost.
  `attempts` counts its deliveries: the deployed subscription is dead-lettered after
  `MaxAttempts`, which is five (`src/deploy/profiles/findydevops-dev.yaml`:49,
  `bootstrap/planner.py`:273), and nothing reads the dead letters. Such a message stays
  pending here, but is not delivered again. Pub/Sub counts as well as it can, and may
  deliver a time more. `unheard` is history: the deliveries that ended without an
  acknowledgement Pub/Sub heard although nothing failed, because it came too late or
  another Executor's Safe Halt was first.
* `pc[e]` and `job[e]` are Executor `e`'s position in `consume` and its locals;
  `override[e]` is `_rollback_revision_overrides`. Several Executors are real: the
  Deployment has one replica but a rolling update
  (`src/manifests/incident-response/platform/base/executor.yaml`) overlaps two
  processes, and Pub/Sub redelivers to whichever pulls.
* `writes` is a history variable: every change of a spec, with its author.

**`AlertIngestion`, `Enrollment`**

* `opener`, `lifecycle`, `signals` and `audited` are the parts of the record that
  ingestion reads or writes: whom Incident `k` was created for (hence `opened_at`),
  whether it takes alerts, its `alert_signals` in order, and the notifications its
  audit events name. Identifiers are random in the code and numbered in the order
  of creation here.
* `message` and `attempts` are the alert subscription: a message is delivered at most
  `MaxAttempts` times and then dead-lettered. A notification is a model value;
  workload, provider incident, state and time are functions of it. The alert worker
  runs in the API process, next to its requests, and a rolling update overlaps two of
  them: several `Consumers`. `working` are the consumers whose task still runs: it
  ends with the first pull that raises anything but `DeadlineExceeded`
  (`runtime/workers.py`:113, `services/alerts.py`:116).
* `cluster` is the set of prerequisites that are in place, each a pair like
  `<<"enrolled", namespace>>`; `Snapshot` is what the provider can read of it.
  `refused` counts the deliveries it turned away, for the liveness property.

**`Investigation`**

* `record` is the part of the record an investigation reads or writes. `version` is
  `incident_version`, which `compare_and_set` compares and only the operations that
  change the Incident raise. `evidence[s]` counts the observations of the kinds of
  Specialist `s`; the vector of counts stands for the evidence hash. `findings[s]` and
  `completed` say which run wrote them.
* `run[r]` is a call of `investigate` with its caller: the alert worker after its
  acknowledgement, or the API's route. `specialist[r][s]` is a task of its
  `gather`. `query[p]` is a Responder's call of the gateway.

**`Approval`**

* `states[rv]` is the Deployment at resourceVersion `rv`, so the log of all states is
  kept and the last one is live; `history[rev]` is the pod template of the ReplicaSet of
  revision `rev`. API server and Deployment controller are external: a template used
  again moves its ReplicaSet to the new revision, `Prune` is `revisionHistoryLimit`.
* `record` is the part of the record these calls read or write. A proposal and a
  policy decision are written once, so equal versions of the record, equal evidence
  and an equal state of the Deployment mean equal hashes, and a `Binding` has just
  those three and the expiry. Its `lifecycle` is history. A proposal carries what the
  Application Profile grants its target and action.
* `engine` is the call of `evaluate_and_record` with its locals, `responder[p]` the
  review `p` looks at and the call `p` has made; `requests` is what was published.

**`Recovery`**

* `weather` is history: what customers saw in each unit of time. No code has it;
  it is what the observations are about. An observation may be worse than the
  weather of its window, never better.
* `incident`, `assessments` and `verifier[v]` are the fields of the record and the
  locals of a call. A window's metrics are the judgements `good`, `bad` and
  `unknown` the thresholds make of them.

**`Timeline`**

* `events` are the `audit_events` of one document, `call[w]` a transaction with the
  document it has read, `told` the appends that have returned. An event's cursor is
  its position. `page[p]` is the state `App.tsx` keeps, `stream[p]` the generator that
  serves it, or `over` if the `EventSource` has given up, `wire[p]` what is under way,
  `fetched[p]` the refreshes under way.

**`Bootstrap`**

* `world[k]` is the resource of kind `k`: absent, as the profile asks, or differing.
  `facts` are the checks that are not about a resource. `job[o]` is a call of the
  command line tool; `approved[o]` is the plan its operator has reviewed, which the
  hash on the command line identifies. The commands that are left are the set
  `job[o].todo`, and `Rank` is the order in which `apply_bootstrap_plan` runs them.
  `calm[o]` is history: no fault and no other hand since the call began.

### How the actions correspond to the code

One action is one call that reads or writes Firestore, Kubernetes, Pub/Sub or the
cloud, with the local computation around it; everything between two actions
interleaves.

In the pipeline, `Pull` to `Acknowledge` follow `consume` and the worker's loop from
top to bottom; `Restore...` follow `_restore_failed_scale`; `Halt`, `SafeHalt`,
`Refuse` and `ReleaseLease` are the except and finally clauses. `CallFails` is a
call that raises before it takes effect and goes where the code's exception
handling sends it; `Reply` lets a call that took effect lose its reply; `Crash`
drops the process with its locals and its remembered revisions, at any time. A pull
or an acknowledgement that raises is a `Crash`, too: the worker calls both outside its
try, and the exception ends the process.

In `AlertIngestion` the actions are the calls of `consume` from `Pull` to
`Acknowledge`; `OpenIncident` is the API's route, whose second write is the same
`AppendSignal`; `Abort` is an exception, a failed readiness check or a dead
process; `PullFails` is a pull that raises, which ends the task but not the process;
`Restart` is a new process, for whatever reason; `Close` ends an Incident's part in
correlation; `Administer` changes a prerequisite. A `Pull` may happen at any time while the message is outstanding, so
every relation of call duration and acknowledgement deadline is covered without a
clock.

In `Investigation`, `Begin` and `Collect` are what a caller does first; `Start` and
`Claim` are the read and the `compare_and_set` of `investigate`; `Answer`,
`SpecialistTimeout`, `Issue`, `Observe`, `ObservationFails` and `RecordFinding` are a
Specialist's task; `Gather` is `asyncio.gather`, which raises with the first task
that does and leaves the others running; `Coordinate`, `CoordinatorTimeout` and
`Complete` are the second half; `Evaluate` and `Decide` are the caller's
`evaluate_and_record`. `RunFails` and `TaskFails` are store calls that raise, `Crash`
is a process that dies with any of the runs and all their tasks.

In `Approval`, `Evaluate`, `InspectRead`, `InspectList` and `InspectCurrent` are the
reads of `evaluate`, `Judge` its checks (`Failing` has one field per check code),
`DryRun`, `DiffRead` and `DiffList` the dry run and what its diff is made of,
`RecordDecision` the store's write. `Review` and `ReviewInspect` are `review`;
`Decide`, `DecideInspect`, `CheckDecision`, `RecordApprovalDecision`, `Publish` and
`Announce` are `decide`: `CheckDecision` is the callback of the store's transaction,
which looks at the expiry, and `RecordApprovalDecision` its commit, which may come after
it. `CallFails` and `EngineFails` are calls that raise and processes that die;
the two writes can also take effect and lose their reply. Of the checks,
`PROPOSAL_SCOPED` and `PATCH_SHAPE` cannot fail for a proposal the Council recorded
and a patch `_build_patch` made, and are not there.

In `Recovery`, `Read`, `Observe` and `Record` are the three parts of
`verify_next_window`, `Tick` is time, `Close` a Responder. In `Timeline`, `Begin`,
`Commit`, `CommitUnanswered`, `Conflict` and `Raise` are a transaction; `Connect`, `Poll`,
`Send` and `Disconnect` are `stream_timeline`, `Refuse` is an answer of it, or of what
stands before it, that is not 200; `Load`, `Receive`, `ServeRefresh` and
`Refresh` are the page. In `Bootstrap` there is one action per method of the
inspector, one for the end of each kind of call, `Run` for a command, `Fails`, and
`Drift` and `Reconfigure` for other hands.

Calls that are merged, and why nothing is lost:

* `renew` with the clock read just before it: an older clock would only extend the
  lease less.
* the two inspections of revalidation: the patch built on the second must equal the
  request's, which holds exactly when the second sees the approved
  resourceVersion, so the second decides.
* the evaluation and the recording of a passed policy decision, and the live check
  and the recording of an Approval, in the pipeline: neither holds anything another
  process writes in between, except the Deployment, which the Executor compares
  again. (`Investigation` keeps evaluation and recording apart.)
* audit appends that no property reads: they change the timeline only, which has its
  own module.
* the observations of one `collect`: appending them is not guarded by anything.
* the resources of one kind in `Bootstrap`: their commands do not depend on each other.

## 3. Runs

| Run | Bounds | Shows |
|---|---|---|
| `PipelineScale` | 2 Executors, 1 Incident scaling 2 to 1, 2 deliveries, 2 faults, 1 foreign write, 1 new observation, clock to 2 | all safety invariants and action properties of the pipeline |
| `PipelineContract` | 2 Executors, a rollback and a restart of one workload, 2 deliveries of each | `KeepsContract`: the pipeline refines `InterventionContract` |
| `PipelineLiveness` | 1 Executor, 2 deliveries, 1 fault, 3 foreign writes, clock to 4, faults end at 3 | `RequestsSettle` under fairness; a scale is undone at most once |
| `AlertsIngested` | 2 consumers, 2 alerts and a manual one, 4 Incidents, 2 attempts, 1 fault, a namespace label that comes and goes, tasks that end and are started again | ingestion's invariants, and `AlertsAreIngested` under fairness |
| `InvestigationRace` | 2 runs of 2 Specialists each, 1 query per Specialist, 1 fault, a closing Responder | the invariants of the races between runs |
| `InvestigationEnds` | 1 run of 2 Specialists, a Responder who queries, 2 queries per Specialist, 1 fault | the budget's overrun; `RunsEnd`, `ProposalIsDecided` under fairness |
| `RecoveryWindows` | 2 verifiers, 2 windows of 2 units, 6 units of every weather, a closing Responder | resolution and its history |
| `ApprovalDecided` | 2 Responders, 3 proposals (a rollback, a scale-down, a restart of a target that may not be executed), a resourceVersion that moves once and a deletion followed by a recreation, a pruned history, 1 observation, 1 closure, 1 fault, reviews that live one unit | review, decision and publication; `DecisionIsPublished` under fairness |
| `TimelineReplayed` | 2 callers of 2 attempts, 3 events, a page, 2 faults: lost replies, cut and refused streams | the store's and the page's invariants; `Replays`: `Timeline` refines `TimelineContract`; `EventsArrive` under fairness |
| `BootstrapApplied` | 1 operator, 11 kinds of resources, 1 fault, 1 change by others | the order of actions, verification, review, and `Converges` under fairness |
| `ClaimSettled`, `ClaimBootstrap` | the smallest instance that shows it | a documented promise the code does not keep |

**Why the bounds are enough.** The `.cfg` files of the pipeline name their bounds:
`MaxTime` (clock), `MaxRv` (writes of others), `MaxEvidence`, `MaxFaults` and
`LastFault`. The clock's unit is 10 s only in `ClaimSettled`; elsewhere the order of
lease expiry, acknowledgement deadline and verification limit is what matters, and
the small values reach every order. Two Executors are enough: each property relates
the steps of at most two deliveries, and a third could only repeat what one of
them does after a crash, which the single Executor's redelivery also does. One
foreign write is enough to invalidate any compared state; three let the
restoration race writes on both sides of its two inspections. With two deliveries
the limit is reached in every run: by two faults, by a fault and a late
acknowledgement, and by two Executors that hold one delivery each. The claims have the
deployed five.

In `AlertsIngested` the alert comes at the very end of the manual Incident's window,
for a workload that depends on its; the closure names the alert's provider incident,
at the very end of that one's window and too late for the manual one. So every way
to correlate and not to correlate occurs, next to two consumers with one alert. Four
Incidents are all that can be created: one by hand, one per consumer, and one
after a fault. The deployed limit is five deliveries
(`src/deploy/profiles/findydevops-dev.yaml`); with two, exhausting them by refusals,
by faults and by a mixture all happens. A closure may never be ingested (`consume`
raises when nothing is open), so `AlertsAreIngested` speaks of alerts that open.

Two runs with two Specialists are all the overlap there is in `InvestigationRace`: each
shared field is guarded by a version, by a first-write rule or not at all, and two
writers show each. The code allows a profile at most two queries per Specialist and
takes two rounds of them: that is `InvestigationEnds`, where a Responder's queries
may exhaust the budget before the rounds are up. One query is enough for the runs of `InvestigationRace` to meet at the limit. The proofs cover any
number of both.

In `ApprovalDecided` the Deployment moves once, and a deleted one comes back with its
numbers started again: one change between any two reads is what tells a torn
state from a true one, and a recreation is the only way generation and revision
repeat. Each Responder reviews and decides as often as they like. Two are enough
for every race, since each guard compares with the one record; the second fault
would only repeat the first one for another call. The three proposals meet every
check that depends on more than the proposal, pass and fail it. The proofs have no
bound.

`RecoveryWindows` needs windows of two units so that they can overlap, touch or leave a
gap, and six units so that a count can be broken and begun again. The two required
windows are the code's minimum.

In `TimelineReplayed` three events let a refresh be older and newer than the stream,
two attempts let a transaction win on its last one and lose on it, and two faults
let a reply be lost and a connection break, a connection break twice, or the stream
be refused after that. A second
page would share nothing with the first but the events.

`BootstrapApplied` leaves out four of the fifteen kinds (`subscription`, `role`,
`github-provider`, `github-binding`), each of which is inspected and created as one that
is kept is. Seven kinds are there from the start and may come to differ, the other
four are there or not; a second operator is among the other hands. One change
between review and apply, or between two methods of one inspection, invalidates
whatever was seen.

Executors, runs, Specialists and verifiers are symmetric; symmetry is used only in
runs whose properties do not name one and that check no liveness. Deadlock is not
checked: when all messages are acknowledged, or all calls have ended, or the bounds
are reached, the bounded systems rightly stop.

### What the violated runs show

`PROJECT.json` has the details under `findings`.

* `ClaimSettled`: an Executor dies after its mutation; the one redelivery meets the
  dead delivery's unexpired lease, is refused and acknowledged, and the
  Intervention stays running.
* `ClaimBootstrap`: a Kubernetes service account was created and not annotated. From
  then on it is incompatible, and no plan proposes the annotation that is missing.

Ten more configurations are kept beside these. They are run on demand, each as
`tlc -config <name>.cfg <module>`, and TLC reports a violation of the property
named, which quotes the document it is from:

| Configuration | Module | Property | What the counterexample is |
|---|---|---|---|
| `ClaimLease` | `MCInterventionPipeline` | `LeasesAreExclusive` | `acquire`'s callback runs again and keeps its flag: two deliveries with one lease |
| `ClaimSerial` | `MCInterventionPipeline` | `InterventionsAreSerial` | the lease expires during verification, and another Incident's Executor acts |
| `ClaimSafeHalt` | `MCInterventionPipeline` | `SafeHaltStopsWrites` | one Executor halts, the other, past its last read, still writes |
| `ClaimRestoration` | `MCInterventionPipeline` | `RestorationKeepsOthersChanges` | a restoration built on a second inspection undoes another writer's scale |
| `ClaimMutations` | `MCInterventionPipeline` | `MutationsAreRecorded` | the patch succeeds, the audit append that says so does not |
| `ClaimTimeline` | `MCTimeline` | `ShownIsComplete` | a refresh answered before an event and applied after it takes the event off the page |
| `ClaimRestorationSafe` | `MCApproval` | `RestorationIsSafe` | a swallowed read makes revision 1 the current one, and a rollback to the running, implicated revision passes the policy |
| `ClaimReconnect` | `MCTimeline` | `UIReconnects` | a reopened stream is answered with an error, and the page hears nothing more |
| `ClaimIngested` | `MCAlertIngestion` | `AlertsAreDurable` | a pull raises, the task ends, and the alert stays where it is |
| `ClaimAlerts` | `MCAlertIngestion` | `OneIncidentPerAlert` | a crash between create and append: the redelivery opens a second Incident |

### Fairness

The pipeline's `Fairness` is weak fairness of time and of each Executor's own `Step`:
the worker is a `while True` loop, its calls have deadlines and return or raise, and
the Kubernetes Deployment restarts a dead process. The API, other writers, faults
and `Publish` are not fair. `RequestsSettle` needs faults to end
(`LastFault < MaxTime`): with failures for ever nothing is ever acknowledged. The
pipeline's subscription is dead-lettered, and then nothing acknowledges: `RequestsSettle`
excepts a request whose deliveries faults and unheard acknowledgements have used up.

`AlertIngestion` assumes weak fairness of what a consumer does with a delivery, for
the same reason, and strong fairness of delivery: Pub/Sub keeps handing out a
message that is not acknowledged, up to its last attempt, as long as a task pulls. That
a task pulls is not assumed. One pull that raises ends it; `/health` and `/ready` do not
look at it, so nothing restarts the process for it, and `Restart` is not fair. Hence
`AlertsAreIngested` excepts the state in which no task is left; `ClaimIngested` shows that
it takes no more than that to lose alerts. Administrators are not fair: a missing
prerequisite may stay missing.

`Investigation` assumes weak fairness of everything the event loop and the deadlines
do, and of nothing a model does: `Answer` and `Coordinate` are not fair, the timeouts
of `asyncio.timeout` are. A process that dies is not restarted into the run, which
is why `ProposalIsDecided` excepts faults.

`Approval`: a call that has begun goes on until it ends, of the policy engine and of
each Responder (weak fairness): its steps wait for nothing but replies, and those
come or raise. Nobody has to review or decide. `DecisionIsPublished` excepts
faults, because nothing resumes a `decide` that died after its decision.

`Timeline`: a transaction that has begun goes on, `encode` polls once a second while
the browser is connected, an `EventSource` reconnects by itself after a lost connection,
requests are answered. It does not reconnect after an answer that is not 200: then it is
closed for good, `App.tsx` has no handler that opens another, and only a page that is
loaded anew has a new one. So `EventsArrive` excepts a stream that is `over`, and
`ClaimReconnect` shows why. New appends, reloads, disconnections and refusals are not
fair.

`Bootstrap`: a call that runs goes on, and the operator follows the runbook: plans
again and again, applies again and again, at times with every label (strong fairness
of these three, because other calls come in between). Nobody is assumed to repair what differs.

## 4. Proofs

Each theorem holds for every choice of the constants that satisfies the assumptions
named in its component's module, for bounded and unbounded numbers of processes, faults and
time alike. None assumes fairness.

**`InterventionPipelineProofs`** proves `TypeCorrect`, `Closure` and `Settlement`
(closed lifecycles and terminal Interventions are final), `Inductive`,
`AtMostOnce` and `Approved` (the action is applied at most once, and only to the
state that was approved), from `TTLAssumption` and `PipelineAssumption`.

`AppliedAtMostOnce` is not inductive by itself: nothing in it says why a second
Executor's patch must fail. `ApplyInvariant` adds what does. An Approval freezes
the policy decision and the evidence it is bound to (`ApprovalFreezes`,
`ApprovalsStay`), because the store refuses a second of either. From revalidation
on, the Executor's patch carries the approved resourceVersion (`TowardsApply`). A
patch is accepted only if that is the live one, and every accepted change raises
it (`WritesOrdered`). So a second application would start from a resourceVersion
that the first one left behind (`ApplyIsFirst`). Leases do not appear in the
argument, and rightly so: the claims about leases are the ones the code does not
keep. `Closure` and `Settlement` rest on `FinalRecord`, a fact about the store's
operations alone, lifted by `RecordsChange`: every step of the system changes a
record only by one of those operations.

**`InterventionOutcomeProofs`** extends it, and proves the rest of what the runs check
of the pipeline's safety.

* `LeaseKept` (`UnexpiredLeaseIsKept`), although `acquire` decides on a lease it read
  and commits later. `LeaseInvariant` is what it takes: an Executor about to commit
  read either no lease or one that had expired on its clock, and clocks only go on;
  the transaction refuses if the lease is another by then.
* `RunningStaysPending` (`RunningIsPending`): the request of a running Intervention whose
  refusal is not on record is not acknowledged, and it has a delivery left, or an
  Executor holds one it may still acknowledge, or there have been as many faults as
  deliveries. `DeliveryInvariant` says that an
  acknowledged request belongs to an Incident that is `Settled` (its Intervention is
  terminal, or the refusal is on record), that an Intervention exists only where a
  request was published, and what the Executor that holds a delivery may yet do with
  it (`Delivering`): what it takes for claimed is claimed, and the request is settled
  before the worker acknowledges it. `AttemptsInvariant` counts: the deliveries of a
  request are those that are still held (`Holding`), those that were unheard, and at most
  as many others as there were faults. Unheard ones exist only where the Intervention is
  settled (`UnheardIsSettled`), since an Executor acknowledges, or is beaten to its Safe
  Halt, only then; so what uses up the deliveries of a running one is faults.
* `SuccessIsApplied` (`SucceededWasApplied`) and `RestoredOnce`
  (`RestoredAtMostOnce`). `OutcomeInvariant` says that an Executor past its patch
  (`Handles`) or at a converged Deployment, a recorded success and a restoration are
  each about an action whose patch was accepted, or that asked for nothing
  (`Applied`); and that while an Executor may still undo an action that changed the
  Deployment, no other may and nobody has (`OneUndoes`). The latter holds because
  `ApplyInvariant` lets one patch through: the Executor that sent it is the only one
  that comes to undo it.
* `PipelineKeepsContract` (`KeepsContract`): the initial states map to the contract's,
  and each step to a step of it or a stutter (`ContractStep`): decisions, the accepted
  patch and claims with outcomes, one lemma each. It needs all of the invariants, the
  delivery's for a claim, the outcome's for a success.

**`AlertIngestionProofs`** proves `IngestionTypeCorrect`, `IngestionInvariance`,
`AcknowledgedIsRecordedAlways` and `SignalsAreCorrelatedAlways` from
`IngestionAssumption`. Neither of the last two is inductive. What is missing is what
a consumer knows before its next write (`StepIsJustified`): at the audit its
notification is a signal of the Incident it holds, at the acknowledgement the audit
names it too, and at the append either it created the Incident and is alone with it
(`AppendIsJustified`: nobody finds an Incident that has no signal), or it found a
signal there that its own belongs with. Signals are never taken back and an
Incident's creation time never changes, so what was found stays true until it is
used; one lemma each says so for the steps that write nothing, that create, and
that append. Enrollment plays no part: it decides whether a delivery goes on, not
what it writes.

**`InvestigationProofs`** proves `InvestigationTypeCorrect`, `CompletedOnceAlways`,
`InvestigationInvariance`, `OwnFindingsAlways`, `ApprovalNotWithdrawnAlways` and
`BudgetOverrunBounded` from `InvestigationAssumption`. `CompletedOnce` follows from the
types alone: every operation that writes the outcome asks that there is none.
`ApprovalNotWithdrawn` needs `ReadIsCurrent`: a run between its read and its claim
has seen an Incident without an outcome, and if its version still matches there is
none yet, because every completion raises the version; an Incident awaits an
Approval only with an outcome, so a claim that is granted takes nothing back. The
budget's argument counts: a caller is admitted to query only below the limit, and
each admitted caller queries once before it is checked again. With callers that
are admitted as a set, the sum of queries and admitted callers stays below the
limit plus the number of callers: an admission adds one to it while there is a
caller that is not admitted, an append moves one from the second to the first.

**`ApprovalProofs`** proves `ApprovalTypeCorrect`, `PublishedIsApprovedAlways`,
`DecidedAsReviewedAlways`, `ApprovalInvariance` and `ReviewIsTruthfulAlways` from
`ApprovalAssumption`. Publication needs `PublishersHoldIt`: whoever is about to publish
holds the recorded decision, and since the record takes one decision there is one
such. `DecidedAsReviewed` needs `VersionsNameLifecycles`: every step that changes the
lifecycle raises the version, so that the version compared at the end speaks for the
closure that may have come since the review; evidence raises no version, and is
compared itself. The review's expiry is not part of it: it is checked when the
transaction's callback runs, and the commit may come later. `ReviewIsTruthful` is the deepest: the engine's reads are only
consistent if nothing happened between them, and nothing in the code checks that
they are. What saves it is that resourceVersions are never used again. `EngineIsCurrent`
says that what was read agrees with the Deployment, or its resourceVersion has moved
on; `PassedIsCurrent` carries the same alternative over to the decision; and a review
of a decision the live Deployment has moved away from is refused. A rollback needs
one more fact, that a template belongs to one revision (`RelabelledIsOneToOne`), so
that the revision the diff names is the one the proposal asked for.

**`RecoveryProofs`** proves `RecoveryTypeCorrect`, `ResolvedWasHealthyAlways` and
`HistoryIsSoundAlways` from `RecoveryAssumption`. `RecoveryInvariant` says that every recorded assessment is `Honest`: one that
claims progress `n` ends `n` windows' length of healthy weather; that what a verifier
holds is `WellFounded`: a window of the configured length in the past, healthy
if it was satisfied; and that a resolved Incident has the required progress
(`ResolvedHasProgress`). A new assessment counts on only where the last one ended, so its
window continues the healthy stretch of that one, which is what makes the claim
inductive without a word about the earlier windows; history never changes, so time
does not disturb it. `HistoryIsSound` is about the list itself: `HistoryInvariant` says that
each recorded progress is the length of the longest streak that ends there
(`Longest`) and that windows do not overlap. An append leaves the streaks before it
alone and makes one longer, or starts one, and which of them the store decides on
the record as it is, not as the verifier read it.

**`TimelineProofs`** proves `AcknowledgedIsKeptAlways`, `TimelineTypeCorrect`,
`ShownInOrderAlways` and `TimelineReplays`, from `TimelineAssumption`. For the store the
inductive invariant is `StoreOK`: identifiers are issued before they are recorded, and a commit appends to the
document its callback has looked at, so that an event already recorded makes the
callback raise. There are no more events than calls because no identifier is there
twice (a pigeonhole argument, needed because a cursor must stay within its type).
For the pages it is `PagesOK`: what a page was loaded with, what it heard, what is
on the wire and what its stream has in hand, one after the other, are consecutive
cursors that end within the record (`Continues`); and what is shown is increasing,
and either all heard of or the record as a refresh brought it (`Ordered`). The
refinement follows step by step (`ContractSteps`): `Receive` is the contract's
hearing of the next event, which `Continues` says it is; commits are its growth; all
else stutters.

**`BootstrapProofs`** proves `TypeCorrect`, `OrderAlwaysSuffices`, `VerifiedAlwaysComplete` and
`OnlyReviewedRuns` from `BootstrapAssumption`, for every profile within the fifteen kinds and any
number of operators; TLC checks one operator and eleven kinds. `BootstrapInvariant` follows one
call through its steps. While it inspects, what it has seen is what there is, unless
something came between (`Found`), and the checks it has passed hold (`Checked`); no
method that has something to inspect is left out on the way (`FollowingOmitsNothing`),
so when the plan is made every kind has been seen (`AllSeen`). While it runs, the
commands left are of the reviewed plan (`Reviewed`), and a resource is there exactly if its command is
not among them (`Workable`), but for what may be repeated and for the two kinds that
are reported as missing when they differ. The next command is the least in rank, so
whatever comes before it is done; nothing a command needs comes after it
(`NeedsComeFirst`), so it succeeds (`NextSucceeds`). Other calls and other hands either
leave the environment alone or end the calm (`OthersAside`).

**Model-checked only.** Liveness, because the prover has no `ENABLED`:
`RequestsSettle`, `AlertsAreIngested`, `RunsEnd`, `ProposalIsDecided`,
`DecisionIsPublished`, `EventsArrive` and `Converges`; `MutatedIsSettled`,
`RemainingIsProposed`, `AlertsAreDurable` and `UIReconnects` are liveness, too, and do
not hold. Every invariant and every
action property of the runs, and both refinements, are proved.

## 5. Not modelled, and why

* Formatting and input: redaction patterns, prompts, rendering, parsing of alerts and
  manifests, command lines; the GitHub, Logging and Monitoring clients; configuration
  and identity, which have no state that changes.
* The rehearsal and the legacy run API: `main.py` does not mount them, and
  `src/README.md` says that KubeCouncil has evolved away from rehearsal twins. The Kubernetes client and the
  kustomize analysis serve only them and keep no state.
* The scenario controller: a demo tool whose writes are those of the other writers
  of `InterventionPipeline`.
* `InMemoryIncidentStore`'s unlocked append: the local mode only. The mutant
  `CommitsBlindly` of `Timeline` is what it does.
* In the pipeline: a REJECTED decision and `review_proposal`, which are in `Approval`;
  several Approvals (impossible). The unreachable transitions of the tables are kept in
  the tables anyway.
* In `Investigation`: the gateway's second try of one read, which nothing else
  sees; audit events.
* In `Approval`: the shape of a patch and the wording of a diff; a provider that
  remembers rollback revisions, which only the Executor's does; who may act as a
  Responder.
* In `Recovery`: a scheduler. No process of the runtime calls
  `verify_next_window`, so there is no fairness to assume and no promise that an
  Incident is ever resolved.
* In `Bootstrap`: the smoke test, several resources of one kind, and the clients'
  own retries.
* `poll_once` of the alert service has no caller in the runtime.

## 6. Plan

1. Proofs of the safety that liveness rests on: that a call, a run or a delivery
   that is under way has a step to take.
2. The shapes of patches as operators against reference definitions.
3. `Investigation` continued from `AlertIngestion`'s acknowledgement in one
   composition, with several Incidents, once a worker takes up what a crash left.
