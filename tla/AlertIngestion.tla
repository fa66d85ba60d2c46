--------------------------- MODULE AlertIngestion ---------------------------
(***************************************************************************)
(* Alerts become Incidents: AlertIngestionService.consume of               *)
(* services/alerts.py as run_alert_worker of runtime/workers.py drives it, *)
(* next to Responders who open Incidents by hand (open_incident) and close *)
(* them, and administrators whose changes of the cluster suspend the       *)
(* Enrollment of the application and restore it.  What follows the         *)
(* acknowledgement, evidence and Council, is not part of this module.      *)
(*                                                                         *)
(* Every read or write of the Incident store and of Pub/Sub is one step,   *)
(* and so is an inspection of the Enrollment.  There is no clock: a        *)
(* message that is not acknowledged may be delivered at any time, also     *)
(* while an earlier delivery is still being handled, but no more often     *)
(* than its subscription allows: then it goes to the dead-letter topic,    *)
(* which nothing in the program reads.                                     *)
(***************************************************************************)
EXTENDS Enrollment, Naturals, Sequences

CONSTANTS
  Consumers,      \* worker loops and API calls that run at the same time
  Notifications,
  Manual,         \* the ones open_incident makes up for a Responder
  Dependencies,   \* <<v, w>>: the profile declares that v depends on w
  Workload,       \* Workload[n]: workload_name
  State,          \* State[n]: "open" or "closed"
  Provider,       \* Provider[n]: provider_incident_id
  NoProvider,
  Nothing,        \* no notification, no Incident
  Time,           \* Time[n]: observed_at
  CorrelationWindow,
  MaxAttempts,    \* maximum_delivery_attempts of the subscription: 5
  \* Bounds of the model.
  MaxIncidents,   \* a store call that would create one more is left out
  Volatile,       \* the prerequisites administrators change
  MaxFaults       \* crashes, failed calls and late acknowledgements

ASSUME IngestionAssumption ==
  /\ Manual \subseteq Notifications
  /\ Dependencies \subseteq Workloads \X Workloads
  /\ Workload \in [Notifications -> Workloads]
  /\ State \in [Notifications -> {"open", "closed"}]
  /\ Time \in [Notifications -> Nat]
  /\ CorrelationWindow \in Nat
  /\ MaxAttempts \in Nat
  /\ Volatile \subseteq Prerequisites
  /\ MaxIncidents \in Nat
  /\ MaxFaults \in Nat

VARIABLES
  opener,     \* opener[k]: the notification Incident k was created for
  lifecycle,  \* lifecycle[k]: "none" before k is created
  signals,    \* signals[k]: the notifications of its alert_signals
  audited,    \* audited[k]: the notifications its audit events name
  message,    \* message[n]: the Pub/Sub message that carries n
  attempts,   \* attempts[n]: how often it has been delivered
  working,    \* the consumers whose alert task has not ended
  cluster,    \* the prerequisites that are in place
  refused,    \* refused[n]: how often, for want of Enrollment
  pc,         \* pc[c]: the call c makes next
  job,        \* job[c]: the notification c handles and its Incident
  faults

incidentVars == <<opener, lifecycle, signals, audited>>
enrollmentVars == <<cluster, refused>>
vars == <<incidentVars, enrollmentVars, message, attempts, working, pc, job, faults>>

\* Identifiers are random in the code; here they number the creations.
Incidents == 1..MaxIncidents

\* What closing changes for correlation: a closed Incident takes no alerts.
Lifecycles == {"none", "open", "closed"}

Steps == {"idle", "check", "find", "correlate", "create", "append", "audit", "ack"}

Job == [note : Notifications \cup {Nothing}, inc : Incidents \cup {Nothing}]

NoJob == [note |-> Nothing, inc |-> Nothing]

IngestionTypeOK ==
  /\ opener \in [Incidents -> Notifications \cup {Nothing}]
  /\ lifecycle \in [Incidents -> Lifecycles]
  /\ signals \in [Incidents -> Seq(Notifications)]
  /\ audited \in [Incidents -> SUBSET Notifications]
  /\ message \in [Notifications -> {"pending", "acked"}]
  /\ attempts \in [Notifications -> Nat]
  /\ working \subseteq Consumers
  /\ cluster \subseteq Prerequisites
  /\ refused \in [Notifications -> Nat]
  /\ pc \in [Consumers -> Steps]
  /\ job \in [Consumers -> Job]
  /\ faults \in Nat
  /\ \A k \in Incidents : lifecycle[k] # "none" => opener[k] \in Notifications
  /\ \A c \in Consumers :
       /\ pc[c] # "idle" => job[c].note \in Notifications
       /\ pc[c] \in {"append", "audit", "ack"} => job[c].inc \in Incidents

Init ==
  /\ opener = [k \in Incidents |-> Nothing]
  /\ lifecycle = [k \in Incidents |-> "none"]
  /\ signals = [k \in Incidents |-> <<>>]
  /\ audited = [k \in Incidents |-> {}]
  /\ message = [n \in Notifications |-> "pending"]
  /\ attempts = [n \in Notifications |-> 0]
  /\ working = Consumers
  /\ cluster \in {Prerequisites \ gone : gone \in SUBSET Volatile}
  /\ refused = [n \in Notifications |-> 0]
  /\ pc = [c \in Consumers |-> "idle"]
  /\ job = [c \in Consumers |-> NoJob]
  /\ faults = 0

-----------------------------------------------------------------------------
Note(c) == job[c].note
Inc(c) == job[c].inc

Goto(c, p) == pc' = [pc EXCEPT ![c] = p]

Handle(c, n, k) == job' = [job EXCEPT ![c] = [note |-> n, inc |-> k]]

\* The delivery or the request is done with.
Finish(c) == Goto(c, "idle") /\ job' = [job EXCEPT ![c] = NoJob]

\* The notifications among the signals of Incident k.
Signals(k) == {signals[k][j] : j \in DOMAIN signals[k]}

\* store.list sorts by opened_at, newest first, and its first match is taken.
Newest(found) ==
  {k \in found : \A j \in found : Time[opener[j]] <= Time[opener[k]]}

WithinWindow(m, n) ==
  /\ Time[m] <= Time[n] + CorrelationWindow
  /\ Time[n] <= Time[m] + CorrelationWindow

\* _workloads_related.
WorkloadsRelated(v, w) ==
  v = w \/ <<v, w>> \in Dependencies \/ <<w, v>> \in Dependencies

\* n belongs with a signal m: one provider incident, or related workloads.
BelongsWith(n, m) ==
  \/ Provider[n] # NoProvider /\ Provider[m] = Provider[n]
  \/ WorkloadsRelated(Workload[n], Workload[m])

\* Mutant: the correlation window is not looked at.
CorrelatedAnyTime(n, k) ==
  /\ lifecycle[k] = "open"
  /\ \E m \in Signals(k) : BelongsWith(n, m)

\* _find_correlated would take Incident k for n.
Correlated(n, k) ==
  /\ lifecycle[k] = "open"
  /\ WithinWindow(n, opener[k])
  /\ \E m \in Signals(k) : BelongsWith(n, m)

\* Mutant: an identifier may be given out twice.
NewIncidentReused(k, n) ==
  /\ \A j \in 1..(k - 1) : lifecycle[j] # "none"
  /\ lifecycle' = [lifecycle EXCEPT ![k] = "open"]
  /\ opener' = [opener EXCEPT ![k] = n]

\* The store creates the next Incident.
NewIncident(k, n) ==
  /\ lifecycle[k] = "none"
  /\ \A j \in 1..(k - 1) : lifecycle[j] # "none"
  /\ lifecycle' = [lifecycle EXCEPT ![k] = "open"]
  /\ opener' = [opener EXCEPT ![k] = n]

Fault == faults < MaxFaults /\ faults' = faults + 1

-----------------------------------------------------------------------------
\* Mutant: the delivery is acknowledged when it is taken.
PullAcknowledges(c, n) ==
  /\ pc[c] = "idle" /\ c \in working
  /\ n \notin Manual
  /\ message[n] = "pending" /\ attempts[n] < MaxAttempts
  /\ attempts' = [attempts EXCEPT ![n] = @ + 1]
  /\ message' = [message EXCEPT ![n] = "acked"]
  /\ Handle(c, n, Nothing)
  /\ Goto(c, "check")
  /\ UNCHANGED <<incidentVars, enrollmentVars, working, faults>>

\* One delivery of an outstanding message.
Pull(c, n) ==
  /\ pc[c] = "idle" /\ c \in working
  /\ n \notin Manual
  /\ message[n] = "pending" /\ attempts[n] < MaxAttempts
  /\ attempts' = [attempts EXCEPT ![n] = @ + 1]
  /\ Handle(c, n, Nothing)
  /\ Goto(c, "check")
  /\ UNCHANGED <<incidentVars, enrollmentVars, message, working, faults>>

\* A pull that raises anything but DeadlineExceeded: the worker's loop has no
\* handler around it, so the task ends.  The API of the same process goes on.
\* A pull that loses what it was handed is a Pull and an Abort.
PullFails(c) ==
  /\ pc[c] = "idle" /\ c \in working
  /\ working' = working \ {c}
  /\ UNCHANGED <<incidentVars, enrollmentVars, message, attempts, pc, job, faults>>

\* Only a new process starts the task again, for reasons of its own: health
\* and readiness say nothing of the task.
Restart(c) ==
  /\ pc[c] = "idle" /\ c \notin working
  /\ working' = working \cup {c}
  /\ UNCHANGED <<incidentVars, enrollmentVars, message, attempts, pc, job, faults>>

\* The profile is loaded and its Enrollment inspected; without it consume
\* raises, and the delivery is not acknowledged.
Check(c) ==
  /\ pc[c] = "check"
  /\ IF EnrolledTarget(cluster, Workload[Note(c)], FALSE)
     THEN Goto(c, "find") /\ UNCHANGED <<job, refused>>
     ELSE Finish(c) /\ refused' = [refused EXCEPT ![Note(c)] = @ + 1]
  /\ UNCHANGED <<incidentVars, cluster, message, attempts, working, faults>>

\* Mutant: a duplicate is not audited.
FindDuplicateUnaudited(c) ==
  LET found == {k \in Incidents : Note(c) \in Signals(k)} IN
  /\ pc[c] = "find"
  /\ \/ found = {} /\ Goto(c, "correlate") /\ UNCHANGED job
     \/ \E k \in Newest(found) : Handle(c, Note(c), k) /\ Goto(c, "ack")
  /\ UNCHANGED <<incidentVars, enrollmentVars, message, attempts, working, faults>>

\* _find_by_notification: a duplicate only has its audit event completed.
FindDuplicate(c) ==
  LET found == {k \in Incidents : Note(c) \in Signals(k)} IN
  /\ pc[c] = "find"
  /\ \/ found = {} /\ Goto(c, "correlate") /\ UNCHANGED job
     \/ \E k \in Newest(found) :
          /\ Handle(c, Note(c), k)
          /\ Goto(c, IF Note(c) \in audited[k] THEN "ack" ELSE "audit")
  /\ UNCHANGED <<incidentVars, enrollmentVars, message, attempts, working, faults>>

\* _find_correlated, on a list read again.  A closure that belongs to no
\* Incident raises ValueError: the worker logs it and does not acknowledge.
Correlate(c) ==
  LET found == {k \in Incidents : Correlated(Note(c), k)} IN
  /\ pc[c] = "correlate"
  /\ \/ \E k \in Newest(found) : Handle(c, Note(c), k) /\ Goto(c, "append")
     \/ found = {} /\ State[Note(c)] = "open" /\ Goto(c, "create") /\ UNCHANGED job
     \/ found = {} /\ State[Note(c)] = "closed" /\ Finish(c)
  /\ UNCHANGED <<incidentVars, enrollmentVars, message, attempts, working, faults>>

\* Mutant: the signal is not appended to the record that was created.
CreateForgotten(c) ==
  /\ pc[c] = "create"
  /\ \E k \in Incidents : NewIncident(k, Note(c))
  /\ Goto(c, "append")
  /\ UNCHANGED <<signals, audited, enrollmentVars, message, attempts, working, job, faults>>

Create(c) ==
  /\ pc[c] = "create"
  /\ \E k \in Incidents : NewIncident(k, Note(c)) /\ Handle(c, Note(c), k)
  /\ Goto(c, "append")
  /\ UNCHANGED <<signals, audited, enrollmentVars, message, attempts, working, faults>>

\* open_incident makes up a notification and correlates it with nothing.
OpenIncident(c, n) ==
  /\ pc[c] = "idle"
  /\ n \in Manual
  /\ EnrolledTarget(cluster, Workload[n], FALSE)
  /\ \A k \in Incidents : lifecycle[k] # "none" => opener[k] # n
  /\ \E k \in Incidents : NewIncident(k, n) /\ Handle(c, n, k)
  /\ Goto(c, "append")
  /\ UNCHANGED <<signals, audited, enrollmentVars, message, attempts, working, faults>>

\* append_alert_signal, whatever became of the Incident since it was found.
\* The store refuses a second one for a notification: ValueError, and the
\* delivery is not acknowledged.  The event open_incident appends next names
\* no notification.
AppendSignal(c) ==
  /\ pc[c] = "append"
  /\ IF Note(c) \in Signals(Inc(c))
     THEN Finish(c) /\ UNCHANGED signals
     ELSE /\ signals' = [signals EXCEPT ![Inc(c)] = Append(@, Note(c))]
          /\ IF Note(c) \in Manual THEN Finish(c)
             ELSE Goto(c, "audit") /\ UNCHANGED job
  /\ UNCHANGED <<opener, lifecycle, audited, enrollmentVars, message, attempts, working, faults>>

\* _ensure_alert_audit, when the record it was given names no such event.
Audit(c) ==
  /\ pc[c] = "audit"
  /\ audited' = [audited EXCEPT ![Inc(c)] = @ \cup {Note(c)}]
  /\ Goto(c, "ack")
  /\ UNCHANGED <<opener, lifecycle, signals, enrollmentVars, message, attempts, working, job, faults>>

\* Pub/Sub may ignore an acknowledgement that comes after the deadline.
Acknowledge(c) ==
  /\ pc[c] = "ack"
  /\ \/ message' = [message EXCEPT ![Note(c)] = "acked"] /\ UNCHANGED faults
     \/ Fault /\ UNCHANGED message
  /\ Finish(c)
  /\ UNCHANGED <<incidentVars, enrollmentVars, attempts, working>>

\* A call raises or the process dies: the delivery or the request ends here, and
\* what it wrote stays.
Abort(c) ==
  /\ pc[c] # "idle"
  /\ Fault
  /\ Finish(c)
  /\ UNCHANGED <<incidentVars, enrollmentVars, message, attempts, working>>

\* A Responder closes the Incident, or it resolves.
Close(k) ==
  /\ lifecycle[k] = "open"
  /\ lifecycle' = [lifecycle EXCEPT ![k] = "closed"]
  /\ UNCHANGED <<opener, signals, audited, enrollmentVars, message, attempts, working, pc, job, faults>>

\* An administrator takes a prerequisite away or puts it in place again.
Administer(f) ==
  /\ cluster' = IF f \in cluster THEN cluster \ {f} ELSE cluster \cup {f}
  /\ UNCHANGED <<incidentVars, refused, message, attempts, working, pc, job, faults>>

-----------------------------------------------------------------------------
\* What consumer c does with the delivery it holds.
Consume(c) ==
  \/ Check(c)
  \/ FindDuplicate(c)
  \/ Correlate(c)
  \/ Create(c)
  \/ AppendSignal(c)
  \/ Audit(c)
  \/ Acknowledge(c)

Next ==
  \/ \E c \in Consumers :
       \/ \E n \in Notifications : Pull(c, n) \/ OpenIncident(c, n)
       \/ Consume(c)
       \/ Abort(c)
       \/ PullFails(c)
       \/ Restart(c)
  \/ \E k \in Incidents : Close(k)
  \/ \E f \in Volatile : Administer(f)

Spec == Init /\ [][Next]_vars

\* The worker's loop goes on with what it holds, and Pub/Sub hands out every
\* message it still has, again and again until the last attempt, while there
\* is a task that pulls.  Nobody has to start an ended task again.
Fairness ==
  /\ \A c \in Consumers : WF_vars(Consume(c))
  /\ \A n \in Notifications : SF_vars(\E c \in Consumers : Pull(c, n))

FairSpec == Spec /\ Fairness

-----------------------------------------------------------------------------
\* "Pub/Sub messages are acknowledged only after durable Incident creation or
\* update" (issue 16): an acknowledged alert is a signal of an Incident whose
\* timeline names it, whatever delivery was interrupted where.
AcknowledgedIsRecorded ==
  \A n \in Notifications : message[n] = "acked" =>
    \E k \in Incidents : n \in Signals(k) /\ n \in audited[k]

\* An Incident is about one thing: its first signal is the one it was created
\* for, and each later one lies in its window and belongs with an earlier one,
\* although correlation and append are two calls and others append between.
SignalsAreCorrelated ==
  \A k \in Incidents : \A j \in DOMAIN signals[k] :
    IF j = 1 THEN signals[k][1] = opener[k]
    ELSE /\ WithinWindow(signals[k][j], opener[k])
         /\ \E i \in 1..(j - 1) : BelongsWith(signals[k][j], signals[k][i])

\* A consumer about to append to Incident k either created it, and is alone
\* with it, or found signals there that its own belongs with.
AppendIsJustified(c) ==
  LET k == Inc(c) IN
  \/ /\ signals[k] = <<>>
     /\ opener[k] = Note(c)
     /\ \A d \in Consumers \ {c} : pc[d] = "append" => Inc(d) # k
  \/ /\ signals[k] # <<>>
     /\ WithinWindow(Note(c), opener[k])
     /\ \E m \in Signals(k) : BelongsWith(Note(c), m)

\* What consumer c has established before the step it takes next.
StepIsJustified(c) ==
  /\ pc[c] \in {"append", "audit", "ack"} => lifecycle[Inc(c)] # "none"
  /\ pc[c] = "append" => AppendIsJustified(c)
  /\ pc[c] \in {"audit", "ack"} => Note(c) \in Signals(Inc(c))
  /\ pc[c] = "ack" => Note(c) \in audited[Inc(c)]

UncreatedIsEmpty ==
  \A k \in Incidents : lifecycle[k] = "none" => signals[k] = <<>>

\* The inductive invariant: what a consumer has established at each step
\* still holds when it takes the next, whatever the others did in between.
IngestionInvariant ==
  /\ IngestionTypeOK
  /\ UncreatedIsEmpty
  /\ \A c \in Consumers : StepIsJustified(c)
  /\ AcknowledgedIsRecorded
  /\ SignalsAreCorrelated

\* While an alert task runs anywhere, every alert that opens becomes a signal of
\* an Incident in the end, whichever of its deliveries overlap, fail or come too
\* late to be acknowledged, also when the tasks ended for a time: it is
\* dead-lettered without one only if each of its deliveries was refused by
\* Enrollment or hit by a fault.
AlertsAreIngested ==
  \A n \in {m \in Notifications \ Manual : State[m] = "open"} :
    message[n] = "pending" ~>
      \/ \E k \in Incidents : n \in Signals(k)
      \/ refused[n] + faults >= MaxAttempts
      \/ working = {}

\* "Durably ingest alerts" (run_alert_worker): the same although every task may
\* have ended.
AlertsAreDurable ==
  \A n \in {m \in Notifications \ Manual : State[m] = "open"} :
    message[n] = "pending" ~>
      \/ \E k \in Incidents : n \in Signals(k)
      \/ refused[n] + faults >= MaxAttempts

\* "... and retries remain idempotent" (issue 16): however often an alert is
\* delivered, it opens at most one Incident.
OneIncidentPerAlert ==
  \A j, k \in Incidents :
    /\ lifecycle[j] # "none" /\ lifecycle[k] # "none"
    /\ opener[j] = opener[k]
    => j = k
=============================================================================
