------------------------------ MODULE Recovery ------------------------------
(***************************************************************************)
(* From a mutation that succeeded to a resolved Incident: verify_next_     *)
(* window of services/recovery_verifier.py, called by any number of        *)
(* callers at any time, and record_recovery_assessment of the store.       *)
(*                                                                         *)
(* Each call reads the record, observes the last Window units of time, and *)
(* writes its assessment.  What the customers saw is history, one weather  *)
(* per unit of time; an observation may show less than that but never      *)
(* better: the metrics of a window are good only if no unit of it was      *)
(* sick, its traffic is sufficient only if no unit of it was quiet.        *)
(***************************************************************************)
EXTENDS IncidentRecord, Sequences

CONSTANTS
  Verifiers,       \* calls of verify_next_window at one time
  Window,          \* stabilization_window_seconds
  Required,        \* required_stable_windows
  ProbeFallback,   \* allow_synthetic_availability_fallback, and a probe
  \* Bounds of the model.
  MaxTime

ASSUME RecoveryAssumption ==
  /\ Window \in Nat \ {0}
  /\ Required \in Nat \ {0, 1}
  /\ ProbeFallback \in BOOLEAN
  /\ MaxTime \in Nat

VARIABLES
  weather,      \* weather[t]: what customers saw in the unit that ended at t
  incident,     \* lifecycle, intervention outcome and version
  assessments,  \* recovery_assessments of the Intervention, in order
  verifier      \* verifier[v]: what its call does next, and its locals

vars == <<weather, incident, assessments, verifier>>

Weathers == {"healthy", "sick", "quiet"}

clock == Len(weather)

Incident == [lifecycle : Lifecycles, outcome : InterventionOutcomes, version : Nat]

Assessment ==
  [started : Nat, ended : Nat, satisfied : BOOLEAN, stable : Nat]

Locals ==
  [step      : {"idle", "observe", "record"},
   version   : Nat,        \* of the record that was read
   started   : Nat,
   ended     : Nat,
   satisfied : BOOLEAN]

RecoveryTypeOK ==
  /\ weather \in Seq(Weathers)
  /\ incident \in Incident
  /\ assessments \in Seq(Assessment)
  /\ verifier \in [Verifiers -> Locals]

Idle == [step |-> "idle", version |-> 0, started |-> 0, ended |-> 0,
         satisfied |-> FALSE]

\* update_intervention has recorded the success.
Init ==
  /\ weather = <<>>
  /\ incident = [lifecycle |-> "monitoring", outcome |-> "monitoring", version |-> 0]
  /\ assessments = <<>>
  /\ verifier = [v \in Verifiers |-> Idle]

-----------------------------------------------------------------------------
\* What a window shows of the Deployment and of the Critical Journey.
Observation ==
  [converged    : BOOLEAN,   \* generation, the action's revision, replicas
   symptoms     : BOOLEAN,   \* OOM terminations or restarts
   traffic      : BOOLEAN,   \* request_count is sufficient
   availability : {"good", "bad", "unknown"},
   latency      : {"good", "bad", "unknown"},
   probes       : BOOLEAN]   \* all the synthetic probes succeed

\* What the reader may answer about a window.
Observed(w) ==
  {o \in Observation : \A t \in (w.started + 1)..w.ended :
     /\ o.traffic => weather[t] # "quiet"
     /\ o.availability = "good" /\ o.latency = "good" => weather[t] # "sick"}

\* Synthetic probes stand in for availability when there is little traffic.
AvailabilitySatisfied(o) ==
  IF o.traffic THEN o.availability = "good" ELSE ProbeFallback /\ o.probes

LatencySatisfied(o) == o.traffic /\ o.latency = "good"

\* criteria_satisfied.
Satisfied(o) ==
  /\ o.converged /\ ~ o.symptoms
  /\ o.traffic
  /\ AvailabilitySatisfied(o)
  /\ LatencySatisfied(o)

LastOf(list) == list[Len(list)]

\* Mutant: a window may reach back into the one before.
OverlapsNothing(started) == FALSE /\ started = clock

\* The window would overlap the evidence of the previous one.
Overlaps(started) == assessments # <<>> /\ started < LastOf(assessments).ended

\* Mutant: any satisfied window counts on, however long ago the previous was.
NextStableLoose(started, satisfied) ==
  IF ~ satisfied THEN 0
  ELSE IF assessments # <<>> /\ LastOf(assessments).satisfied
       THEN LastOf(assessments).stable + 1 ELSE 1

\* stable_windows, which the store computes again.
NextStable(started, satisfied) ==
  IF ~ satisfied THEN 0
  ELSE IF /\ assessments # <<>>
          /\ LastOf(assessments).satisfied
          /\ LastOf(assessments).ended = started
       THEN LastOf(assessments).stable + 1 ELSE 1

-----------------------------------------------------------------------------
\* A unit of time passes.
Tick ==
  /\ clock < MaxTime
  /\ \E w \in Weathers : weather' = Append(weather, w)
  /\ UNCHANGED <<incident, assessments, verifier>>

\* verify_next_window reads the record and the clock; it raises unless the
\* Incident is monitored and the window is new.
Read(v) ==
  /\ verifier[v].step = "idle"
  /\ incident.lifecycle = "monitoring"
  /\ clock >= Window
  /\ ~ Overlaps(clock - Window)
  /\ verifier' = [verifier EXCEPT ![v] =
       [step |-> "observe", version |-> incident.version,
        started |-> clock - Window, ended |-> clock, satisfied |-> FALSE]]
  /\ UNCHANGED <<weather, incident, assessments>>

\* The observation; or it fails, and the call with it.
Observe(v) ==
  /\ verifier[v].step = "observe"
  /\ \/ \E satisfied \in {Satisfied(o) : o \in Observed(verifier[v])} :
          verifier' = [verifier EXCEPT ![v].step = "record",
                                       ![v].satisfied = satisfied]
     \/ verifier' = [verifier EXCEPT ![v] = Idle]
  /\ UNCHANGED <<weather, incident, assessments>>

\* Mutant: lifecycle and intervention outcome are swapped.
AssessSwapped(started, ended, satisfied) ==
  LET stable == NextStable(started, satisfied) IN
  /\ assessments' = Append(assessments,
       [started |-> started, ended |-> ended, satisfied |-> satisfied,
        stable |-> stable])
  /\ incident' = IF stable >= Required
                 THEN [lifecycle |-> "succeeded", outcome |-> "resolved",
                       version |-> incident.version + 1]
                 ELSE [incident EXCEPT !.version = @ + 1]

\* The assessment and the Incident after it.
Assess(started, ended, satisfied) ==
  LET stable == NextStable(started, satisfied) IN
  /\ assessments' = Append(assessments,
       [started |-> started, ended |-> ended, satisfied |-> satisfied,
        stable |-> stable])
  /\ incident' = IF stable >= Required
                 THEN [lifecycle |-> "resolved", outcome |-> "succeeded",
                       version |-> incident.version + 1]
                 ELSE [incident EXCEPT !.version = @ + 1]

\* What the store asks of an assessment: the version, the lifecycle, a window
\* that is new, and the progress computed from its own record.
Accepts(v) ==
  /\ incident.version = verifier[v].version
  /\ incident.lifecycle = "monitoring"
  /\ ~ Overlaps(verifier[v].started)
  /\ CanTransition(incident, "resolved", "succeeded")

\* record_recovery_assessment; the call returns, raises or dies.
Record(v) ==
  /\ verifier[v].step = "record"
  /\ \/ /\ Accepts(v)
        /\ Assess(verifier[v].started, verifier[v].ended, verifier[v].satisfied)
     \/ UNCHANGED <<incident, assessments>>
  /\ verifier' = [verifier EXCEPT ![v] = Idle]
  /\ UNCHANGED weather

\* A Responder closes the Incident.  The closure of its provider incident is
\* one more alert signal, and resolves nothing.
Close ==
  /\ incident.lifecycle # "closed"
  /\ CanTransition(incident, "closed", incident.outcome)
  /\ incident' = [incident EXCEPT !.lifecycle = "closed", !.version = @ + 1]
  /\ UNCHANGED <<weather, assessments, verifier>>

Next ==
  \/ Tick
  \/ \E v \in Verifiers : Read(v) \/ Observe(v) \/ Record(v)
  \/ Close

Spec == Init /\ [][Next]_vars

-----------------------------------------------------------------------------
\* An Incident is resolved only after Required windows back to back, each of
\* them with enough real traffic and good metrics: "must hold for two
\* consecutive 60-second windows before the Incident becomes resolved" (issue
\* 22).  Whatever the verifiers race for, in that time no customer was unwell.
ResolvedWasHealthy ==
  incident.lifecycle = "resolved" =>
    LET ended == LastOf(assessments).ended
    IN  /\ ended >= Required * Window
        /\ \A t \in (ended - Required * Window + 1)..ended : weather[t] = "healthy"

\* A reference definition of the progress of the i-th assessment: the largest
\* number of satisfied windows that end with it and leave no gap.
Progress(i) ==
  LET streaks == {n \in 0..i : \A j \in (i - n + 1)..i :
                    /\ assessments[j].satisfied
                    /\ j > i - n + 1 => assessments[j - 1].ended = assessments[j].started}
  IN  CHOOSE n \in streaks : \A m \in streaks : m <= n

\* The recorded windows are a stabilization history: they do not overlap, and
\* each records the progress the ones before it make it (the store's checks,
\* with calls that read an older record).
HistoryIsSound ==
  /\ \A i \in DOMAIN assessments : assessments[i].stable = Progress(i)
  /\ \A i \in DOMAIN assessments : i > 1 =>
       assessments[i - 1].ended <= assessments[i].started
=============================================================================
