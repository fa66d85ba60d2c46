--------------------------- MODULE RecoveryProofs ---------------------------
(***************************************************************************)
(* Proofs about Recovery for every number of verifiers, every length and   *)
(* number of windows and every history.                                    *)
(***************************************************************************)
EXTENDS Recovery, TLAPS

\* What verify_next_window hands over to the store.
HandedOver(v, satisfied) ==
  [verifier[v] EXCEPT !.step = "record", !.satisfied = satisfied]

\* Every step keeps the types.
LEMMA RecoveryTypeStep ==
  ASSUME RecoveryTypeOK, [Next]_vars
  PROVE  RecoveryTypeOK'
<1>1. /\ weather \in Seq(Weathers) /\ Len(weather) \in Nat
      /\ incident \in Incident /\ incident.version \in Nat
      /\ assessments \in Seq(Assessment) /\ Len(assessments) \in Nat
      /\ verifier \in [Verifiers -> Locals]
      /\ Idle \in Locals
      /\ Window \in Nat /\ Required \in Nat
  BY RecoveryAssumption DEF RecoveryTypeOK, Incident, Idle, Locals
<1>2. CASE UNCHANGED vars
  BY <1>2 DEF vars, RecoveryTypeOK
<1>3. CASE Tick
  BY <1>1, <1>3 DEF Tick, RecoveryTypeOK
<1>4. ASSUME NEW v \in Verifiers, Read(v)
      PROVE  RecoveryTypeOK'
  <2>1. [step |-> "observe", version |-> incident.version, started |-> clock - Window,
         ended |-> clock, satisfied |-> FALSE] \in Locals
    BY <1>1, <1>4 DEF Read, clock, Locals
  <2>2. verifier' \in [Verifiers -> Locals]
    BY <1>1, <1>4, <2>1 DEF Read
  <2> QED BY <1>1, <1>4, <2>2 DEF Read, RecoveryTypeOK
<1>5. ASSUME NEW v \in Verifiers, Observe(v)
      PROVE  RecoveryTypeOK'
  <2>1. \A b \in BOOLEAN : HandedOver(v, b) \in Locals
    <3>1. verifier[v] \in Locals /\ "record" \in {"idle", "observe", "record"}
      BY <1>1
    <3> QED BY <3>1, Zenon DEF HandedOver, Locals
  <2>2. \A o \in Observation : Satisfied(o) \in BOOLEAN
    BY DEF Satisfied, AvailabilitySatisfied, LatencySatisfied, Observation
  <2>3. \/ \E b \in BOOLEAN : verifier' = [verifier EXCEPT ![v] = HandedOver(v, b)]
        \/ verifier' = [verifier EXCEPT ![v] = Idle]
    BY <1>5, <2>2 DEF Observe, Observed, HandedOver
  <2>4. verifier' \in [Verifiers -> Locals]
    BY <1>1, <2>1, <2>3
  <2> QED BY <1>1, <1>5, <2>4 DEF Observe, RecoveryTypeOK
<1>6. ASSUME NEW v \in Verifiers, Record(v)
      PROVE  RecoveryTypeOK'
  <2>1. verifier' \in [Verifiers -> Locals]
    BY <1>1, <1>6 DEF Record
  <2>2. CASE UNCHANGED <<incident, assessments>>
    BY <1>1, <1>6, <2>1, <2>2 DEF Record, RecoveryTypeOK
  <2>3. CASE Assess(verifier[v].started, verifier[v].ended, verifier[v].satisfied)
    <3> DEFINE stable == NextStable(verifier[v].started, verifier[v].satisfied)
               new == [started |-> verifier[v].started, ended |-> verifier[v].ended,
                       satisfied |-> verifier[v].satisfied, stable |-> stable]
    <3>1. /\ verifier[v].started \in Nat /\ verifier[v].ended \in Nat
          /\ verifier[v].satisfied \in BOOLEAN
      BY <1>1 DEF Locals
    <3>2. stable \in Nat
      <4>1. assessments # <<>> => LastOf(assessments).stable \in Nat
        <5>1. assessments # <<>> => LastOf(assessments) \in Assessment
          BY <1>1 DEF LastOf
        <5> QED BY <5>1 DEF Assessment
      <4>2. assessments # <<>> => LastOf(assessments).stable + 1 \in Nat
        BY <4>1
      <4> QED BY <4>2 DEF NextStable
    <3>3. new \in Assessment
      BY <3>1, <3>2 DEF Assessment
    <3>4. assessments' \in Seq(Assessment)
      BY <1>1, <2>3, <3>3 DEF Assess
    <3>5. incident' \in Incident
      <4>1. [lifecycle |-> "resolved", outcome |-> "succeeded",
             version |-> incident.version + 1] \in Incident
        BY <1>1 DEF Incident, Lifecycles, InterventionOutcomes
      <4>2. [incident EXCEPT !.version = @ + 1] \in Incident
        BY <1>1 DEF Incident
      <4> QED BY <2>3, <4>1, <4>2 DEF Assess
    <3> QED BY <1>1, <1>6, <2>1, <3>4, <3>5 DEF Record, RecoveryTypeOK
  <2> QED BY <1>6, <2>2, <2>3 DEF Record
<1>7. CASE Close
  <2>1. "closed" \in Lifecycles /\ incident.version + 1 \in Nat
    BY <1>1 DEF Lifecycles
  <2>2. [incident EXCEPT !.lifecycle = "closed", !.version = @ + 1] \in Incident
    BY <1>1, <2>1 DEF Incident
  <2>3. incident' \in Incident
    BY <1>7, <2>2 DEF Close
  <2> QED BY <1>1, <1>7, <2>3 DEF Close, RecoveryTypeOK
<1> QED BY <1>2, <1>3, <1>4, <1>5, <1>6, <1>7 DEF Next

LEMMA RecoveryTypeInit == Init => RecoveryTypeOK
BY DEF Init, RecoveryTypeOK, Incident, Lifecycles, InterventionOutcomes, Idle, Locals

\* The types hold in every reachable state.
THEOREM RecoveryTypeCorrect == Spec => []RecoveryTypeOK
BY RecoveryTypeInit, RecoveryTypeStep, PTL DEF Spec

-----------------------------------------------------------------------------
\* No customer was unwell after time `from` and up to time `to`.
HealthyBetween(from, to) == \A t \in (from + 1)..to : weather[t] = "healthy"

\* The progress an assessment claims is that many healthy windows.
Honest(a) ==
  /\ a.ended <= Len(weather)
  /\ a.stable * Window <= a.ended
  /\ HealthyBetween(a.ended - a.stable * Window, a.ended)

\* A call that observes has a window of the past; one that found the criteria
\* satisfied saw healthy weather.
WellFounded(v) ==
  /\ verifier[v].step # "idle" =>
       /\ verifier[v].ended = verifier[v].started + Window
       /\ verifier[v].ended <= Len(weather)
  /\ verifier[v].step = "record" /\ verifier[v].satisfied =>
       HealthyBetween(verifier[v].started, verifier[v].ended)

\* A resolved Incident has the progress that was required.
ResolvedHasProgress ==
  incident.lifecycle = "resolved" =>
    /\ assessments # <<>>
    /\ LastOf(assessments).stable >= Required

\* ResolvedWasHealthy, strengthened to be inductive.
RecoveryInvariant ==
  /\ \A i \in 1..Len(assessments) : Honest(assessments[i])
  /\ \A v \in Verifiers : WellFounded(v)
  /\ ResolvedHasProgress

LEMMA OneMoreWindow ==
  \A n, w \in Nat : (n + 1) * w = n * w + w /\ n * w \in Nat
OBVIOUS

LEMMA MoreWindows ==
  ASSUME NEW m \in Nat, NEW n \in Nat, NEW w \in Nat, n >= m
  PROVE  n * w >= m * w /\ m * w \in Nat
<1> DEFINE d == n - m
<1>1. d \in Nat /\ n = m + d
  OBVIOUS
<1>2. d * w \in Nat /\ m * w \in Nat
  BY <1>1
<1> HIDE DEF d
<1>3. n * w = m * w + d * w
  BY <1>1
<1> QED BY <1>2, <1>3

\* What a reader answers is satisfied only about a healthy window.
LEMMA SatisfiedWasHealthy ==
  ASSUME RecoveryTypeOK, NEW w \in Locals, w.ended <= Len(weather),
         NEW o \in Observed(w), Satisfied(o)
  PROVE  HealthyBetween(w.started, w.ended)
<1>1. o.traffic /\ o.availability = "good" /\ o.latency = "good"
  BY DEF Satisfied, AvailabilitySatisfied, LatencySatisfied
<1> SUFFICES ASSUME NEW t \in (w.started + 1)..w.ended
             PROVE  weather[t] = "healthy"
  BY DEF HealthyBetween
<1>2. weather[t] # "quiet" /\ weather[t] # "sick"
  BY <1>1 DEF Observed
<1>3. weather[t] \in Weathers
  <2>1. w.started \in Nat /\ w.ended \in Nat
    BY DEF Locals
  <2> QED BY <2>1 DEF RecoveryTypeOK
<1> QED BY <1>2, <1>3 DEF Weathers

LEMMA RecoveryInvariantInit == Init => RecoveryInvariant
BY DEF Init, RecoveryInvariant, Idle, WellFounded, ResolvedHasProgress

\* Time adds weather and changes none of the past.
LEMMA TickKeepsRecovery ==
  ASSUME RecoveryTypeOK, RecoveryInvariant, Tick
  PROVE  RecoveryInvariant'
<1>1. PICK w \in Weathers : weather' = Append(weather, w)
  BY DEF Tick
<1>2. /\ Len(weather) \in Nat /\ Len(weather') = Len(weather) + 1
      /\ \A t \in 1..Len(weather) : weather'[t] = weather[t]
      /\ assessments' = assessments /\ verifier' = verifier /\ incident' = incident
      /\ Window \in Nat
  BY <1>1, RecoveryAssumption DEF RecoveryTypeOK, Tick
<1>3. ASSUME NEW from \in Nat, NEW to \in Nat, to <= Len(weather), HealthyBetween(from, to)
      PROVE  HealthyBetween(from, to)'
  BY <1>2, <1>3 DEF HealthyBetween
<1>4. ASSUME NEW i \in 1..Len(assessments')
      PROVE  Honest(assessments[i])'
  <2> DEFINE a == assessments[i]
             from == a.ended - a.stable * Window
  <2>1. a \in Assessment /\ Honest(a) /\ a' = a
    BY <1>2, <1>4 DEF RecoveryTypeOK, RecoveryInvariant
  <2>2. a.ended \in Nat /\ a.stable \in Nat /\ a.stable * Window \in Nat
    BY <1>2, <2>1, OneMoreWindow DEF Assessment
  <2>3. from \in Nat
    BY <2>1, <2>2 DEF Honest
  <2>4. a.ended <= Len(weather) /\ HealthyBetween(from, a.ended)
    BY <2>1 DEF Honest
  <2>5. \A t \in (from + 1)..a.ended : weather'[t] = "healthy"
    <3> HIDE DEF from
    <3> SUFFICES ASSUME NEW t \in (from + 1)..a.ended
                 PROVE  weather'[t] = "healthy"
      OBVIOUS
    <3>1. t \in 1..Len(weather)
      BY <1>2, <2>2, <2>3, <2>4
    <3>2. weather[t] = "healthy"
      BY <2>4 DEF HealthyBetween
    <3> QED BY <1>2, <3>1, <3>2
  <2>6. a.stable * Window <= a.ended
    BY <2>1 DEF Honest
  <2>7. a.ended <= Len(weather')
    BY <1>2, <2>2, <2>4
  <2> QED BY <1>2, <2>1, <2>5, <2>6, <2>7 DEF Honest, HealthyBetween
<1>5. ASSUME NEW v \in Verifiers
      PROVE  WellFounded(v)'
  <2>1. verifier[v] \in Locals /\ WellFounded(v)
    BY DEF RecoveryTypeOK, RecoveryInvariant
  <2>2. verifier[v].started \in Nat /\ verifier[v].ended \in Nat
    BY <2>1 DEF Locals
  <2>3. verifier[v].ended <= Len(weather)
          => (HealthyBetween(verifier[v].started, verifier[v].ended)
               => HealthyBetween(verifier[v].started, verifier[v].ended)')
    BY <1>2, <2>2 DEF HealthyBetween
  <2> QED BY <1>2, <2>1, <2>2, <2>3 DEF WellFounded
<1>6. ResolvedHasProgress'
  BY <1>2 DEF RecoveryInvariant, ResolvedHasProgress, LastOf
<1> QED BY <1>4, <1>5, <1>6 DEF RecoveryInvariant

\* An accepted assessment claims no more than its window and, when it joins
\* the one before, the windows of that.
LEMMA AssessIsHonest ==
  ASSUME RecoveryTypeOK, RecoveryInvariant, NEW v \in Verifiers,
         verifier[v].step = "record"
  PROVE  Honest([started |-> verifier[v].started, ended |-> verifier[v].ended,
                 satisfied |-> verifier[v].satisfied,
                 stable |-> NextStable(verifier[v].started, verifier[v].satisfied)])
<1> DEFINE w == verifier[v]
           stable == NextStable(w.started, w.satisfied)
           last == LastOf(assessments)
<1>1. /\ w \in Locals /\ WellFounded(v) /\ w.step = "record"
      /\ Len(weather) \in Nat /\ Len(assessments) \in Nat
      /\ Window \in Nat
  BY RecoveryAssumption DEF RecoveryTypeOK, RecoveryInvariant
<1>2. w.started \in Nat /\ w.ended \in Nat /\ w.satisfied \in BOOLEAN
  BY <1>1 DEF Locals
<1>3. /\ w.ended = w.started + Window /\ w.ended <= Len(weather)
      /\ w.satisfied => HealthyBetween(w.started, w.ended)
  BY <1>1 DEF WellFounded
<1>4. stable * Window <= w.ended /\ HealthyBetween(w.ended - stable * Window, w.ended)
  <2>1. CASE ~ w.satisfied
    <3>1. stable * Window = 0
      BY <1>1, <2>1 DEF NextStable
    <3> QED BY <1>2, <3>1 DEF HealthyBetween
  <2>2. CASE w.satisfied /\ stable = 1
    <3> HIDE DEF stable
    <3>1. stable * Window = Window
      BY <1>1, <2>2
    <3>2. w.ended - Window = w.started /\ Window <= w.ended
      BY <1>1, <1>2, <1>3
    <3>3. HealthyBetween(w.started, w.ended)
      BY <1>3, <2>2
    <3> QED BY <3>1, <3>2, <3>3
  <2>3. CASE /\ w.satisfied /\ assessments # <<>> /\ last.ended = w.started
             /\ stable = last.stable + 1
    <3>1. /\ last \in Assessment /\ Honest(last)
      BY <1>1, <2>3 DEF LastOf, RecoveryTypeOK, RecoveryInvariant
    <3>2. last.ended \in Nat /\ last.stable \in Nat
      BY <3>1 DEF Assessment
    <3> DEFINE before == last.stable * Window
    <3>3. before \in Nat /\ stable * Window = before + Window
      <4>1. stable = last.stable + 1 /\ last.stable \in Nat /\ Window \in Nat
        BY <1>1, <2>3, <3>2
      <4> HIDE DEF stable, last
      <4>2. /\ (last.stable + 1) * Window = last.stable * Window + Window
            /\ last.stable * Window \in Nat
        BY <4>1, OneMoreWindow, Zenon
      <4> QED BY <4>1, <4>2, Zenon
    <3>4. before <= last.ended /\ HealthyBetween(last.ended - before, last.ended)
      BY <3>1 DEF Honest
    <3> HIDE DEF before, last, stable
    <3>5. w.ended - (before + Window) = last.ended - before
      BY <1>1, <1>2, <1>3, <2>3, <3>2, <3>3
    <3>6. HealthyBetween(last.ended - before, w.ended)
      <4> SUFFICES ASSUME NEW t \in (last.ended - before + 1)..w.ended
                   PROVE  weather[t] = "healthy"
        BY DEF HealthyBetween
      <4>1. CASE t <= last.ended
        <5>1. t \in (last.ended - before + 1)..last.ended
          BY <1>2, <3>2, <3>3, <4>1
        <5> QED BY <3>4, <5>1 DEF HealthyBetween
      <4>2. CASE t > last.ended
        <5>1. t \in (w.started + 1)..w.ended
          BY <1>2, <2>3, <3>2, <3>3, <4>2
        <5> QED BY <1>3, <2>3, <5>1 DEF HealthyBetween
      <4> QED BY <1>2, <3>2, <3>3, <4>1, <4>2
    <3>7. before + Window <= w.ended
      BY <1>1, <1>2, <1>3, <2>3, <3>2, <3>3, <3>4
    <3> QED BY <3>3, <3>5, <3>6, <3>7
  <2> QED BY <1>2, <2>1, <2>2, <2>3 DEF NextStable
<1> QED BY <1>3, <1>4 DEF Honest

\* Every step keeps the invariant.
LEMMA RecoveryInvariantStep ==
  ASSUME RecoveryTypeOK, RecoveryInvariant, [Next]_vars
  PROVE  RecoveryInvariant'
<1>1. /\ verifier \in [Verifiers -> Locals] /\ Len(weather) \in Nat
      /\ assessments \in Seq(Assessment) /\ Len(assessments) \in Nat
      /\ Window \in Nat \ {0} /\ Required \in Nat \ {0}
  BY RecoveryAssumption DEF RecoveryTypeOK
<1>2. CASE UNCHANGED vars
  BY <1>2 DEF vars, RecoveryInvariant, Honest, WellFounded, ResolvedHasProgress,
              HealthyBetween, LastOf
<1>3. CASE Tick
  BY <1>3, TickKeepsRecovery
<1>4. ASSUME NEW v \in Verifiers, Read(v)
      PROVE  RecoveryInvariant'
  <2>1. ASSUME NEW u \in Verifiers
        PROVE  WellFounded(u)'
    <3>1. CASE u = v
      BY <1>1, <1>4, <3>1 DEF Read, WellFounded, clock
    <3>2. CASE u # v
      <4>1. verifier'[u] = verifier[u] /\ weather' = weather /\ WellFounded(u)
        BY <1>1, <1>4, <3>2 DEF Read, RecoveryInvariant
      <4> QED BY <4>1 DEF WellFounded, HealthyBetween
    <3> QED BY <3>1, <3>2
  <2> QED BY <1>4, <2>1 DEF Read, RecoveryInvariant, Honest, HealthyBetween,
                            ResolvedHasProgress, LastOf
<1>5. ASSUME NEW v \in Verifiers, Observe(v)
      PROVE  RecoveryInvariant'
  <2>1. ASSUME NEW u \in Verifiers
        PROVE  WellFounded(u)'
    <3>0. weather' = weather /\ WellFounded(u) /\ WellFounded(v)
      BY <1>5 DEF Observe, RecoveryInvariant
    <3>1. CASE u # v
      <4>1. verifier'[u] = verifier[u]
        BY <1>1, <1>5, <3>1 DEF Observe
      <4> QED BY <3>0, <4>1 DEF WellFounded, HealthyBetween
    <3>2. CASE u = v /\ verifier' = [verifier EXCEPT ![v] = Idle]
      BY <1>1, <3>2 DEF Idle, WellFounded
    <3>3. ASSUME u = v,
                 NEW o \in Observed(verifier[v]),
                 verifier' = [verifier EXCEPT ![v].step = "record",
                                              ![v].satisfied = Satisfied(o)]
          PROVE  WellFounded(u)'
      <4>1. /\ verifier'[v].started = verifier[v].started
            /\ verifier'[v].ended = verifier[v].ended
            /\ verifier'[v].satisfied = Satisfied(o)
        BY <1>1, <3>3 DEF Locals
      <4>2. /\ verifier[v] \in Locals
            /\ verifier[v].ended = verifier[v].started + Window
            /\ verifier[v].ended <= Len(weather)
        BY <1>1, <1>5, <3>0 DEF Observe, WellFounded
      <4>3. Satisfied(o) => HealthyBetween(verifier[v].started, verifier[v].ended)
        BY <4>2, SatisfiedWasHealthy
      <4> QED BY <3>0, <3>3, <4>1, <4>2, <4>3 DEF WellFounded, HealthyBetween
    <3> QED BY <1>5, <3>1, <3>2, <3>3 DEF Observe
  <2> QED BY <1>5, <2>1 DEF Observe, RecoveryInvariant, Honest, HealthyBetween,
                            ResolvedHasProgress, LastOf
<1>6. ASSUME NEW v \in Verifiers, Record(v)
      PROVE  RecoveryInvariant'
  <2>1. weather' = weather /\ verifier' = [verifier EXCEPT ![v] = Idle]
    BY <1>6 DEF Record
  <2>2. ASSUME NEW u \in Verifiers
        PROVE  WellFounded(u)'
    <3>1. verifier'[u] = Idle \/ verifier'[u] = verifier[u]
      BY <1>1, <2>1
    <3>2. WellFounded(u)
      BY DEF RecoveryInvariant
    <3> QED BY <2>1, <3>1, <3>2 DEF WellFounded, HealthyBetween, Idle
  <2>3. CASE UNCHANGED <<incident, assessments>>
    BY <2>1, <2>2, <2>3 DEF RecoveryInvariant, Honest, HealthyBetween,
                            ResolvedHasProgress, LastOf
  <2>4. CASE /\ Accepts(v)
             /\ Assess(verifier[v].started, verifier[v].ended, verifier[v].satisfied)
    <3> DEFINE stable == NextStable(verifier[v].started, verifier[v].satisfied)
               new == [started |-> verifier[v].started, ended |-> verifier[v].ended,
                       satisfied |-> verifier[v].satisfied, stable |-> stable]
    <3>1. Honest(new)
      BY <1>6, AssessIsHonest DEF Record
    <3>2. new.stable = stable
      OBVIOUS
    <3>3. assessments' = Append(assessments, new)
      BY <2>4 DEF Assess
    <3>4. /\ incident.lifecycle = "monitoring"
          /\ incident'.lifecycle = "resolved" => stable >= Required
      <4>1. incident.lifecycle = "monitoring" /\ incident \in Incident
        BY <2>4 DEF Accepts, RecoveryTypeOK
      <4>2. CASE stable >= Required
        BY <4>1, <4>2
      <4>3. CASE ~ (stable >= Required)
        <5>1. incident' = [incident EXCEPT !.version = @ + 1]
          BY <2>4, <4>3 DEF Assess
        <5> QED BY <4>1, <5>1 DEF Incident
      <4> QED BY <4>1, <4>2, <4>3
    <3> HIDE DEF new, stable
    <3>5. /\ Len(assessments') = Len(assessments) + 1
          /\ assessments'[Len(assessments')] = new
          /\ \A i \in 1..Len(assessments) : assessments'[i] = assessments[i]
      BY <1>1, <3>3
    <3>6. ASSUME NEW i \in 1..Len(assessments')
          PROVE  Honest(assessments[i])'
      <4>1. Honest(assessments'[i])
        BY <1>1, <3>1, <3>5, <3>6 DEF RecoveryInvariant
      <4> QED BY <2>1, <4>1 DEF Honest, HealthyBetween
    <3>7. ResolvedHasProgress'
      BY <1>1, <3>2, <3>3, <3>4, <3>5 DEF ResolvedHasProgress, LastOf
    <3> QED BY <2>2, <3>6, <3>7 DEF RecoveryInvariant
  <2> QED BY <1>6, <2>3, <2>4 DEF Record
<1>7. CASE Close
  <2>1. incident'.lifecycle # "resolved"
    BY <1>7 DEF Close, RecoveryTypeOK, Incident
  <2> QED BY <1>7, <2>1 DEF Close, RecoveryInvariant, Honest, HealthyBetween,
                            WellFounded, ResolvedHasProgress
<1> QED BY <1>2, <1>3, <1>4, <1>5, <1>6, <1>7 DEF Next

LEMMA RecoveryInvariantAlways == Spec => []RecoveryInvariant
BY RecoveryInvariantInit, RecoveryInvariantStep, RecoveryTypeCorrect, PTL DEF Spec

\* The invariant gives the property.
LEMMA ProgressWasHealthy ==
  ASSUME RecoveryTypeOK, RecoveryInvariant
  PROVE  ResolvedWasHealthy
<1> SUFFICES ASSUME incident.lifecycle = "resolved"
             PROVE  /\ LastOf(assessments).ended >= Required * Window
                    /\ \A t \in (LastOf(assessments).ended - Required * Window + 1)
                                  ..LastOf(assessments).ended :
                         weather[t] = "healthy"
  BY DEF ResolvedWasHealthy
<1> DEFINE last == LastOf(assessments)
<1>1. last \in Assessment /\ Honest(last) /\ last.stable >= Required
  BY DEF RecoveryTypeOK, RecoveryInvariant, ResolvedHasProgress, LastOf
<1>2. /\ last.ended \in Nat /\ last.stable \in Nat
      /\ Required \in Nat /\ Window \in Nat
  BY <1>1, RecoveryAssumption DEF Assessment
<1> DEFINE claimed == last.stable * Window
           required == Required * Window
<1>3. claimed >= required /\ required \in Nat /\ claimed \in Nat
  BY <1>1, <1>2, MoreWindows, OneMoreWindow
<1>4. claimed <= last.ended /\ HealthyBetween(last.ended - claimed, last.ended)
  BY <1>1 DEF Honest
<1> HIDE DEF last, claimed, required
<1>5. /\ last.ended >= required
      /\ \A t \in (last.ended - required + 1)..last.ended : weather[t] = "healthy"
  BY <1>2, <1>3, <1>4 DEF HealthyBetween
<1> QED BY <1>5 DEF last, required

\* ResolvedWasHealthy for every number of verifiers, every window and every
\* number of them: however calls race, die or come late, an Incident is
\* resolved only after that much healthy weather.
THEOREM ResolvedWasHealthyAlways == Spec => []ResolvedWasHealthy
BY RecoveryInvariantAlways, RecoveryTypeCorrect, ProgressWasHealthy, PTL

-----------------------------------------------------------------------------
(* The history of the windows.  Progress chooses the longest streak; the   *)
(* invariant says, of every assessment, that the progress it records is    *)
(* one, so that what is appended last extends it or begins again.          *)

\* The n windows that end with the i-th of a list are satisfied without a gap.
Streak(list, i, n) ==
  \A j \in (i - n + 1)..i :
    /\ list[j].satisfied
    /\ j > i - n + 1 => list[j - 1].ended = list[j].started

\* n is the length of the longest of them.
Longest(list, i, n) ==
  /\ n \in 0..i /\ Streak(list, i, n)
  /\ \A m \in 0..i : Streak(list, i, m) => m <= n

\* HistoryIsSound, strengthened to be inductive.
HistoryInvariant ==
  /\ \A i \in 1..Len(assessments) : Longest(assessments, i, assessments[i].stable)
  /\ \A i \in 2..Len(assessments) : assessments[i - 1].ended <= assessments[i].started

\* There is one longest streak: what CHOOSE takes.
LEMMA LongestIsProgress ==
  ASSUME NEW i \in Nat, NEW n \in Nat, Longest(assessments, i, n)
  PROVE  Progress(i) = n
<1> DEFINE streaks == {m \in 0..i : Streak(assessments, i, m)}
<1>1. n \in streaks /\ \A m \in streaks : m <= n
  BY DEF Longest
<1>2. \A k \in streaks : (\A m \in streaks : m <= k) => k = n
  <2> SUFFICES ASSUME NEW k \in streaks, \A m \in streaks : m <= k
               PROVE  k = n
    OBVIOUS
  <2>1. n <= k /\ k <= n /\ k \in Nat
    BY <1>1
  <2> QED BY <2>1
<1>3. Progress(i) = CHOOSE k \in streaks : \A m \in streaks : m <= k
  BY DEF Progress, Streak
<1> HIDE DEF streaks
<1> QED BY <1>1, <1>2, <1>3

\* What is appended to a list leaves the streaks before it alone ...
LEMMA StreaksStay ==
  ASSUME NEW list \in Seq(Assessment), NEW a \in Assessment,
         NEW i \in 1..Len(list), NEW n \in 0..i
  PROVE  Streak(Append(list, a), i, n) <=> Streak(list, i, n)
<1>1. Len(list) \in Nat /\ i \in Nat /\ n \in Nat
  OBVIOUS
<1>2. \A j \in 1..Len(list) : Append(list, a)[j] = list[j]
  OBVIOUS
<1> DEFINE first == i - n + 1
<1>3. first \in Nat \ {0} /\ first..i \subseteq 1..Len(list)
  BY <1>1
<1> HIDE DEF first
<1>4. ASSUME NEW j \in first..i
      PROVE  /\ Append(list, a)[j] = list[j]
             /\ j > first => Append(list, a)[j - 1] = list[j - 1]
  <2>1. j \in 1..Len(list) /\ (j > first => j - 1 \in 1..Len(list))
    BY <1>1, <1>3
  <2> QED BY <1>2, <2>1
<1> QED BY <1>4 DEF Streak, first

\* ... and a longest streak with it.
LEMMA LongestStays ==
  ASSUME NEW list \in Seq(Assessment), NEW a \in Assessment,
         NEW i \in 1..Len(list), NEW n \in Nat, Longest(list, i, n)
  PROVE  Longest(Append(list, a), i, n)
BY StreaksStay DEF Longest

\* Every streak that ends with the one appended is empty, is that one alone,
\* or joins a streak that ended the list.
LEMMA StreakOfAppended ==
  ASSUME NEW list \in Seq(Assessment), NEW a \in Assessment, NEW m \in 1..(Len(list) + 1)
  PROVE  Streak(Append(list, a), Len(list) + 1, m)
           <=> /\ a.satisfied
               /\ m > 1 => /\ list[Len(list)].ended = a.started
                           /\ Streak(list, Len(list), m - 1)
<1> DEFINE l == Len(list)
           new == Append(list, a)
           first == l - m + 2
<1>1. l \in Nat /\ m \in Nat \ {0} /\ first \in Nat /\ m <= l + 1
  OBVIOUS
<1>2. /\ (l + 1) - m + 1 = first /\ l - (m - 1) + 1 = first
      /\ first >= 1 /\ first <= l + 1 /\ (m > 1 <=> first < l + 1)
  BY <1>1
<1>3. new[l + 1] = a /\ \A j \in 1..l : new[j] = list[j]
  OBVIOUS
<1>4. Streak(new, l + 1, m) <=>
        \A j \in first..(l + 1) : /\ new[j].satisfied
                                  /\ j > first => new[j - 1].ended = new[j].started
  BY <1>2 DEF Streak
<1>5. Streak(list, l, m - 1) <=>
        \A j \in first..l : /\ list[j].satisfied
                            /\ j > first => list[j - 1].ended = list[j].started
  BY <1>2 DEF Streak
<1> HIDE DEF l, new, first
<1>6. ASSUME NEW j \in first..l
      PROVE  new[j] = list[j] /\ (j > first => new[j - 1] = list[j - 1])
  <2>1. j \in 1..l /\ (j > first => j - 1 \in 1..l)
    BY <1>1, <1>2
  <2> QED BY <1>3, <2>1
<1>7. Streak(new, l + 1, m) <=>
        /\ \A j \in first..l : /\ new[j].satisfied
                               /\ j > first => new[j - 1].ended = new[j].started
        /\ new[l + 1].satisfied
        /\ l + 1 > first => new[l].ended = new[l + 1].started
  <2>1. \A j : j \in first..(l + 1) <=> j \in first..l \/ j = l + 1
    BY <1>1, <1>2
  <2>2. (l + 1) - 1 = l
    BY <1>1
  <2> QED BY <1>4, <2>1, <2>2
<1>8. Streak(new, l + 1, m) <=>
        /\ Streak(list, l, m - 1)
        /\ a.satisfied
        /\ m > 1 => list[l].ended = a.started
  <2>1. m > 1 => l \in 1..l
    BY <1>1
  <2> QED BY <1>1, <1>2, <1>3, <1>5, <1>6, <1>7, <2>1
<1>9. m = 1 => Streak(list, l, m - 1)
  <2>1. m = 1 => first..l = {}
    BY <1>1, <1>2
  <2> QED BY <1>5, <2>1
<1> QED BY <1>1, <1>8, <1>9 DEF l, new

\* What is recorded of a window.
LEMMA AssessmentTypes ==
  ASSUME RecoveryTypeOK, NEW i \in 1..Len(assessments)
  PROVE  /\ assessments[i].started \in Nat /\ assessments[i].ended \in Nat
         /\ assessments[i].stable \in Nat /\ assessments[i].satisfied \in BOOLEAN
<1>1. assessments[i] \in Assessment
  BY DEF RecoveryTypeOK
<1> QED BY <1>1 DEF Assessment

LEMMA HistoryInit == Init => HistoryInvariant
BY DEF Init, HistoryInvariant

\* The progress NextStable computes for a new window is the longest streak.
LEMMA NextIsLongest ==
  ASSUME RecoveryTypeOK, HistoryInvariant, NEW a \in Assessment,
         a.stable = NextStable(a.started, a.satisfied)
  PROVE  Longest(Append(assessments, a), Len(assessments) + 1, a.stable)
<1> DEFINE l == Len(assessments)
           new == Append(assessments, a)
           last == LastOf(assessments)
           joins == /\ assessments # <<>> /\ last.satisfied /\ last.ended = a.started
<1>1. /\ assessments \in Seq(Assessment) /\ l \in Nat /\ (assessments # <<>> <=> l > 0)
      /\ last = assessments[l]
  BY DEF RecoveryTypeOK, LastOf
<1>2. a.satisfied \in BOOLEAN
  BY DEF Assessment
<1>3. \A m \in 1..(l + 1) :
        Streak(new, l + 1, m) <=> /\ a.satisfied
                                  /\ m > 1 => /\ last.ended = a.started
                                              /\ Streak(assessments, l, m - 1)
  BY <1>1, StreakOfAppended
<1>4. Streak(new, l + 1, 0)
  BY <1>1 DEF Streak
<1>5. a.stable = IF ~ a.satisfied THEN 0 ELSE IF joins THEN last.stable + 1 ELSE 1
  BY DEF NextStable
<1>6. l > 0 => Longest(assessments, l, last.stable) /\ last.satisfied \in BOOLEAN
  <2> SUFFICES ASSUME l > 0
               PROVE  Longest(assessments, l, last.stable) /\ last.satisfied \in BOOLEAN
    OBVIOUS
  <2>1. l \in 1..l
    BY <1>1
  <2>2. Longest(assessments, l, assessments[l].stable)
    BY <2>1 DEF HistoryInvariant
  <2> QED BY <1>1, <2>1, <2>2, AssessmentTypes
<1>7. l > 0 /\ ~ last.satisfied => \A m \in 1..l : ~ Streak(assessments, l, m)
  <2> SUFFICES ASSUME l > 0, ~ last.satisfied, NEW m \in 1..l, Streak(assessments, l, m)
               PROVE  FALSE
    OBVIOUS
  <2>1. l \in (l - m + 1)..l
    BY <1>1
  <2> QED BY <1>1, <2>1 DEF Streak
<1> HIDE DEF new, last
<1>8. CASE ~ a.satisfied
  <2>1. \A m \in 0..(l + 1) : Streak(new, l + 1, m) => m = 0
    BY <1>1, <1>3, <1>8
  <2> QED BY <1>1, <1>4, <1>5, <1>8, <2>1 DEF Longest, new
<1>9. CASE a.satisfied /\ ~ joins
  <2>1. Streak(new, l + 1, 1)
    BY <1>1, <1>3, <1>9
  <2>2. ASSUME NEW m \in 0..(l + 1), Streak(new, l + 1, m), m > 1
        PROVE  FALSE
    <3>1. last.ended = a.started /\ Streak(assessments, l, m - 1)
      BY <1>1, <1>3, <2>2
    <3>2. l > 0 /\ m - 1 \in 1..l
      BY <1>1, <2>2
    <3> QED BY <1>1, <1>7, <1>9, <3>1, <3>2
  <2>3. a.stable = 1
    BY <1>5, <1>9
  <2> QED BY <1>1, <2>1, <2>2, <2>3 DEF Longest, new
<1>10. CASE a.satisfied /\ joins
  <2>1. l > 0 /\ last.ended = a.started /\ a.stable = last.stable + 1
    BY <1>1, <1>5, <1>10
  <2>2. /\ last.stable \in 0..l /\ Streak(assessments, l, last.stable)
        /\ \A m \in 0..l : Streak(assessments, l, m) => m <= last.stable
    BY <1>6, <2>1 DEF Longest
  <2>3. /\ a.stable \in 1..(l + 1) /\ a.stable - 1 = last.stable
        /\ last.stable \in Nat
    BY <1>1, <2>1, <2>2
  <2>4. Streak(new, l + 1, a.stable)
    BY <1>3, <1>10, <2>1, <2>2, <2>3
  <2>5. ASSUME NEW m \in 0..(l + 1), Streak(new, l + 1, m)
        PROVE  m <= a.stable
    <3>1. CASE m <= 1
      BY <2>3, <3>1
    <3>2. CASE m > 1
      <4>1. Streak(assessments, l, m - 1) /\ m - 1 \in 0..l
        BY <1>1, <1>3, <2>5, <3>2
      <4>2. m - 1 <= last.stable
        BY <2>2, <4>1
      <4> QED BY <2>3, <4>2
    <3> QED BY <3>1, <3>2
  <2> QED BY <1>1, <2>3, <2>4, <2>5 DEF Longest, new
<1> QED BY <1>2, <1>8, <1>9, <1>10

\* Only Record appends to the history, and the store has checked the window.
LEMMA HistoryStep ==
  ASSUME RecoveryTypeOK, HistoryInvariant, [Next]_vars
  PROVE  HistoryInvariant'
<1>1. CASE UNCHANGED assessments
  BY <1>1 DEF HistoryInvariant, Longest, Streak
<1>2. ASSUME NEW v \in Verifiers, Record(v), Accepts(v),
             Assess(verifier[v].started, verifier[v].ended, verifier[v].satisfied)
      PROVE  HistoryInvariant'
  <2> DEFINE stable == NextStable(verifier[v].started, verifier[v].satisfied)
             a == [started |-> verifier[v].started, ended |-> verifier[v].ended,
                   satisfied |-> verifier[v].satisfied, stable |-> stable]
             l == Len(assessments)
  <2>1. assessments' = Append(assessments, a)
    BY <1>2 DEF Assess
  <2>2. assessments \in Seq(Assessment) /\ l \in Nat
    BY DEF RecoveryTypeOK
  <2>3. a \in Assessment
    <3>1. RecoveryTypeOK'
      BY <1>2, RecoveryTypeStep DEF Next
    <3>2. assessments' \in Seq(Assessment) /\ l + 1 \in 1..Len(assessments')
      BY <2>1, <2>2, <3>1 DEF RecoveryTypeOK
    <3>3. assessments'[l + 1] = a
      BY <2>1, <2>2
    <3> QED BY <3>2, <3>3
  <2>4. a.stable = NextStable(a.started, a.satisfied)
    OBVIOUS
  <2>5. ~ Overlaps(a.started)
    BY <1>2 DEF Accepts
  <2> HIDE DEF a, stable
  <2>6. /\ Len(assessments') = l + 1 /\ assessments'[l + 1] = a
        /\ \A i \in 1..l : assessments'[i] = assessments[i]
    BY <2>1, <2>2, <2>3
  <2>7. ASSUME NEW i \in 1..Len(assessments')
        PROVE  Longest(assessments', i, assessments'[i].stable)
    <3>1. CASE i = l + 1
      BY <2>1, <2>3, <2>4, <2>6, <3>1, NextIsLongest
    <3>2. CASE i \in 1..l
      <4>1. Longest(assessments, i, assessments[i].stable)
        BY <3>2 DEF HistoryInvariant
      <4>2. assessments[i].stable \in Nat
        BY <3>2, AssessmentTypes
      <4>3. Longest(Append(assessments, a), i, assessments[i].stable)
        BY <2>2, <2>3, <3>2, <4>1, <4>2, LongestStays
      <4> QED BY <2>1, <2>6, <3>2, <4>3
    <3> QED BY <2>2, <2>6, <3>1, <3>2
  <2>8. ASSUME NEW i \in 2..Len(assessments')
        PROVE  assessments'[i - 1].ended <= assessments'[i].started
    <3>1. CASE i = l + 1
      <4>1. l \in 1..l /\ assessments # <<>> /\ i - 1 = l
        BY <2>2, <2>8, <3>1
      <4>2. assessments[l] \in Assessment /\ ~ (a.started < assessments[l].ended)
        BY <2>2, <2>5, <4>1 DEF Overlaps, LastOf
      <4>3. a.started \in Nat /\ assessments[l].ended \in Nat
        BY <2>3, <4>2 DEF Assessment
      <4>4. assessments[l].ended <= a.started
        BY <4>2, <4>3
      <4> QED BY <2>6, <3>1, <4>1, <4>4
    <3>2. CASE i \in 2..l
      <4>1. i \in 1..l /\ i - 1 \in 1..l
        BY <2>2, <3>2
      <4> QED BY <2>6, <3>2, <4>1 DEF HistoryInvariant
    <3> QED BY <2>2, <2>6, <3>1, <3>2
  <2> QED BY <2>7, <2>8 DEF HistoryInvariant
<1> QED BY <1>1, <1>2 DEF Next, vars, Tick, Read, Observe, Record, Close

\* HistoryIsSound for every number of verifiers and every length of history:
\* whoever recorded a window had read an older record or not, the windows do
\* not overlap, and each records the streak the ones before it make.
THEOREM HistoryIsSoundAlways == Spec => []HistoryIsSound
<1>1. ASSUME RecoveryTypeOK, HistoryInvariant
      PROVE  HistoryIsSound
  <2>1. assessments \in Seq(Assessment) /\ DOMAIN assessments = 1..Len(assessments)
        /\ Len(assessments) \in Nat
    BY <1>1 DEF RecoveryTypeOK
  <2>2. ASSUME NEW i \in DOMAIN assessments
        PROVE  assessments[i].stable = Progress(i)
    <3>1. i \in Nat /\ assessments[i].stable \in Nat
      BY <1>1, <2>1, AssessmentTypes
    <3>2. Longest(assessments, i, assessments[i].stable)
      BY <1>1, <2>1 DEF HistoryInvariant
    <3> QED BY <3>1, <3>2, LongestIsProgress
  <2>3. ASSUME NEW i \in DOMAIN assessments, i > 1
        PROVE  assessments[i - 1].ended <= assessments[i].started
    <3>1. i \in 2..Len(assessments)
      BY <2>1, <2>3
    <3> QED BY <1>1, <3>1 DEF HistoryInvariant
  <2> QED BY <2>2, <2>3 DEF HistoryIsSound
<1>2. Spec => []HistoryInvariant
  BY HistoryInit, HistoryStep, RecoveryTypeCorrect, PTL DEF Spec
<1> QED BY <1>1, <1>2, RecoveryTypeCorrect, PTL
=============================================================================
