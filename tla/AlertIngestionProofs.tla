------------------------ MODULE AlertIngestionProofs ------------------------
(***************************************************************************)
(* Proofs about AlertIngestion for every set of consumers, notifications   *)
(* and workloads, every window and every bound.                            *)
(***************************************************************************)
EXTENDS AlertIngestion, TLAPS

\* What a consumer's own step must see to for its program counter and job.
LEMMA ConsumerTypes ==
  ASSUME IngestionTypeOK, NEW c \in Consumers, NEW p \in Steps, NEW j \in Job,
         pc' = [pc EXCEPT ![c] = p], job' = [job EXCEPT ![c] = j],
         p # "idle" => j.note \in Notifications,
         p \in {"append", "audit", "ack"} => j.inc \in Incidents
  PROVE  /\ pc' \in [Consumers -> Steps]
         /\ job' \in [Consumers -> Job]
         /\ \A d \in Consumers :
              /\ pc'[d] # "idle" => job'[d].note \in Notifications
              /\ pc'[d] \in {"append", "audit", "ack"} => job'[d].inc \in Incidents
<1>1. /\ pc \in [Consumers -> Steps]
      /\ job \in [Consumers -> Job]
      /\ \A d \in Consumers :
           /\ pc[d] # "idle" => job[d].note \in Notifications
           /\ pc[d] \in {"append", "audit", "ack"} => job[d].inc \in Incidents
  BY DEF IngestionTypeOK
<1> QED BY <1>1

\* Every reachable state has the declared types: first step by step.
LEMMA IngestionTypeStep ==
  ASSUME IngestionTypeOK, [Next]_vars
  PROVE  IngestionTypeOK'
<1> USE DEF IngestionTypeOK, incidentVars, enrollmentVars, Goto, Handle, Finish,
            Note, Inc, Job, NoJob, Steps, Fault
<1>1. CASE UNCHANGED vars
  BY <1>1 DEF vars
<1>2. ASSUME NEW c \in Consumers, NEW n \in Notifications, Pull(c, n)
      PROVE  IngestionTypeOK'
  BY <1>2 DEF Pull
<1>3. ASSUME NEW c \in Consumers, NEW n \in Notifications, OpenIncident(c, n)
      PROVE  IngestionTypeOK'
  BY <1>3 DEF OpenIncident, NewIncident, Lifecycles
<1>4. ASSUME NEW c \in Consumers, FindDuplicate(c)
      PROVE  IngestionTypeOK'
<2>1. \/ Goto(c, "correlate") /\ UNCHANGED job
      \/ \E k \in Incidents, p \in {"ack", "audit"} :
           Handle(c, Note(c), k) /\ Goto(c, p)
  BY <1>4 DEF FindDuplicate, Newest
<2>2. /\ pc[c] = "find"
      /\ UNCHANGED <<incidentVars, enrollmentVars, message, attempts, working, faults>>
  BY <1>4 DEF FindDuplicate
<2>3. CASE Goto(c, "correlate") /\ UNCHANGED job
  BY <2>2, <2>3
<2>4. ASSUME NEW k \in Incidents, NEW p \in {"ack", "audit"},
             Handle(c, Note(c), k), Goto(c, p)
      PROVE  IngestionTypeOK'
  <3>1. [note |-> Note(c), inc |-> k] \in Job /\ p \in Steps
    BY <2>2
  <3> HIDE DEF Job, Steps, NoJob
  <3>2. /\ [note |-> Note(c), inc |-> k].note \in Notifications
        /\ [note |-> Note(c), inc |-> k].inc \in Incidents
    BY <2>2
  <3> QED BY <2>2, <2>4, <3>1, <3>2, ConsumerTypes
<2> QED BY <2>1, <2>3, <2>4
<1>5. ASSUME NEW c \in Consumers, Correlate(c)
      PROVE  IngestionTypeOK'
<2>1. \/ \E k \in Incidents : Handle(c, Note(c), k) /\ Goto(c, "append")
      \/ Goto(c, "create") /\ UNCHANGED job
      \/ Finish(c)
  BY <1>5 DEF Correlate, Newest
<2>2. /\ pc[c] = "correlate"
      /\ UNCHANGED <<incidentVars, enrollmentVars, message, attempts, working, faults>>
  BY <1>5 DEF Correlate
<2>3. CASE Goto(c, "create") /\ UNCHANGED job
  BY <2>2, <2>3
<2>4. ASSUME NEW k \in Incidents, Handle(c, Note(c), k), Goto(c, "append")
      PROVE  IngestionTypeOK'
  <3>1. [note |-> Note(c), inc |-> k] \in Job /\ "append" \in Steps
    BY <2>2
  <3> HIDE DEF Job, Steps, NoJob
  <3>2. /\ [note |-> Note(c), inc |-> k].note \in Notifications
        /\ [note |-> Note(c), inc |-> k].inc \in Incidents
    BY <2>2
  <3> QED BY <2>2, <2>4, <3>1, <3>2, ConsumerTypes
<2>5. CASE Finish(c)
  BY <2>2, <2>5
<2> QED BY <2>1, <2>3, <2>4, <2>5
<1>6. ASSUME NEW c \in Consumers, Create(c)
      PROVE  IngestionTypeOK'
  BY <1>6 DEF Create, NewIncident, Lifecycles
<1>7. ASSUME NEW c \in Consumers, AppendSignal(c)
      PROVE  IngestionTypeOK'
<2>1. /\ pc[c] = "append" /\ Note(c) \in Notifications /\ Inc(c) \in Incidents
      /\ UNCHANGED <<opener, lifecycle, audited, enrollmentVars, message, attempts, working, faults>>
  BY <1>7 DEF AppendSignal
<2>2. signals' \in [Incidents -> Seq(Notifications)]
  <3>1. Append(signals[Inc(c)], Note(c)) \in Seq(Notifications)
    BY <2>1
  <3>2. \/ UNCHANGED signals
        \/ signals' = [signals EXCEPT ![Inc(c)] = Append(@, Note(c))]
    BY <1>7 DEF AppendSignal
  <3> QED BY <3>1, <3>2
<2>3. Finish(c) \/ (Goto(c, "audit") /\ UNCHANGED job)
  BY <1>7 DEF AppendSignal
<2>4. CASE Finish(c)
  BY <2>1, <2>2, <2>4
<2>5. CASE Goto(c, "audit") /\ UNCHANGED job
  BY <2>1, <2>2, <2>5
<2> QED BY <2>3, <2>4, <2>5
<1>8. ASSUME NEW c \in Consumers, Audit(c)
      PROVE  IngestionTypeOK'
  BY <1>8 DEF Audit
<1>9. ASSUME NEW c \in Consumers, Acknowledge(c)
      PROVE  IngestionTypeOK'
<2>1. /\ pc[c] = "ack" /\ Note(c) \in Notifications
      /\ Finish(c) /\ UNCHANGED <<incidentVars, enrollmentVars, attempts, working>>
  BY <1>9 DEF Acknowledge
<2>2. message' \in [Notifications -> {"pending", "acked"}]
  BY <1>9, <2>1 DEF Acknowledge
<2>3. faults' \in Nat
  BY <1>9 DEF Acknowledge
<2> QED BY <2>1, <2>2, <2>3
<1>10. ASSUME NEW c \in Consumers, Abort(c)
       PROVE  IngestionTypeOK'
  BY <1>10 DEF Abort
<1>11. ASSUME NEW k \in Incidents, Close(k)
       PROVE  IngestionTypeOK'
  BY <1>11 DEF Close, Lifecycles
<1>12. ASSUME NEW c \in Consumers, Check(c)
       PROVE  IngestionTypeOK'
<2>1. /\ pc[c] = "check" /\ Note(c) \in Notifications
      /\ UNCHANGED <<incidentVars, cluster, message, attempts, working, faults>>
  BY <1>12 DEF Check
<2>2. CASE Goto(c, "find") /\ UNCHANGED <<job, refused>>
  BY <2>1, <2>2
<2>3. CASE Finish(c) /\ refused' = [refused EXCEPT ![Note(c)] = @ + 1]
  BY <2>1, <2>3
<2> QED BY <1>12, <2>2, <2>3 DEF Check
<1>13. ASSUME NEW f \in Volatile, Administer(f)
       PROVE  IngestionTypeOK'
  BY <1>13, IngestionAssumption DEF Administer
<1>14. ASSUME NEW c \in Consumers, PullFails(c) \/ Restart(c)
       PROVE  IngestionTypeOK'
  BY <1>14 DEF PullFails, Restart
<1> QED
  BY <1>1, <1>2, <1>3, <1>4, <1>5, <1>6, <1>7, <1>8, <1>9, <1>10, <1>11, <1>12, <1>13, <1>14
     DEF Next, Consume

\* Only pc and job change, and no Incident is written.
LEMMA StepWithoutWrite ==
  ASSUME IngestionInvariant, IngestionTypeOK', NEW c \in Consumers,
         UNCHANGED incidentVars,
         \A d \in Consumers \ {c} : pc'[d] = pc[d] /\ job'[d] = job[d],
         pc'[c] = "append" => signals[job'[c].inc] # <<>>,
         StepIsJustified(c)', AcknowledgedIsRecorded'
  PROVE  IngestionInvariant'
<1> USE DEF incidentVars, Note, Inc, Signals
<1>1. ASSUME NEW d \in Consumers, d # c
      PROVE  StepIsJustified(d)'
  <2>1. StepIsJustified(d)
    BY DEF IngestionInvariant
  <2>2. pc[d] = "append" => AppendIsJustified(d)'
    <3>1. ASSUME pc[d] = "append" PROVE AppendIsJustified(d)
      BY <2>1, <3>1 DEF StepIsJustified
    <3>2. ASSUME pc[d] = "append", signals[Inc(d)] = <<>>, AppendIsJustified(d)
          PROVE  AppendIsJustified(d)'
      <4>1. \A e \in Consumers \ {d} : pc[e] = "append" => Inc(e) # Inc(d)
        BY <3>2 DEF AppendIsJustified
      <4>2. \A e \in Consumers \ {d} : pc'[e] = "append" => job'[e].inc # Inc(d)
        BY <1>1, <3>2, <4>1
      <4> QED BY <1>1, <3>2, <4>2 DEF AppendIsJustified
    <3>3. ASSUME signals[Inc(d)] # <<>>, AppendIsJustified(d)
          PROVE  AppendIsJustified(d)'
      BY <1>1, <3>3 DEF AppendIsJustified, WithinWindow, BelongsWith
    <3> QED BY <3>1, <3>2, <3>3
  <2>3. /\ pc'[d] = pc[d] /\ job'[d] = job[d]
        /\ lifecycle' = lifecycle /\ signals' = signals /\ audited' = audited
    BY <1>1
  <2> QED BY <2>1, <2>2, <2>3 DEF StepIsJustified
<1>2. UncreatedIsEmpty' /\ SignalsAreCorrelated'
  BY DEF IngestionInvariant, UncreatedIsEmpty, SignalsAreCorrelated
<1> QED BY <1>1, <1>2 DEF IngestionInvariant

\* An Incident is created, for a notification its creator is to append.
LEMMA StepThatCreates ==
  ASSUME IngestionInvariant, IngestionTypeOK', NEW c \in Consumers,
         NEW n \in Notifications, NEW k \in Incidents, NewIncident(k, n),
         pc[c] \notin {"append", "audit", "ack"},
         Handle(c, n, k), Goto(c, "append"), UNCHANGED <<signals, audited, message>>
  PROVE  IngestionInvariant'
<1> USE DEF Note, Inc, Signals, Handle, Goto
<1>1. /\ IngestionTypeOK
      /\ lifecycle[k] = "none" /\ signals[k] = <<>>
      /\ \A d \in Consumers : pc[d] \in {"append", "audit", "ack"} => Inc(d) # k
  BY DEF IngestionInvariant, UncreatedIsEmpty, NewIncident, StepIsJustified
<1>2. /\ \A j \in Incidents \ {k} : lifecycle'[j] = lifecycle[j] /\ opener'[j] = opener[j]
      /\ lifecycle'[k] = "open" /\ opener'[k] = n
  BY <1>1 DEF NewIncident, IngestionTypeOK
<1>3. /\ pc'[c] = "append" /\ job'[c].note = n /\ job'[c].inc = k
      /\ \A d \in Consumers \ {c} : pc'[d] = pc[d] /\ job'[d] = job[d]
  BY <1>1 DEF IngestionTypeOK
<1>4. StepIsJustified(c)'
  <2>1. AppendIsJustified(c)'
    BY <1>1, <1>2, <1>3 DEF AppendIsJustified
  <2> QED BY <1>2, <1>3, <2>1 DEF StepIsJustified
<1>5. ASSUME NEW d \in Consumers, d # c
      PROVE  StepIsJustified(d)'
  <2>1. StepIsJustified(d) /\ (pc[d] \in {"append", "audit", "ack"} => Inc(d) \in Incidents)
    BY <1>1 DEF IngestionInvariant, IngestionTypeOK
  <2>2. ASSUME pc[d] = "append" PROVE AppendIsJustified(d)'
    <3>1. AppendIsJustified(d) /\ Inc(d) # k /\ Inc(d) \in Incidents
      BY <1>1, <2>1, <2>2 DEF StepIsJustified
    <3>2. opener'[Inc(d)] = opener[Inc(d)] /\ signals' = signals
      BY <1>2, <3>1
    <3>3. CASE signals[Inc(d)] = <<>>
      <4>1. \A e \in Consumers \ {d} : pc'[e] = "append" => job'[e].inc # Inc(d)
        BY <1>3, <3>1, <3>3 DEF AppendIsJustified
      <4> QED BY <1>3, <1>5, <3>1, <3>2, <3>3, <4>1 DEF AppendIsJustified
    <3>4. CASE signals[Inc(d)] # <<>>
      BY <1>3, <1>5, <3>1, <3>2, <3>4 DEF AppendIsJustified, WithinWindow, BelongsWith
    <3> QED BY <3>3, <3>4
  <2>3. pc'[d] = pc[d] /\ job'[d] = job[d] /\ signals' = signals /\ audited' = audited
    BY <1>3, <1>5
  <2>4. pc[d] \in {"append", "audit", "ack"} => lifecycle'[Inc(d)] # "none"
    BY <1>1, <1>2, <2>1 DEF StepIsJustified
  <2> QED BY <2>1, <2>2, <2>3, <2>4 DEF StepIsJustified
<1>6. UncreatedIsEmpty' /\ AcknowledgedIsRecorded'
  BY <1>2 DEF IngestionInvariant, UncreatedIsEmpty, AcknowledgedIsRecorded
<1>7. SignalsAreCorrelated'
  <2>1. \A j \in Incidents \ {k} : opener'[j] = opener[j] /\ signals'[j] = signals[j]
    BY <1>2
  <2>2. DOMAIN signals'[k] = {}
    BY <1>1
  <2> QED BY <2>1, <2>2 DEF IngestionInvariant, SignalsAreCorrelated
<1> QED BY <1>4, <1>5, <1>6, <1>7 DEF IngestionInvariant

\* A signal is appended to the Incident its consumer found or created.
LEMMA StepThatAppends ==
  ASSUME IngestionInvariant, IngestionTypeOK', NEW c \in Consumers,
         pc[c] = "append", AppendSignal(c), Note(c) \notin Signals(Inc(c))
  PROVE  IngestionInvariant'
<1> USE DEF Note, Inc, Handle, Goto, Finish
<1>0. PICK k \in Incidents, n \in Notifications : k = Inc(c) /\ n = Note(c)
  BY DEF IngestionInvariant, IngestionTypeOK
<1> DEFINE len == Len(signals[k])
<1>1. /\ IngestionTypeOK /\ k \in Incidents /\ n \in Notifications
      /\ signals[k] \in Seq(Notifications) /\ len \in Nat
      /\ lifecycle[k] # "none"
      /\ AppendIsJustified(c)
  <2>1. lifecycle[k] # "none" /\ AppendIsJustified(c)
    BY <1>0 DEF IngestionInvariant, StepIsJustified
  <2>2. signals[k] \in Seq(Notifications)
    BY DEF IngestionInvariant, IngestionTypeOK
  <2> QED BY <2>1, <2>2 DEF IngestionInvariant
<1>2. /\ signals' = [signals EXCEPT ![k] = Append(@, n)]
      /\ UNCHANGED <<opener, lifecycle, audited, message>>
  BY <1>0 DEF AppendSignal
<1>3. /\ DOMAIN signals[k] = 1..len
      /\ DOMAIN signals'[k] = 1..(len + 1)
      /\ \A j \in 1..len : signals'[k][j] = signals[k][j]
      /\ signals'[k][len + 1] = n
      /\ \A j \in Incidents \ {k} : signals'[j] = signals[j]
  BY <1>1, <1>2 DEF IngestionTypeOK
<1>4. /\ signals'[k] # <<>> /\ n \in Signals(k)'
      /\ \A j \in Incidents : Signals(j) \subseteq Signals(j)'
  <2>1. signals'[k] # <<>> /\ n \in Signals(k)'
    BY <1>1, <1>3 DEF Signals
  <2>2. \A j \in Incidents : Signals(j) \subseteq Signals(j)'
    BY <1>1, <1>3 DEF Signals
  <2> QED BY <2>1, <2>2
<1>5. /\ \/ pc'[c] = "idle"
         \/ pc'[c] = "audit" /\ job'[c] = job[c]
      /\ \A d \in Consumers \ {c} : pc'[d] = pc[d] /\ job'[d] = job[d]
  BY <1>1 DEF AppendSignal, IngestionTypeOK
<1>6. StepIsJustified(c)'
  BY <1>0, <1>1, <1>2, <1>4, <1>5 DEF StepIsJustified
<1>7. ASSUME NEW d \in Consumers, d # c
      PROVE  StepIsJustified(d)'
  <2>1. /\ StepIsJustified(d)
        /\ pc[d] \in {"append", "audit", "ack"} => Inc(d) \in Incidents
        /\ pc'[d] = pc[d] /\ job'[d] = job[d]
    BY <1>1, <1>5, <1>7 DEF IngestionInvariant, IngestionTypeOK
  <2>2. ASSUME pc[d] = "append" PROVE AppendIsJustified(d)'
    <3>1. AppendIsJustified(d) /\ Inc(d) \in Incidents
      BY <2>1, <2>2 DEF StepIsJustified
    <3>2. ASSUME signals[Inc(d)] = <<>> PROVE AppendIsJustified(d)'
      <4>1. \A e \in Consumers \ {d} : pc[e] = "append" => Inc(e) # Inc(d)
        BY <3>1, <3>2 DEF AppendIsJustified
      <4>2. Inc(d) # k
        BY <1>0, <1>7, <4>1
      <4>3. \A e \in Consumers \ {d} : pc'[e] = "append" => job'[e].inc # Inc(d)
        BY <1>5, <4>1
      <4>4. signals'[Inc(d)] = <<>> /\ opener'[Inc(d)] = Note(d)
        BY <1>2, <1>3, <3>1, <3>2, <4>2 DEF AppendIsJustified
      <4> QED BY <2>1, <4>3, <4>4 DEF AppendIsJustified
    <3>3. ASSUME signals[Inc(d)] # <<>> PROVE AppendIsJustified(d)'
      <4>1. /\ WithinWindow(Note(d), opener'[Inc(d)])
            /\ \E m \in Signals(Inc(d)) : BelongsWith(Note(d), m)
        BY <1>2, <3>1, <3>3 DEF AppendIsJustified
      <4>2. Signals(Inc(d)) \subseteq Signals(Inc(d))'
        <5>1. PICK j \in Incidents : j = Inc(d)
          BY <3>1
        <5>2. Signals(Inc(d))' = Signals(j)'
          BY <2>1, <5>1 DEF Signals
        <5> QED BY <1>4, <5>1, <5>2
      <4>3. signals'[Inc(d)] # <<>>
        <5>1. CASE Inc(d) = k
          BY <1>4, <5>1
        <5>2. CASE Inc(d) # k
          BY <1>3, <3>1, <3>3, <5>2
        <5> QED BY <5>1, <5>2
      <4> QED BY <2>1, <4>1, <4>2, <4>3
              DEF AppendIsJustified, Signals, WithinWindow, BelongsWith
    <3> QED BY <3>2, <3>3
  <2>3. pc[d] \in {"audit", "ack"} => Note(d) \in Signals(Inc(d))'
    BY <1>4, <2>1 DEF StepIsJustified
  <2> QED BY <1>2, <2>1, <2>2, <2>3 DEF StepIsJustified, Signals
<1>8. UncreatedIsEmpty'
  BY <1>1, <1>2, <1>3 DEF IngestionInvariant, UncreatedIsEmpty
<1>9. AcknowledgedIsRecorded'
  <2>1. \A m \in Notifications : message[m] = "acked" =>
          \E j \in Incidents : m \in Signals(j) /\ m \in audited[j]
    BY DEF IngestionInvariant, AcknowledgedIsRecorded
  <2>2. \A m \in Notifications : message'[m] = "acked" =>
          \E j \in Incidents : m \in Signals(j)' /\ m \in audited'[j]
    BY <1>2, <1>4, <2>1
  <2> QED BY <2>2 DEF AcknowledgedIsRecorded
<1>10. SignalsAreCorrelated'
  <2>1. SignalsAreCorrelated
    BY DEF IngestionInvariant
  <2>2. CASE len = 0
    <3>1. signals[k] = <<>> /\ opener[k] = n
      BY <1>0, <1>1, <2>2 DEF AppendIsJustified
    <3> QED BY <1>2, <1>3, <2>1, <2>2, <3>1 DEF SignalsAreCorrelated
  <2>3. CASE len # 0
    <3>1. /\ WithinWindow(n, opener[k])
          /\ \E i \in 1..len : BelongsWith(n, signals[k][i])
      BY <1>0, <1>1, <1>3, <2>3 DEF AppendIsJustified, Signals
    <3> QED BY <1>1, <1>2, <1>3, <2>1, <2>3, <3>1 DEF SignalsAreCorrelated
  <2> QED BY <2>2, <2>3
<1> QED BY <1>6, <1>7, <1>8, <1>9, <1>10 DEF IngestionInvariant

\* What a consumer establishes holds after every step, of itself and of others.
LEMMA IngestionStep ==
  ASSUME IngestionInvariant, [Next]_vars
  PROVE  IngestionInvariant'
<1>1. IngestionTypeOK /\ IngestionTypeOK'
  BY IngestionTypeStep DEF IngestionInvariant
<1> USE DEF Note, Inc, Goto, Handle, Finish, incidentVars
<1>2. CASE UNCHANGED vars
  <2>1. UNCHANGED <<incidentVars, message, pc, job>>
    BY <1>2 DEF vars
  <2> QED
    BY <1>1, <2>1 DEF IngestionInvariant, UncreatedIsEmpty, StepIsJustified,
                      AppendIsJustified, AcknowledgedIsRecorded, SignalsAreCorrelated,
                      Signals, WithinWindow, BelongsWith
<1>3. ASSUME NEW c \in Consumers, UNCHANGED <<incidentVars, message>>,
             NEW p \in Steps, NEW j \in Job,
             pc' = [pc EXCEPT ![c] = p], job' = [job EXCEPT ![c] = j],
             p = "append" => signals[j.inc] # <<>>, StepIsJustified(c)'
      PROVE  IngestionInvariant'
  <2>1. AcknowledgedIsRecorded'
    BY <1>3 DEF IngestionInvariant, AcknowledgedIsRecorded, Signals
  <2>2. /\ pc'[c] = "append" => signals[job'[c].inc] # <<>>
        /\ \A d \in Consumers \ {c} : pc'[d] = pc[d] /\ job'[d] = job[d]
    BY <1>1, <1>3 DEF IngestionTypeOK
  <2> QED BY <1>1, <1>3, <2>1, <2>2, StepWithoutWrite
<1>4. ASSUME NEW c \in Consumers, UNCHANGED <<incidentVars, message>>, Finish(c)
      PROVE  IngestionInvariant'
  <2>1. "idle" \in Steps /\ NoJob \in Job
    BY DEF Steps, Job, NoJob
  <2>2. pc'[c] = "idle"
    BY <1>1, <1>4 DEF IngestionTypeOK
  <2>3. StepIsJustified(c)'
    BY <2>2 DEF StepIsJustified
  <2> QED BY <1>3, <1>4, <2>1, <2>3
<1>5. ASSUME NEW c \in Consumers, NEW n \in Notifications, Pull(c, n)
      PROVE  IngestionInvariant'
  <2>1. [note |-> n, inc |-> Nothing] \in Job /\ "check" \in Steps
    BY DEF Job, Steps
  <2>2. pc'[c] = "check"
    BY <1>1, <1>5 DEF Pull, IngestionTypeOK
  <2>3. StepIsJustified(c)'
    BY <2>2 DEF StepIsJustified
  <2> QED BY <1>3, <1>5, <2>1, <2>3 DEF Pull
<1>6. ASSUME NEW c \in Consumers, NEW n \in Notifications, OpenIncident(c, n)
      PROVE  IngestionInvariant'
  BY <1>1, <1>6, StepThatCreates DEF OpenIncident
<1>7. ASSUME NEW c \in Consumers, FindDuplicate(c)
      PROVE  IngestionInvariant'
  <2>1. pc[c] = "find" /\ UNCHANGED <<incidentVars, message>>
    BY <1>7 DEF FindDuplicate
  <2>2. CASE Goto(c, "correlate") /\ UNCHANGED job
    <3>1. "correlate" \in Steps /\ job[c] \in Job /\ job' = [job EXCEPT ![c] = job[c]]
      BY <1>1, <2>2 DEF Steps, IngestionTypeOK
    <3>2. pc'[c] = "correlate"
      BY <1>1, <2>2 DEF IngestionTypeOK
    <3>3. StepIsJustified(c)'
      BY <3>2 DEF StepIsJustified
    <3> QED BY <1>3, <2>1, <2>2, <3>1, <3>3
  <2>3. ASSUME NEW k \in Incidents, Note(c) \in Signals(k), Handle(c, Note(c), k),
               Goto(c, IF Note(c) \in audited[k] THEN "ack" ELSE "audit")
        PROVE  IngestionInvariant'
    <3> DEFINE p == IF Note(c) \in audited[k] THEN "ack" ELSE "audit"
               j == [note |-> Note(c), inc |-> k]
    <3>1. p \in Steps \ {"append"} /\ j \in Job /\ j.note = Note(c) /\ j.inc = k
      BY <1>1, <2>1 DEF Steps, Job, IngestionTypeOK
    <3>2. pc'[c] = p /\ job'[c] = j
      BY <1>1, <2>3 DEF IngestionTypeOK
    <3>3. lifecycle[k] # "none"
      BY <1>1, <2>3 DEF IngestionInvariant, UncreatedIsEmpty, Signals, IngestionTypeOK
    <3>4. Note(c) \in Signals(k)'
      BY <2>1, <2>3 DEF Signals
    <3>5. StepIsJustified(c)'
      BY <2>1, <2>3, <3>1, <3>2, <3>3, <3>4 DEF StepIsJustified, Signals
    <3> QED BY <1>3, <2>1, <2>3, <3>1, <3>5
  <2>4. \/ Goto(c, "correlate") /\ UNCHANGED job
        \/ \E k \in Incidents :
             /\ Note(c) \in Signals(k) /\ Handle(c, Note(c), k)
             /\ Goto(c, IF Note(c) \in audited[k] THEN "ack" ELSE "audit")
    BY <1>7 DEF FindDuplicate, Newest
  <2> QED BY <2>2, <2>3, <2>4
<1>8. ASSUME NEW c \in Consumers, Correlate(c)
      PROVE  IngestionInvariant'
  <2>1. pc[c] = "correlate" /\ UNCHANGED <<incidentVars, message>>
    BY <1>8 DEF Correlate
  <2>2. CASE Goto(c, "create") /\ UNCHANGED job
    <3>1. "create" \in Steps /\ job[c] \in Job /\ job' = [job EXCEPT ![c] = job[c]]
      BY <1>1, <2>2 DEF Steps, IngestionTypeOK
    <3>2. pc'[c] = "create"
      BY <1>1, <2>2 DEF IngestionTypeOK
    <3>3. StepIsJustified(c)'
      BY <3>2 DEF StepIsJustified
    <3> QED BY <1>3, <2>1, <2>2, <3>1, <3>3
  <2>3. ASSUME NEW k \in Incidents, Correlated(Note(c), k),
               Handle(c, Note(c), k), Goto(c, "append")
        PROVE  IngestionInvariant'
    <3> DEFINE j == [note |-> Note(c), inc |-> k]
    <3>1. "append" \in Steps /\ j \in Job /\ j.note = Note(c) /\ j.inc = k
      BY <1>1, <2>1 DEF Steps, Job, IngestionTypeOK
    <3>2. pc'[c] = "append" /\ job'[c] = j
      BY <1>1, <2>3 DEF IngestionTypeOK
    <3>3. /\ lifecycle[k] # "none" /\ WithinWindow(Note(c), opener[k])
          /\ \E m \in Signals(k) : BelongsWith(Note(c), m)
      BY <2>3 DEF Correlated
    <3>4. signals[k] # <<>>
      BY <3>3 DEF Signals
    <3>5. AppendIsJustified(c)'
      BY <2>1, <3>1, <3>2, <3>3, <3>4
         DEF AppendIsJustified, Signals, WithinWindow, BelongsWith
    <3>6. StepIsJustified(c)'
      BY <2>1, <3>1, <3>2, <3>3, <3>5 DEF StepIsJustified
    <3> QED BY <1>3, <2>1, <2>3, <3>1, <3>4, <3>6
  <2>4. \/ Goto(c, "create") /\ UNCHANGED job
        \/ \E k \in Incidents :
             Correlated(Note(c), k) /\ Handle(c, Note(c), k) /\ Goto(c, "append")
        \/ Finish(c)
    BY <1>8 DEF Correlate, Newest
  <2> QED BY <1>4, <2>1, <2>2, <2>3, <2>4
<1>9. ASSUME NEW c \in Consumers, Create(c)
      PROVE  IngestionInvariant'
  BY <1>1, <1>9, StepThatCreates DEF Create, IngestionTypeOK
<1>10. ASSUME NEW c \in Consumers, AppendSignal(c)
       PROVE  IngestionInvariant'
  <2>1. CASE Note(c) \in Signals(Inc(c))
    BY <1>4, <1>10, <2>1 DEF AppendSignal
  <2>2. CASE Note(c) \notin Signals(Inc(c))
    BY <1>1, <1>10, <2>2, StepThatAppends DEF AppendSignal
  <2> QED BY <2>1, <2>2
<1>11. ASSUME NEW c \in Consumers, Audit(c)
       PROVE  IngestionInvariant'
  <2>1. /\ pc[c] = "audit" /\ UNCHANGED <<opener, lifecycle, signals, message, job>>
        /\ audited' = [audited EXCEPT ![Inc(c)] = @ \cup {Note(c)}]
        /\ pc' = [pc EXCEPT ![c] = "ack"]
    BY <1>11 DEF Audit
  <2>2. /\ Inc(c) \in Incidents /\ Note(c) \in audited'[Inc(c)]
        /\ \A k \in Incidents : audited[k] \subseteq audited'[k]
        /\ pc'[c] = "ack" /\ \A d \in Consumers \ {c} : pc'[d] = pc[d]
    BY <1>1, <2>1 DEF IngestionTypeOK
  <2>3. ASSUME NEW d \in Consumers PROVE StepIsJustified(d)'
    <3>1. StepIsJustified(d) /\ (pc[d] \in {"append", "audit", "ack"} => Inc(d) \in Incidents)
      BY <1>1 DEF IngestionInvariant, IngestionTypeOK
    <3>2. ASSUME pc'[d] = "append" PROVE AppendIsJustified(d)'
      <4>1. pc[d] = "append" /\ AppendIsJustified(d)
        BY <2>2, <3>1, <3>2 DEF StepIsJustified
      <4>2. \A e \in Consumers : pc'[e] = "append" => pc[e] = "append"
        BY <2>2
      <4> QED BY <2>1, <4>1, <4>2
              DEF AppendIsJustified, Signals, WithinWindow, BelongsWith
    <3>3. CASE d = c
      BY <2>1, <2>2, <3>1, <3>3 DEF StepIsJustified, Signals
    <3>4. CASE d # c
      BY <2>1, <2>2, <3>1, <3>2, <3>4 DEF StepIsJustified, Signals
    <3> QED BY <3>3, <3>4
  <2>4. UncreatedIsEmpty' /\ SignalsAreCorrelated'
    BY <2>1 DEF IngestionInvariant, UncreatedIsEmpty, SignalsAreCorrelated
  <2>5. AcknowledgedIsRecorded'
    BY <2>1, <2>2 DEF IngestionInvariant, AcknowledgedIsRecorded, Signals
  <2> QED BY <1>1, <2>3, <2>4, <2>5 DEF IngestionInvariant
<1>12. ASSUME NEW c \in Consumers, Acknowledge(c)
       PROVE  IngestionInvariant'
  <2>1. pc[c] = "ack" /\ Finish(c) /\ UNCHANGED incidentVars
    BY <1>12 DEF Acknowledge
  <2>2. /\ pc'[c] = "idle"
        /\ \A d \in Consumers \ {c} : pc'[d] = pc[d] /\ job'[d] = job[d]
    BY <1>1, <2>1 DEF IngestionTypeOK
  <2>3. StepIsJustified(c)'
    BY <2>2 DEF StepIsJustified
  <2>4. Inc(c) \in Incidents /\ Note(c) \in Signals(Inc(c)) /\ Note(c) \in audited[Inc(c)]
    BY <1>1, <2>1 DEF IngestionInvariant, IngestionTypeOK, StepIsJustified
  <2>5. \A n \in Notifications : message'[n] = "acked" => message[n] = "acked" \/ n = Note(c)
    BY <1>1, <1>12 DEF Acknowledge, IngestionTypeOK
  <2>6. AcknowledgedIsRecorded'
    BY <2>1, <2>4, <2>5 DEF IngestionInvariant, AcknowledgedIsRecorded, Signals
  <2> QED BY <1>1, <2>1, <2>2, <2>3, <2>6, StepWithoutWrite
<1>13. ASSUME NEW c \in Consumers, Abort(c)
       PROVE  IngestionInvariant'
  BY <1>4, <1>13 DEF Abort
<1>14. ASSUME NEW k \in Incidents, Close(k)
       PROVE  IngestionInvariant'
  <2>1. /\ UNCHANGED <<opener, signals, audited, message, pc, job>>
        /\ \A j \in Incidents : lifecycle'[j] = "none" <=> lifecycle[j] = "none"
    BY <1>1, <1>14 DEF Close, IngestionTypeOK
  <2>2. ASSUME NEW c \in Consumers PROVE StepIsJustified(c)'
    <3>1. StepIsJustified(c) /\ (pc[c] \in {"append", "audit", "ack"} => Inc(c) \in Incidents)
      BY <1>1 DEF IngestionInvariant, IngestionTypeOK
    <3>2. AppendIsJustified(c) => AppendIsJustified(c)'
      BY <2>1 DEF AppendIsJustified, Signals, WithinWindow, BelongsWith
    <3> QED BY <2>1, <3>1, <3>2 DEF StepIsJustified, Signals
  <2>3. UncreatedIsEmpty' /\ SignalsAreCorrelated' /\ AcknowledgedIsRecorded'
    BY <2>1 DEF IngestionInvariant, UncreatedIsEmpty, SignalsAreCorrelated,
                AcknowledgedIsRecorded, Signals
  <2> QED BY <1>1, <2>2, <2>3 DEF IngestionInvariant
<1>15. ASSUME NEW c \in Consumers, Check(c)
       PROVE  IngestionInvariant'
  <2>1. CASE Goto(c, "find") /\ UNCHANGED job
    <3>1. "find" \in Steps /\ job[c] \in Job /\ job' = [job EXCEPT ![c] = job[c]]
      BY <1>1, <2>1 DEF Steps, IngestionTypeOK
    <3>2. pc'[c] = "find"
      BY <1>1, <2>1 DEF IngestionTypeOK
    <3>3. StepIsJustified(c)'
      BY <3>2 DEF StepIsJustified
    <3> QED BY <1>3, <1>15, <2>1, <3>1, <3>3 DEF Check
  <2>2. CASE Finish(c)
    BY <1>4, <1>15, <2>2 DEF Check
  <2> QED BY <1>15, <2>1, <2>2 DEF Check
<1>16. ASSUME NEW f \in Volatile, Administer(f)
       PROVE  IngestionInvariant'
  <2>1. UNCHANGED <<incidentVars, message, pc, job>>
    BY <1>16 DEF Administer
  <2> QED
    BY <1>1, <2>1 DEF IngestionInvariant, UncreatedIsEmpty, StepIsJustified,
                      AppendIsJustified, AcknowledgedIsRecorded, SignalsAreCorrelated,
                      Signals, WithinWindow, BelongsWith
<1>17. ASSUME NEW c \in Consumers, PullFails(c) \/ Restart(c)
       PROVE  IngestionInvariant'
  <2>1. UNCHANGED <<incidentVars, message, pc, job>>
    BY <1>17 DEF PullFails, Restart
  <2> QED
    BY <1>1, <2>1 DEF IngestionInvariant, UncreatedIsEmpty, StepIsJustified,
                      AppendIsJustified, AcknowledgedIsRecorded, SignalsAreCorrelated,
                      Signals, WithinWindow, BelongsWith
<1> QED
  BY <1>2, <1>5, <1>6, <1>7, <1>8, <1>9, <1>10, <1>11, <1>12, <1>13, <1>14, <1>15, <1>16, <1>17
     DEF Next, Consume

\* The types hold in every reachable state.
THEOREM IngestionTypeCorrect == Spec => []IngestionTypeOK
<1>1. Init => IngestionTypeOK
  BY IngestionAssumption DEF Init, IngestionTypeOK, Lifecycles, Steps, Job, NoJob
<1> QED BY <1>1, IngestionTypeStep, PTL DEF Spec

\* The inductive invariant holds in every reachable state.
THEOREM IngestionInvariance == Spec => []IngestionInvariant
<1>1. Init => IngestionTypeOK
  BY IngestionAssumption DEF Init, IngestionTypeOK, Lifecycles, Steps, Job, NoJob
<1>2. Init => UncreatedIsEmpty /\ SignalsAreCorrelated
  BY DEF Init, UncreatedIsEmpty, SignalsAreCorrelated
<1>3. Init => AcknowledgedIsRecorded /\ \A c \in Consumers : StepIsJustified(c)
  BY DEF Init, StepIsJustified, AcknowledgedIsRecorded
<1>4. Init => IngestionInvariant
  BY <1>1, <1>2, <1>3 DEF IngestionInvariant
<1> QED BY <1>4, IngestionStep, PTL DEF Spec

\* An acknowledged alert is a signal of an Incident whose audit events name it:
\* consume acknowledges last, and no other delivery takes back what it wrote.
THEOREM AcknowledgedIsRecordedAlways == Spec => []AcknowledgedIsRecorded
<1>1. IngestionInvariant => AcknowledgedIsRecorded
  BY DEF IngestionInvariant
<1> QED BY <1>1, IngestionInvariance, PTL

\* Signals stay correlated although _find_correlated and append_alert_signal
\* are two calls: the Incident found has signals, and they are never taken back.
THEOREM SignalsAreCorrelatedAlways == Spec => []SignalsAreCorrelated
<1>1. IngestionInvariant => SignalsAreCorrelated
  BY DEF IngestionInvariant
<1> QED BY <1>1, IngestionInvariance, PTL
=============================================================================
