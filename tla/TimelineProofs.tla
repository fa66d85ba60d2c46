--------------------------- MODULE TimelineProofs ---------------------------
(***************************************************************************)
(* Proofs about Timeline for every number of callers, pages, attempts and  *)
(* events: the record keeps what its callers were told, and every page     *)
(* hears it without a gap, as TimelineContract promises.                   *)
(***************************************************************************)
EXTENDS Timeline, FiniteSetTheorems, TLAPS

-----------------------------------------------------------------------------
(* Sequences of cursors. *)

LEMMA UpToSequence ==
  ASSUME NEW n \in Nat
  PROVE  /\ UpTo(n) \in Seq(1..n) /\ Len(UpTo(n)) = n
         /\ \A i \in 1..n : UpTo(n)[i] = i
BY DEF UpTo

LEMMA FollowingSequence ==
  ASSUME events \in Seq(Event), NEW c \in Nat, c <= Len(events)
  PROVE  /\ Following(c) \in Seq(1..Len(events))
         /\ Len(Following(c)) = Len(events) - c
         /\ \A i \in 1..(Len(events) - c) : Following(c)[i] = c + i
<1> DEFINE n == Len(events)
<1>1. n \in Nat /\ c <= n
  OBVIOUS
<1>2. /\ UpTo(n) \in Seq(1..n) /\ Len(UpTo(n)) = n
      /\ \A i \in 1..n : UpTo(n)[i] = i
  BY <1>1, UpToSequence
<1> HIDE DEF n
<1> DEFINE s == SubSeq(UpTo(n), c + 1, n)
           m == n - c
           shifted == [i \in 1..m |-> c + i]
<1>3. m \in Nat /\ \A i \in 1..m : c + i \in 1..n
  BY <1>1
<1>4. s = shifted
  BY <1>1, <1>2
<1> HIDE DEF m
<1>5. shifted \in Seq(1..n) /\ Len(shifted) = m
  BY <1>3
<1>6. \A i \in 1..m : s[i] = c + i
  BY <1>4
<1>7. Following(c) = s
  BY DEF Following, n
<1> HIDE DEF s, shifted
<1> QED BY <1>4, <1>5, <1>6, <1>7 DEF n, m

-----------------------------------------------------------------------------
(* The store. *)

\* The types of the store, and why no identifier is recorded twice: a commit
\* appends to the document its callback has looked at.
StoreOK ==
  /\ events \in Seq(Event)
  /\ call \in [Callers -> Call \cup {Idle}]
  /\ issued \in 0..MaxEvents
  /\ faults \in 0..MaxFaults
  /\ told \subseteq 1..issued
  /\ \A i \in DOMAIN events : events[i].id <= issued
  /\ \A w \in Callers : call[w].step = "commit" => call[w].event.id <= issued
  /\ AcknowledgedIsKept

LEMMA StoreInit == Init => StoreOK
BY TimelineAssumption DEF Init, StoreOK, AcknowledgedIsKept, Idle

\* A call that is not idle is a transaction.
LEMMA Committing ==
  ASSUME StoreOK, NEW w \in Callers, call[w].step = "commit"
  PROVE  /\ call[w] \in Call /\ call[w].event \in Event
         /\ call[w].event.id \in 1..issued /\ call[w].read \in Seq(Event)
<1>1. call[w] \in Call \cup {Idle}
  BY DEF StoreOK
<1>2. call[w] # Idle
  BY DEF Idle
<1>3. call[w] \in Call
  BY <1>1, <1>2
<1>4. call[w].event \in Event /\ call[w].read \in Seq(Event)
  BY <1>3 DEF Call
<1>5. call[w].event.id \in 1..MaxEvents
  BY <1>4 DEF Event
<1> QED BY <1>3, <1>4, <1>5 DEF StoreOK

\* A transaction that starts over has read the document as it is.
LEMMA StartsOver ==
  ASSUME StoreOK, NEW w \in Callers, call[w].step = "commit", Retries(w),
         NEW read \in Seq(Event)
  PROVE  LET again == [call[w] EXCEPT !.read = read, !.tries = @ + 1]
         IN  again \in Call /\ again.event = call[w].event
<1> DEFINE again == [call[w] EXCEPT !.read = read, !.tries = @ + 1]
<1>1. call[w] \in Call
  BY Committing
<1>2. call[w].tries + 1 \in 1..MaxAttempts
  BY <1>1, TimelineAssumption DEF Call, Retries
<1>3. again \in Call
  BY <1>1, <1>2 DEF Call
<1>4. again.event = call[w].event
  BY <1>1 DEF Call
<1> QED BY <1>3, <1>4

\* A commit, with or without an answer, adds one event that was not there.
LEMMA CommitAppends ==
  ASSUME StoreOK, NEW w \in Callers, call[w].step = "commit", ~ Exists(w), Commits(w),
         events' = Append(call[w].read, call[w].event), issued' = issued,
         told' \subseteq told \cup {call[w].event.id}
  PROVE  /\ events' = Append(events, call[w].event)
         /\ events' \in Seq(Event)
         /\ told' \subseteq 1..issued
         /\ \A i \in DOMAIN events' : events'[i].id <= issued
         /\ AcknowledgedIsKept'
<1> DEFINE e == call[w].event
<1>1. e \in Event /\ e.id \in 1..issued
  BY Committing
<1>2. /\ events \in Seq(Event) /\ Len(events) \in Nat /\ DOMAIN events = 1..Len(events)
      /\ \A i \in DOMAIN events : events[i].id <= issued
      /\ issued \in Nat /\ told \subseteq 1..issued
      /\ \A id \in told : \E i \in DOMAIN events : events[i].id = id
      /\ \A i, j \in DOMAIN events : events[i].id = events[j].id => i = j
  BY TimelineAssumption DEF StoreOK, AcknowledgedIsKept
<1>3. events' = Append(events, e) /\ \A i \in DOMAIN events : events[i].id # e.id
  BY DEF Commits, Exists
<1> HIDE DEF e
<1>4. /\ events' \in Seq(Event) /\ DOMAIN events' = 1..(Len(events) + 1)
      /\ \A i \in 1..Len(events) : events'[i] = events[i]
      /\ events'[Len(events) + 1] = e
  BY <1>1, <1>2, <1>3
<1>5. \A id \in told' : \E i \in DOMAIN events' : events'[i].id = id
  <2> SUFFICES ASSUME NEW id \in told'
               PROVE  \E i \in DOMAIN events' : events'[i].id = id
    OBVIOUS
  <2>1. CASE id \in told
    <3>1. PICK i \in DOMAIN events : events[i].id = id
      BY <1>2, <2>1
    <3> QED BY <1>2, <1>4, <3>1
  <2>2. CASE id = e.id
    BY <1>2, <1>4, <2>2
  <2> QED BY <2>1, <2>2 DEF e
<1>6. \A i, j \in DOMAIN events' : events'[i].id = events'[j].id => i = j
  <2> SUFFICES ASSUME NEW i \in DOMAIN events', NEW j \in DOMAIN events',
                      events'[i].id = events'[j].id
               PROVE  i = j
    OBVIOUS
  <2>1. CASE i \in 1..Len(events) /\ j \in 1..Len(events)
    BY <1>2, <1>4, <2>1
  <2>2. CASE i = Len(events) + 1 \/ j = Len(events) + 1
    BY <1>2, <1>3, <1>4, <2>2
  <2> QED BY <1>2, <1>4, <2>1, <2>2
<1> QED BY <1>1, <1>2, <1>3, <1>4, <1>5, <1>6 DEF AcknowledgedIsKept, e

\* What a step does to the record: nothing, or one more event.
Grows == \/ events' = events
         \/ \E e \in Event : events' = Append(events, e)

LEMMA StoreKeeps ==
  ASSUME StoreOK, [Next]_vars
  PROVE  StoreOK' /\ Grows
<1>1. /\ call \in [Callers -> Call \cup {Idle}] /\ issued \in Nat /\ faults \in Nat
      /\ MaxEvents \in Nat /\ MaxFaults \in Nat
      /\ \A w \in Callers : call[w].step = "commit" => call[w].event.id <= issued
      /\ Idle.step # "commit"
  BY TimelineAssumption DEF StoreOK, Idle
<1>2. Fault => faults' \in 0..MaxFaults
  BY <1>1 DEF Fault
<1>3. ASSUME UNCHANGED storeVars, faults' \in 0..MaxFaults
      PROVE  StoreOK' /\ Grows
  BY <1>3 DEF storeVars, StoreOK, AcknowledgedIsKept, Grows
<1>4. faults \in 0..MaxFaults
  BY DEF StoreOK
<1>5. CASE UNCHANGED vars
  BY <1>3, <1>4, <1>5 DEF vars, storeVars
<1>6. ASSUME NEW w \in Callers, NEW type \in Types, Begin(w, type)
      PROVE  StoreOK' /\ Grows
  <2> DEFINE e == [id |-> issued + 1, type |-> type]
             new == [step |-> "commit", event |-> e, read |-> events, tries |-> 1]
  <2>1. issued' = issued + 1 /\ issued' \in 0..MaxEvents /\ issued + 1 \in 1..MaxEvents
    BY <1>1, <1>6 DEF Begin, StoreOK
  <2>2. e \in Event
    BY <2>1, Zenon DEF Event
  <2>3. new \in Call /\ new.event.id = issued + 1
    BY <2>2, TimelineAssumption DEF Call, StoreOK
  <2>4. call' = [call EXCEPT ![w] = new]
    BY <1>6 DEF Begin
  <2> HIDE DEF new
  <2>5. call' \in [Callers -> Call \cup {Idle}]
    BY <1>1, <2>3, <2>4
  <2>6. \A u \in Callers : call'[u].step = "commit" => call'[u].event.id <= issued'
    <3> SUFFICES ASSUME NEW u \in Callers, call'[u].step = "commit"
                 PROVE  call'[u].event.id <= issued'
      OBVIOUS
    <3>1. CASE u = w
      BY <1>1, <2>1, <2>3, <2>4, <3>1
    <3>2. CASE u # w
      <4>1. call'[u] = call[u]
        BY <1>1, <2>4, <3>2
      <4>2. call[u].event.id \in 1..issued
        BY <4>1, Committing
      <4> QED BY <1>1, <2>1, <4>1, <4>2
    <3> QED BY <3>1, <3>2
  <2>7. \A i \in DOMAIN events : events[i].id \in Nat
    <3>1. \A i \in DOMAIN events : events[i] \in Event
      BY DEF StoreOK
    <3>2. \A o \in Event : o.id \in Nat
      BY <1>1 DEF Event
    <3> QED BY <3>1, <3>2
  <2>8. UNCHANGED <<events, told, faults>>
    BY <1>6 DEF Begin
  <2>9. /\ told' \subseteq 1..issued'
        /\ \A i \in DOMAIN events' : events'[i].id <= issued'
    BY <1>1, <2>1, <2>7, <2>8 DEF StoreOK
  <2> QED BY <2>1, <2>5, <2>6, <2>8, <2>9 DEF StoreOK, AcknowledgedIsKept, Grows
<1>7. ASSUME NEW w \in Callers, call' = [call EXCEPT ![w] = Idle], UNCHANGED issued
      PROVE  /\ call' \in [Callers -> Call \cup {Idle}]
             /\ \A u \in Callers : call'[u].step = "commit" => call'[u].event.id <= issued'
  BY <1>1, <1>7
<1>8. ASSUME NEW w \in Callers, call[w].step = "commit", Retries(w),
             NEW read \in Seq(Event), UNCHANGED issued,
             call' = [call EXCEPT ![w] = [call[w] EXCEPT !.read = read, !.tries = @ + 1]]
      PROVE  /\ call' \in [Callers -> Call \cup {Idle}]
             /\ \A u \in Callers : call'[u].step = "commit" => call'[u].event.id <= issued'
  <2> DEFINE again == [call[w] EXCEPT !.read = read, !.tries = @ + 1]
  <2>1. again \in Call /\ again.event = call[w].event
    BY <1>8, StartsOver
  <2>2. call' = [call EXCEPT ![w] = again]
    BY <1>8
  <2> HIDE DEF again
  <2> QED BY <1>1, <1>8, <2>1, <2>2
<1>9. ASSUME NEW w \in Callers, Commit(w)
      PROVE  StoreOK' /\ Grows
  <2>1. /\ events' = Append(events, call[w].event) /\ events' \in Seq(Event)
        /\ told' \subseteq 1..issued
        /\ \A i \in DOMAIN events' : events'[i].id <= issued
        /\ AcknowledgedIsKept'
    BY <1>9, CommitAppends DEF Commit
  <2>2. call[w].event \in Event
    BY <1>9, Committing DEF Commit
  <2> QED BY <1>4, <1>7, <1>9, <2>1, <2>2 DEF Commit, StoreOK, Grows
<1>10. ASSUME NEW w \in Callers, CommitUnanswered(w)
       PROVE  StoreOK' /\ Grows
  <2>1. /\ events' = Append(events, call[w].event) /\ events' \in Seq(Event)
        /\ told' \subseteq 1..issued
        /\ \A i \in DOMAIN events' : events'[i].id <= issued
        /\ AcknowledgedIsKept'
    BY <1>10, CommitAppends DEF CommitUnanswered
  <2>2. call[w].event \in Event /\ call[w].step = "commit" /\ issued' = issued
    BY <1>10, Committing DEF CommitUnanswered
  <2>3. /\ call' \in [Callers -> Call \cup {Idle}]
        /\ \A u \in Callers : call'[u].step = "commit" => call'[u].event.id <= issued'
    <3>1. CASE call' = [call EXCEPT ![w] = Idle]
      BY <1>7, <2>2, <3>1
    <3>2. CASE Retries(w) /\ call' = [call EXCEPT ![w].read = events', ![w].tries = @ + 1]
      BY <1>8, <2>1, <2>2, <3>2
    <3> QED BY <1>10, <3>1, <3>2 DEF CommitUnanswered
  <2> QED BY <1>2, <1>10, <2>1, <2>2, <2>3 DEF CommitUnanswered, StoreOK, Grows
<1>11. ASSUME NEW w \in Callers, Conflict(w)
       PROVE  StoreOK' /\ Grows
  <2>1. /\ call[w].step = "commit" /\ events \in Seq(Event)
        /\ UNCHANGED <<events, told, issued, faults>>
    BY <1>11 DEF Conflict, StoreOK
  <2>2. /\ call' \in [Callers -> Call \cup {Idle}]
        /\ \A u \in Callers : call'[u].step = "commit" => call'[u].event.id <= issued'
    <3>1. CASE Retries(w)
      <4>1. call' = [call EXCEPT ![w] = [call[w] EXCEPT !.read = events, !.tries = @ + 1]]
        BY <1>11, <3>1 DEF Conflict
      <4> QED BY <1>8, <2>1, <3>1, <4>1
    <3>2. CASE ~ Retries(w)
      BY <1>7, <1>11, <2>1, <3>2 DEF Conflict
    <3> QED BY <3>1, <3>2
  <2> QED BY <2>1, <2>2 DEF StoreOK, AcknowledgedIsKept, Grows
<1>12. ASSUME NEW w \in Callers, Raise(w)
       PROVE  StoreOK' /\ Grows
  BY <1>7, <1>12 DEF Raise, StoreOK, AcknowledgedIsKept, Grows
<1>13. ASSUME NEW p \in Pages, Load(p) \/ PageStep(p) \/ Disconnect(p) \/ Refuse(p)
       PROVE  StoreOK' /\ Grows
  <2>1. UNCHANGED storeVars
    BY <1>13 DEF Load, PageStep, Disconnect, Refuse, Connect, Poll, Send, Receive,
                 ServeRefresh, Refresh
  <2>2. UNCHANGED faults \/ Fault
    BY <1>13 DEF Load, PageStep, Disconnect, Refuse, Connect, Poll, Send, Receive,
                 ServeRefresh, Refresh
  <2> QED BY <1>2, <1>3, <1>4, <2>1, <2>2
<1> QED
  BY <1>5, <1>6, <1>9, <1>10, <1>11, <1>12, <1>13 DEF Next, StoreStep

LEMMA StoreAlways == Spec => []StoreOK
BY StoreInit, StoreKeeps, PTL DEF Spec

\* What returned is recorded, and nothing twice, whatever conflicts.
THEOREM AcknowledgedIsKeptAlways == Spec => []AcknowledgedIsKept
<1>1. StoreOK => AcknowledgedIsKept
  BY DEF StoreOK
<1> QED BY <1>1, StoreAlways, PTL

\* There are no more events than identifiers.
LEMMA EventsAreIssued ==
  ASSUME StoreOK
  PROVE  Len(events) <= issued /\ Len(events) <= MaxEvents
<1> DEFINE id == [i \in 1..Len(events) |-> events[i].id]
<1>1. /\ Len(events) \in Nat /\ DOMAIN events = 1..Len(events)
      /\ issued \in 0..MaxEvents /\ MaxEvents \in Nat
  BY TimelineAssumption DEF StoreOK
<1>2. \A i \in 1..Len(events) : events[i].id \in 1..issued
  <2> SUFFICES ASSUME NEW i \in 1..Len(events)
               PROVE  events[i].id \in 1..issued
    OBVIOUS
  <2>1. events[i] \in Event
    BY DEF StoreOK
  <2> QED BY <1>1, <2>1 DEF StoreOK, Event
<1>3. id \in Injection(1..Len(events), 1..issued)
  BY <1>1, <1>2 DEF StoreOK, AcknowledgedIsKept, Injection, IsInjective
<1>4. /\ IsFiniteSet(1..issued) /\ Cardinality(1..issued) = issued
      /\ Cardinality(1..Len(events)) = Len(events)
  <2>1. \A k \in Nat : IsFiniteSet(1..k) /\ Cardinality(1..k) = k
    BY FS_Interval
  <2> QED BY <1>1, <2>1
<1>5. Cardinality(1..Len(events)) <= Cardinality(1..issued)
  BY <1>3, <1>4, FS_Injection DEF ExistsInjection
<1> QED BY <1>1, <1>4, <1>5

-----------------------------------------------------------------------------
(* The stream and the page. *)

\* Of a page pg, its stream st and its wire wr, of a record of n events: what
\* was heard, what is on its way and what is to be sent continue each other,
\* from where the page was loaded up to an event that exists.
KnownTo(pg) == pg.after + Len(pg.heard)

Continues(pg, st, wr, n) ==
  /\ \A i \in 1..Len(pg.heard) : pg.heard[i] = pg.after + i
  /\ \A i \in 1..Len(wr) : wr[i] = KnownTo(pg) + i
  /\ KnownTo(pg) + Len(wr) <= n
  /\ st.open =>
       /\ st.cursor = KnownTo(pg) + Len(wr)
       /\ \A i \in 1..Len(st.batch) : st.batch[i] = st.cursor + i
       /\ st.cursor + Len(st.batch) <= n
  /\ ~ st.open => wr = <<>>

Increases(s) == \A i, j \in DOMAIN s : i < j => s[i] < s[j]

\* What is shown is all heard of, or it is the record as a refresh brought it.
Ordered(pg) ==
  /\ Increases(pg.shown)
  /\ \/ \A i \in DOMAIN pg.shown : pg.shown[i] <= KnownTo(pg)
     \/ pg.shown = UpTo(Len(pg.shown))

PagesOK ==
  /\ page \in [Pages -> Page]
  /\ stream \in [Pages -> Stream]
  /\ wire \in [Pages -> Seq(Cursors)]
  /\ fetched \in [Pages -> SUBSET (0..MaxEvents)]
  /\ \A p \in Pages :
       /\ Continues(page[p], stream[p], wire[p], Len(events))
       /\ Ordered(page[p])
       /\ \A n \in fetched[p] : n <= Len(events)

LEMMA PageTypes ==
  ASSUME NEW pg \in Page
  PROVE  /\ pg.after \in Nat /\ pg.after \in 0..MaxEvents
         /\ pg.heard \in Seq(Cursors) /\ Len(pg.heard) \in Nat /\ KnownTo(pg) \in Nat
         /\ pg.shown \in Seq(Cursors) /\ Len(pg.shown) \in Nat
         /\ pg.loaded \in BOOLEAN
         /\ DOMAIN pg.shown = 1..Len(pg.shown)
         /\ \A i \in DOMAIN pg.shown : pg.shown[i] \in Nat
<1>1. /\ pg.after \in 0..MaxEvents /\ pg.heard \in Seq(Cursors)
      /\ pg.shown \in Seq(Cursors) /\ pg.loaded \in BOOLEAN
  BY DEF Page
<1>2. pg.after \in Nat /\ Cursors \subseteq Nat
  BY <1>1, TimelineAssumption DEF Cursors
<1>3. Len(pg.heard) \in Nat /\ Len(pg.shown) \in Nat /\ DOMAIN pg.shown = 1..Len(pg.shown)
  BY <1>1
<1>4. \A i \in DOMAIN pg.shown : pg.shown[i] \in Nat
  <2>1. \A i \in DOMAIN pg.shown : pg.shown[i] \in Cursors
    BY <1>1
  <2> QED BY <1>2, <2>1
<1>5. KnownTo(pg) \in Nat
  BY <1>2, <1>3 DEF KnownTo
<1> QED BY <1>1, <1>2, <1>3, <1>4, <1>5

LEMMA StreamTypes ==
  ASSUME NEW st \in Stream
  PROVE  /\ st.open \in BOOLEAN /\ st.over \in BOOLEAN /\ st.cursor \in Nat
         /\ st.batch \in Seq(Cursors) /\ Len(st.batch) \in Nat
BY TimelineAssumption DEF Stream, Cursors

\* The order of the record as it was read.
LEMMA RecordIsOrdered ==
  ASSUME NEW n \in Nat
  PROVE  Increases(UpTo(n)) /\ UpTo(n) = UpTo(Len(UpTo(n)))
BY UpToSequence DEF Increases

LEMMA PagesInit == Init => PagesOK
<1> SUFFICES ASSUME Init
             PROVE  PagesOK
  OBVIOUS
<1>1. Unloaded \in Page /\ Closed \in Stream
  BY TimelineAssumption DEF Unloaded, Closed, Page, Stream, Cursors
<1>2. Continues(Unloaded, Closed, <<>>, 0) /\ Ordered(Unloaded)
  BY DEF Unloaded, Closed, Continues, Ordered, Increases, KnownTo
<1>3. Len(events) = 0
  BY DEF Init
<1> QED BY <1>1, <1>2, <1>3 DEF Init, PagesOK

\* More events disturb nothing.
LEMMA ContinuesOn ==
  ASSUME NEW pg \in Page, NEW st \in Stream, NEW wr \in Seq(Cursors),
         NEW n \in Nat, NEW m \in Nat, n <= m, Continues(pg, st, wr, n)
  PROVE  Continues(pg, st, wr, m)
BY PageTypes, StreamTypes DEF Continues

\* A page that keeps its own state keeps what is said of it.
LEMMA PagesUntouched ==
  ASSUME StoreOK, PagesOK, Grows, UNCHANGED <<page, stream, wire, fetched>>
  PROVE  PagesOK'
<1>1. /\ Len(events) \in Nat /\ Len(events') \in Nat /\ Len(events) <= Len(events')
  BY DEF StoreOK, Grows
<1>2. ASSUME NEW p \in Pages
      PROVE  /\ Continues(page[p], stream[p], wire[p], Len(events'))
             /\ \A n \in fetched[p] : n <= Len(events')
  <2>1. /\ page[p] \in Page /\ stream[p] \in Stream /\ wire[p] \in Seq(Cursors)
        /\ fetched[p] \subseteq Nat
        /\ Continues(page[p], stream[p], wire[p], Len(events))
        /\ \A n \in fetched[p] : n <= Len(events)
    BY TimelineAssumption DEF PagesOK
  <2> QED BY <1>1, <2>1, ContinuesOn
<1> QED BY <1>2 DEF PagesOK

\* A step of one page, by what it makes of that page.
LEMMA PageTouched ==
  ASSUME PagesOK, UNCHANGED events, NEW p \in Pages,
         NEW pg \in Page, NEW st \in Stream, NEW wr \in Seq(Cursors),
         NEW fe \in SUBSET (0..MaxEvents),
         page' = [page EXCEPT ![p] = pg], stream' = [stream EXCEPT ![p] = st],
         wire' = [wire EXCEPT ![p] = wr], fetched' = [fetched EXCEPT ![p] = fe],
         Continues(pg, st, wr, Len(events)), Ordered(pg),
         \A n \in fe : n <= Len(events)
  PROVE  PagesOK'
<1>1. /\ page' \in [Pages -> Page] /\ stream' \in [Pages -> Stream]
      /\ wire' \in [Pages -> Seq(Cursors)]
      /\ fetched' \in [Pages -> SUBSET (0..MaxEvents)]
  BY DEF PagesOK
<1>2. ASSUME NEW q \in Pages
      PROVE  /\ Continues(page'[q], stream'[q], wire'[q], Len(events'))
             /\ Ordered(page'[q])
             /\ \A n \in fetched'[q] : n <= Len(events')
  <2>1. CASE q = p
    <3>1. page'[q] = pg /\ stream'[q] = st /\ wire'[q] = wr /\ fetched'[q] = fe
      BY <2>1 DEF PagesOK
    <3> QED BY <3>1
  <2>2. CASE q # p
    <3>1. /\ page'[q] = page[q] /\ stream'[q] = stream[q]
          /\ wire'[q] = wire[q] /\ fetched'[q] = fetched[q]
      BY <2>2 DEF PagesOK
    <3> QED BY <3>1 DEF PagesOK
  <2> QED BY <2>1, <2>2
<1> QED BY <1>1, <1>2 DEF PagesOK

\* What page p has before a step.
LEMMA OnePage ==
  ASSUME StoreOK, PagesOK, NEW p \in Pages
  PROVE  /\ page[p] \in Page /\ stream[p] \in Stream /\ wire[p] \in Seq(Cursors)
         /\ fetched[p] \in SUBSET (0..MaxEvents)
         /\ Continues(page[p], stream[p], wire[p], Len(events)) /\ Ordered(page[p])
         /\ \A n \in fetched[p] : n <= Len(events)
         /\ Len(events) \in Nat /\ Len(events) <= MaxEvents /\ MaxEvents \in Nat
         /\ page = [page EXCEPT ![p] = page[p]]
         /\ stream = [stream EXCEPT ![p] = stream[p]]
         /\ wire = [wire EXCEPT ![p] = wire[p]]
         /\ fetched = [fetched EXCEPT ![p] = fetched[p]]
BY EventsAreIssued, TimelineAssumption DEF StoreOK, PagesOK

LEMMA ConnectKeepsPages ==
  ASSUME StoreOK, PagesOK, NEW p \in Pages, Connect(p)
  PROVE  PagesOK'
<1> DEFINE pg == page[p]
           n == Len(events)
           st == [open |-> TRUE, over |-> FALSE, cursor |-> Resumed(p), batch |-> <<>>]
<1>1. /\ pg \in Page /\ Continues(pg, stream[p], wire[p], n) /\ Ordered(pg)
      /\ n \in Nat /\ n <= MaxEvents /\ MaxEvents \in Nat
  BY OnePage
<1>2. /\ pg.after \in Nat /\ Len(pg.heard) \in Nat /\ pg.heard \in Seq(Cursors)
      /\ KnownTo(pg) \in Nat
  BY <1>1, PageTypes
<1>3. wire[p] = <<>>
  BY <1>1, OnePage, StreamTypes DEF Connect, Continues
<1>4. Resumed(p) = KnownTo(pg)
  <2>1. CASE pg.heard = <<>>
    BY <1>2, <2>1 DEF Resumed, LastEventId, KnownTo
  <2>2. CASE pg.heard # <<>>
    <3>1. Len(pg.heard) \in 1..Len(pg.heard)
      BY <1>2, <2>2
    <3>2. LastEventId(p) = pg.after + Len(pg.heard)
      BY <1>1, <2>2, <3>1 DEF Continues, LastEventId
    <3> QED BY <1>2, <3>2 DEF Resumed, KnownTo
  <2> QED BY <2>1, <2>2
<1>5. KnownTo(pg) <= n
  BY <1>1, <1>2, <1>3 DEF Continues
<1>6. st \in Stream
  BY <1>1, <1>2, <1>4, <1>5 DEF Stream
<1>7. Continues(pg, st, <<>>, n)
  BY <1>1, <1>2, <1>4, <1>5 DEF Continues
<1>8. /\ page' = page /\ stream' = [stream EXCEPT ![p] = st] /\ wire' = wire
      /\ fetched' = fetched /\ events' = events
  BY DEF Connect, storeVars
<1>9. wire' = [wire EXCEPT ![p] = <<>>] /\ <<>> \in Seq(Cursors)
  BY <1>3, <1>8, OnePage
<1> HIDE DEF st
<1> QED BY <1>1, <1>6, <1>7, <1>8, <1>9, OnePage, PageTouched

LEMMA PollKeepsPages ==
  ASSUME StoreOK, PagesOK, NEW p \in Pages, Poll(p)
  PROVE  PagesOK'
<1> DEFINE n == Len(events)
           c == stream[p].cursor
           st == [stream[p] EXCEPT !.batch = Following(c)]
<1>1. /\ stream[p] \in Stream /\ Continues(page[p], stream[p], wire[p], n)
      /\ n \in Nat /\ n <= MaxEvents /\ MaxEvents \in Nat
      /\ stream[p].open
  BY OnePage DEF Poll
<1>2. c \in Nat /\ c <= n
  <2>1. c \in Nat /\ Len(stream[p].batch) \in Nat
    BY <1>1, StreamTypes
  <2> QED BY <1>1, <2>1 DEF Continues
<1>3. /\ Following(c) \in Seq(1..n) /\ Len(Following(c)) = n - c
      /\ \A i \in 1..(n - c) : Following(c)[i] = c + i
  BY <1>2, FollowingSequence DEF StoreOK
<1>4. Following(c) \in Seq(Cursors)
  <2>1. 1..n \subseteq Cursors
    BY <1>1 DEF Cursors
  <2>2. \A i \in 1..Len(Following(c)) : Following(c)[i] \in Cursors
    BY <1>3, <2>1
  <2> QED BY <1>3, <2>2
<1>5. st \in Stream /\ st.open /\ st.cursor = c /\ st.batch = Following(c)
  BY <1>1, <1>4 DEF Stream
<1>6. stream' = [stream EXCEPT ![p] = st]
  BY DEF Poll
<1> HIDE DEF st
<1>7. Continues(page[p], st, wire[p], n)
  <2>1. c = KnownTo(page[p]) + Len(wire[p])
    BY <1>1 DEF Continues
  <2>2. c + (n - c) <= n
    BY <1>1, <1>2
  <2> QED BY <1>1, <1>3, <1>5, <2>1, <2>2 DEF Continues
<1>8. page' = page /\ wire' = wire /\ fetched' = fetched /\ events' = events
  BY DEF Poll, storeVars
<1>9. /\ page[p] \in Page /\ wire[p] \in Seq(Cursors)
      /\ fetched[p] \in SUBSET (0..MaxEvents) /\ Ordered(page[p])
      /\ \A m \in fetched[p] : m <= Len(events)
  BY OnePage
<1>10. /\ page' = [page EXCEPT ![p] = page[p]]
       /\ wire' = [wire EXCEPT ![p] = wire[p]]
       /\ fetched' = [fetched EXCEPT ![p] = fetched[p]]
  BY <1>8, OnePage
<1>11. st \in Stream /\ Continues(page[p], st, wire[p], Len(events)) /\ events' = events
  BY <1>5, <1>7, <1>8
<1> HIDE DEF n, c
<1> QED BY <1>6, <1>9, <1>10, <1>11, PageTouched

LEMMA SendKeepsPages ==
  ASSUME StoreOK, PagesOK, NEW p \in Pages, Send(p)
  PROVE  PagesOK'
<1> DEFINE n == Len(events)
           b == stream[p].batch
           st == [stream[p] EXCEPT !.cursor = Head(b), !.batch = Tail(b)]
           wr == Append(wire[p], Head(b))
<1>1. /\ page[p] \in Page /\ stream[p] \in Stream /\ wire[p] \in Seq(Cursors)
      /\ Continues(page[p], stream[p], wire[p], n) /\ n \in Nat
      /\ stream[p].open /\ b # <<>>
  BY OnePage DEF Send
<1>2. /\ KnownTo(page[p]) \in Nat /\ Len(wire[p]) \in Nat
      /\ stream[p].cursor \in Nat /\ b \in Seq(Cursors) /\ Len(b) \in Nat \ {0}
  BY <1>1, PageTypes, StreamTypes
<1>3. /\ Head(b) = b[1] /\ Head(b) \in Cursors /\ Tail(b) \in Seq(Cursors)
      /\ Len(Tail(b)) = Len(b) - 1
      /\ \A i \in 1..(Len(b) - 1) : Tail(b)[i] = b[i + 1]
  BY <1>1, <1>2
<1>4. Head(b) = stream[p].cursor + 1
  BY <1>1, <1>2, <1>3 DEF Continues
<1>5. Head(b) \in 0..MaxEvents
  BY <1>3, TimelineAssumption DEF Cursors
<1>6. st \in Stream /\ st.open /\ st.cursor = Head(b) /\ st.batch = Tail(b)
  BY <1>1, <1>3, <1>5 DEF Stream
<1>7. /\ wr \in Seq(Cursors) /\ Len(wr) = Len(wire[p]) + 1
      /\ wr[Len(wire[p]) + 1] = Head(b)
      /\ \A i \in 1..Len(wire[p]) : wr[i] = wire[p][i]
  BY <1>1, <1>2, <1>3
<1>8. stream' = [stream EXCEPT ![p] = st] /\ wire' = [wire EXCEPT ![p] = wr]
  BY DEF Send
<1> HIDE DEF st, wr, b
<1>9. Continues(page[p], st, wr, n)
  <2> DEFINE k == KnownTo(page[p])
             l == Len(wire[p])
             c == stream[p].cursor
  <2>1. /\ c = k + l /\ c + Len(b) <= n
        /\ \A i \in 1..l : wire[p][i] = k + i
        /\ \A i \in 1..Len(b) : b[i] = c + i
        /\ \A i \in 1..Len(page[p].heard) : page[p].heard[i] = page[p].after + i
    BY <1>1 DEF Continues, b
  <2>2. k \in Nat /\ l \in Nat /\ c \in Nat /\ Len(b) \in Nat \ {0} /\ n \in Nat
    BY <1>1, <1>2
  <2> HIDE DEF k, l, c, n
  <2>3. \A i \in 1..Len(wr) : wr[i] = k + i
    <3> SUFFICES ASSUME NEW i \in 1..Len(wr)
                 PROVE  wr[i] = k + i
      OBVIOUS
    <3>1. Len(wr) = l + 1 /\ wr[l + 1] = c + 1
      BY <1>4, <1>7 DEF l, c
    <3>2. CASE i = l + 1
      BY <2>1, <2>2, <3>1, <3>2
    <3>3. CASE i \in 1..l
      BY <1>7, <2>1, <3>3 DEF l
    <3> QED BY <2>2, <3>1, <3>2, <3>3
  <2>4. \A i \in 1..Len(st.batch) : st.batch[i] = st.cursor + i
    <3> SUFFICES ASSUME NEW i \in 1..(Len(b) - 1)
                 PROVE  Tail(b)[i] = (c + 1) + i
      BY <1>3, <1>4, <1>6 DEF c
    <3>1. i + 1 \in 1..Len(b)
      BY <2>2
    <3>2. Tail(b)[i] = b[i + 1] /\ b[i + 1] = c + (i + 1)
      BY <1>3, <2>1, <3>1
    <3> QED BY <2>2, <3>2
  <2>5. /\ st.cursor = c + 1 /\ Len(st.batch) = Len(b) - 1 /\ Len(wr) = l + 1
    BY <1>3, <1>4, <1>6, <1>7 DEF c, l
  <2>6. /\ st.cursor = k + Len(wr) /\ k + Len(wr) <= n
        /\ st.cursor + Len(st.batch) <= n
    BY <2>1, <2>2, <2>5
  <2> QED BY <1>6, <2>1, <2>3, <2>4, <2>6 DEF Continues, k
<1>10. page' = page /\ fetched' = fetched /\ events' = events
  BY DEF Send, storeVars
<1>11. /\ page' = [page EXCEPT ![p] = page[p]]
       /\ fetched' = [fetched EXCEPT ![p] = fetched[p]]
       /\ fetched[p] \in SUBSET (0..MaxEvents) /\ Ordered(page[p])
       /\ \A m \in fetched[p] : m <= Len(events)
  BY <1>10, OnePage
<1>12. /\ page[p] \in Page /\ st \in Stream /\ wr \in Seq(Cursors)
       /\ Continues(page[p], st, wr, Len(events)) /\ events' = events
  BY <1>1, <1>6, <1>7, <1>9, <1>10
<1> HIDE DEF n
<1> QED BY <1>8, <1>11, <1>12, PageTouched

LEMMA DisconnectKeepsPages ==
  ASSUME StoreOK, PagesOK, NEW p \in Pages, Disconnect(p)
  PROVE  PagesOK'
<1>1. /\ page[p] \in Page /\ wire[p] \in Seq(Cursors) /\ Len(events) \in Nat
      /\ Continues(page[p], stream[p], wire[p], Len(events))
  BY OnePage
<1>2. KnownTo(page[p]) \in Nat /\ Len(wire[p]) \in Nat
  BY <1>1, PageTypes
<1>3. Closed \in Stream /\ <<>> \in Seq(Cursors)
  BY TimelineAssumption DEF Closed, Stream
<1>4. Continues(page[p], Closed, <<>>, Len(events))
  BY <1>1, <1>2 DEF Continues, Closed
<1>5. /\ page' = page /\ stream' = [stream EXCEPT ![p] = Closed]
      /\ wire' = [wire EXCEPT ![p] = <<>>] /\ fetched' = fetched /\ events' = events
  BY DEF Disconnect, storeVars
<1>6. /\ page' = [page EXCEPT ![p] = page[p]]
      /\ fetched' = [fetched EXCEPT ![p] = fetched[p]]
      /\ fetched[p] \in SUBSET (0..MaxEvents) /\ Ordered(page[p])
      /\ \A m \in fetched[p] : m <= Len(events)
  BY <1>5, OnePage
<1> QED BY <1>1, <1>3, <1>4, <1>5, <1>6, PageTouched

LEMMA RefuseKeepsPages ==
  ASSUME StoreOK, PagesOK, NEW p \in Pages, Refuse(p)
  PROVE  PagesOK'
<1> DEFINE st == [stream[p] EXCEPT !.over = TRUE]
<1>1. /\ page[p] \in Page /\ stream[p] \in Stream /\ wire[p] \in Seq(Cursors)
      /\ Continues(page[p], stream[p], wire[p], Len(events)) /\ Ordered(page[p])
      /\ \A m \in fetched[p] : m <= Len(events)
      /\ fetched[p] \in SUBSET (0..MaxEvents)
  BY OnePage
<1>2. /\ st \in Stream /\ st.open = stream[p].open /\ st.cursor = stream[p].cursor
      /\ st.batch = stream[p].batch
  BY <1>1 DEF Stream
<1>3. Continues(page[p], st, wire[p], Len(events))
  BY <1>1, <1>2 DEF Continues
<1>4. /\ page' = page /\ stream' = [stream EXCEPT ![p] = st] /\ wire' = wire
      /\ fetched' = fetched /\ events' = events
  BY DEF Refuse, storeVars
<1>5. /\ page' = [page EXCEPT ![p] = page[p]] /\ wire' = [wire EXCEPT ![p] = wire[p]]
      /\ fetched' = [fetched EXCEPT ![p] = fetched[p]]
  BY <1>4, OnePage
<1> HIDE DEF st
<1> QED BY <1>1, <1>2, <1>3, <1>4, <1>5, PageTouched

LEMMA LoadKeepsPages ==
  ASSUME StoreOK, PagesOK, NEW p \in Pages, Load(p)
  PROVE  PagesOK'
<1>1. PICK n \in page[p].after .. Len(events) :
         page' = [page EXCEPT ![p] =
           [loaded |-> TRUE, after |-> n, heard |-> <<>>, shown |-> UpTo(n)]]
  BY DEF Load
<1> DEFINE pg == [loaded |-> TRUE, after |-> n, heard |-> <<>>, shown |-> UpTo(n)]
<1>2. /\ page[p].after \in Nat /\ Len(events) \in Nat /\ Len(events) <= MaxEvents
      /\ MaxEvents \in Nat
  BY OnePage, PageTypes
<1>3. n \in Nat /\ n <= Len(events) /\ n \in 0..MaxEvents
  BY <1>2
<1>4. UpTo(n) \in Seq(Cursors)
  <2>1. /\ UpTo(n) \in Seq(1..n) /\ Len(UpTo(n)) = n
        /\ \A i \in 1..n : UpTo(n)[i] = i
    BY <1>3, UpToSequence
  <2>2. \A i \in 1..n : UpTo(n)[i] \in Cursors
    BY <1>2, <1>3, <2>1 DEF Cursors
  <2> QED BY <2>1, <2>2
<1>5. pg \in Page
  BY <1>3, <1>4 DEF Page
<1>6. pg.after = n /\ pg.heard = <<>> /\ pg.shown = UpTo(n)
  OBVIOUS
<1> HIDE DEF pg
<1>7. Closed \in Stream /\ <<>> \in Seq(Cursors)
  BY TimelineAssumption DEF Closed, Stream
<1>8. Continues(pg, Closed, <<>>, Len(events))
  BY <1>2, <1>3, <1>6 DEF Continues, Closed, KnownTo
<1>9. Ordered(pg)
  BY <1>3, <1>6, RecordIsOrdered DEF Ordered
<1>10. /\ page' = [page EXCEPT ![p] = pg] /\ stream' = [stream EXCEPT ![p] = Closed]
       /\ wire' = [wire EXCEPT ![p] = <<>>] /\ fetched' = [fetched EXCEPT ![p] = {}]
       /\ events' = events
  BY <1>1 DEF Load, storeVars, pg
<1> QED BY <1>5, <1>7, <1>8, <1>9, <1>10, PageTouched

\* A cursor comes after all that was heard of: it extends what is shown, or a
\* refresh has shown it.
LEMMA ShowIsOrdered ==
  ASSUME NEW s \in Seq(Cursors), NEW known \in Nat, NEW c \in Cursors, c = known + 1,
         Increases(s),
         \/ \A i \in DOMAIN s : s[i] <= known
         \/ s = UpTo(Len(s))
  PROVE  /\ Show(s, c) \in Seq(Cursors) /\ Increases(Show(s, c))
         /\ \/ \A i \in DOMAIN Show(s, c) : Show(s, c)[i] <= c
            \/ Show(s, c) = UpTo(Len(Show(s, c)))
<1>1. /\ Len(s) \in Nat /\ DOMAIN s = 1..Len(s) /\ Cursors \subseteq Nat
      /\ \A i \in 1..Len(s) : s[i] \in Nat
  BY TimelineAssumption DEF Cursors
<1>2. CASE \E i \in DOMAIN s : s[i] = c
  <2>1. Show(s, c) = s
    BY <1>2 DEF Show
  <2>2. ~ \A i \in DOMAIN s : s[i] <= known
    BY <1>1, <1>2
  <2> QED BY <2>1, <2>2
<1>3. CASE ~ \E i \in DOMAIN s : s[i] = c
  <2> DEFINE more == Append(s, c)
  <2>1. Show(s, c) = more
    BY <1>3 DEF Show
  <2>2. \A i \in 1..Len(s) : s[i] < c
    <3>1. CASE \A i \in DOMAIN s : s[i] <= known
      BY <1>1, <3>1
    <3>2. CASE s = UpTo(Len(s))
      <4>1. \A i \in 1..Len(s) : s[i] = i
        BY <1>1, <3>2, UpToSequence
      <4>2. ~ (c \in 1..Len(s))
        BY <1>1, <1>3, <4>1
      <4> QED BY <1>1, <4>1, <4>2
    <3> QED BY <3>1, <3>2
  <2>3. /\ more \in Seq(Cursors) /\ Len(more) = Len(s) + 1
        /\ DOMAIN more = 1..(Len(s) + 1) /\ more[Len(s) + 1] = c
        /\ \A i \in 1..Len(s) : more[i] = s[i]
    BY <1>1
  <2> HIDE DEF more
  <2>4. Increases(more)
    BY <1>1, <2>2, <2>3 DEF Increases
  <2>5. \A i \in DOMAIN more : more[i] <= c
    BY <1>1, <2>2, <2>3
  <2> QED BY <2>1, <2>3, <2>4, <2>5
<1> QED BY <1>2, <1>3

LEMMA ReceiveKeepsPages ==
  ASSUME StoreOK, PagesOK, NEW p \in Pages, Receive(p)
  PROVE  /\ PagesOK'
         /\ Head(wire[p]) = KnownTo(page[p]) + 1 /\ KnownTo(page[p]) < Len(events)
<1> DEFINE n == Len(events)
           old == page[p]
           wr == wire[p]
           c == Head(wr)
           pg == [old EXCEPT !.heard = Append(old.heard, c), !.shown = Show(old.shown, c)]
           fe == IF events[c].type = "recovery" THEN fetched[p] \cup {0} ELSE fetched[p]
<1>1. /\ old \in Page /\ stream[p] \in Stream /\ wr \in Seq(Cursors)
      /\ Continues(old, stream[p], wr, n) /\ Ordered(old) /\ n \in Nat
      /\ wr # <<>> /\ fetched[p] \in SUBSET (0..MaxEvents)
      /\ \A m \in fetched[p] : m <= n
  BY OnePage DEF Receive
<1>2. /\ old.after \in Nat /\ old.heard \in Seq(Cursors) /\ Len(old.heard) \in Nat
      /\ old.shown \in Seq(Cursors) /\ KnownTo(old) \in Nat /\ Len(wr) \in Nat \ {0}
  BY <1>1, PageTypes
<1>3. /\ c = wr[1] /\ c \in Cursors /\ Tail(wr) \in Seq(Cursors)
      /\ Len(Tail(wr)) = Len(wr) - 1
      /\ \A i \in 1..(Len(wr) - 1) : Tail(wr)[i] = wr[i + 1]
  BY <1>1, <1>2
<1>4. c = KnownTo(old) + 1
  BY <1>1, <1>2, <1>3 DEF Continues
<1>5. KnownTo(old) < n
  BY <1>1, <1>2 DEF Continues
<1>6. /\ Show(old.shown, c) \in Seq(Cursors) /\ Increases(Show(old.shown, c))
      /\ \/ \A i \in DOMAIN Show(old.shown, c) : Show(old.shown, c)[i] <= c
         \/ Show(old.shown, c) = UpTo(Len(Show(old.shown, c)))
  BY <1>1, <1>2, <1>3, <1>4, ShowIsOrdered DEF Ordered
<1>7. /\ Append(old.heard, c) \in Seq(Cursors)
      /\ Len(Append(old.heard, c)) = Len(old.heard) + 1
      /\ Append(old.heard, c)[Len(old.heard) + 1] = c
      /\ \A i \in 1..Len(old.heard) : Append(old.heard, c)[i] = old.heard[i]
  BY <1>2, <1>3
<1>8. /\ pg \in Page /\ pg.after = old.after /\ pg.heard = Append(old.heard, c)
      /\ pg.shown = Show(old.shown, c)
  BY <1>1, <1>6, <1>7 DEF Page
<1>9. page' = [page EXCEPT ![p] = pg] /\ wire' = [wire EXCEPT ![p] = Tail(wr)]
  BY DEF Receive
<1>10. /\ fetched' = [fetched EXCEPT ![p] = fe] /\ fe \in SUBSET (0..MaxEvents)
       /\ \A m \in fe : m <= n
  <2>1. fetched = [fetched EXCEPT ![p] = fetched[p]]
    BY OnePage
  <2>2. CASE events[c].type = "recovery"
    BY <1>1, <2>2, TimelineAssumption DEF Receive
  <2>3. CASE events[c].type # "recovery"
    BY <1>1, <2>1, <2>3 DEF Receive
  <2> QED BY <2>2, <2>3
<1> HIDE DEF pg, fe
<1>11. KnownTo(pg) = c
  BY <1>2, <1>4, <1>7, <1>8 DEF KnownTo
<1>12. Continues(pg, stream[p], Tail(wr), n)
  <2> DEFINE k == KnownTo(old)
             h == Len(old.heard)
             l == Len(wr)
  <2>1. /\ \A i \in 1..h : old.heard[i] = old.after + i
        /\ \A i \in 1..l : wr[i] = k + i
        /\ k + l <= n /\ k = old.after + h
    BY <1>1 DEF Continues, KnownTo
  <2>2. stream[p].open
    BY <1>1, StreamTypes DEF Continues
  <2>3. /\ stream[p].cursor = k + l
        /\ \A i \in 1..Len(stream[p].batch) : stream[p].batch[i] = stream[p].cursor + i
        /\ stream[p].cursor + Len(stream[p].batch) <= n
    BY <1>1, <2>2 DEF Continues
  <2>4. k \in Nat /\ h \in Nat /\ l \in Nat \ {0} /\ old.after \in Nat
    BY <1>2
  <2>5. KnownTo(pg) = k + 1 /\ Len(Tail(wr)) = l - 1
    BY <1>3, <1>4, <1>11
  <2>6. \A i \in 1..Len(pg.heard) : pg.heard[i] = pg.after + i
    <3> HIDE DEF h, k, c
    <3> SUFFICES ASSUME NEW i \in 1..(h + 1)
                 PROVE  pg.heard[i] = old.after + i
      BY <1>7, <1>8 DEF h
    <3>1. CASE i = h + 1
      <4>1. pg.heard[i] = c
        BY <1>7, <1>8, <3>1 DEF h
      <4>2. c = k + 1
        BY <1>4 DEF k
      <4>3. (old.after + h) + 1 = old.after + (h + 1)
        BY <2>4
      <4>4. k = old.after + h
        BY <2>1
      <4> QED BY <3>1, <4>1, <4>2, <4>3, <4>4
    <3>2. CASE i \in 1..h
      BY <1>7, <1>8, <2>1, <3>2 DEF h
    <3> QED BY <2>4, <3>1, <3>2
  <2>7. \A i \in 1..Len(Tail(wr)) : Tail(wr)[i] = KnownTo(pg) + i
    <3> HIDE DEF k, l
    <3> SUFFICES ASSUME NEW i \in 1..(l - 1)
                 PROVE  Tail(wr)[i] = (k + 1) + i
      BY <2>5
    <3>1. i + 1 \in 1..l
      BY <2>4
    <3>2. Tail(wr)[i] = wr[i + 1] /\ wr[i + 1] = k + (i + 1)
      BY <1>3, <2>1, <3>1 DEF l
    <3>3. k + (i + 1) = (k + 1) + i
      BY <2>4
    <3> QED BY <3>2, <3>3
  <2> HIDE DEF k, l, h, n, wr
  <2>8. KnownTo(pg) + Len(Tail(wr)) = k + l
    <3>1. (k + 1) + (l - 1) = k + l
      BY <2>4
    <3>2. KnownTo(pg) + Len(Tail(wr)) = (k + 1) + (l - 1)
      BY <2>5
    <3> QED BY <3>1, <3>2
  <2> QED BY <2>1, <2>2, <2>3, <2>6, <2>7, <2>8 DEF Continues
<1>13. Ordered(pg)
  BY <1>6, <1>8, <1>11 DEF Ordered
<1>14. stream' = stream /\ events' = events
  BY DEF Receive, storeVars
<1>15. stream' = [stream EXCEPT ![p] = stream[p]] /\ events' = events
  BY <1>14, OnePage
<1>16. /\ pg \in Page /\ stream[p] \in Stream /\ Tail(wr) \in Seq(Cursors)
       /\ fe \in SUBSET (0..MaxEvents) /\ Ordered(pg)
       /\ Continues(pg, stream[p], Tail(wr), Len(events))
       /\ \A m \in fe : m <= Len(events)
  BY <1>1, <1>3, <1>8, <1>10, <1>12, <1>13
<1>17. /\ page' = [page EXCEPT ![p] = pg] /\ wire' = [wire EXCEPT ![p] = Tail(wr)]
       /\ fetched' = [fetched EXCEPT ![p] = fe]
  BY <1>9, <1>10
<1> DEFINE rest == Tail(wr)
<1>18. /\ rest \in Seq(Cursors) /\ Continues(pg, stream[p], rest, Len(events))
       /\ wire' = [wire EXCEPT ![p] = rest]
  BY <1>16, <1>17
<1>19. PagesOK'
  <2> HIDE DEF old, n, wr, c, rest
  <2> QED BY <1>15, <1>16, <1>17, <1>18, PageTouched
<1> QED BY <1>4, <1>5, <1>19

LEMMA ServeRefreshKeepsPages ==
  ASSUME StoreOK, PagesOK, NEW p \in Pages, ServeRefresh(p)
  PROVE  PagesOK'
<1> DEFINE n == Len(events)
<1>1. /\ fetched[p] \in SUBSET (0..MaxEvents) /\ n \in Nat /\ n <= MaxEvents
      /\ \A m \in fetched[p] : m <= n
  BY OnePage
<1>2. PICK fe \in {(fetched[p] \ {0}) \cup {n}, fetched[p] \cup {n}} :
         fetched' = [fetched EXCEPT ![p] = fe]
  BY DEF ServeRefresh
<1>3. fe \in SUBSET (0..MaxEvents) /\ \A m \in fe : m <= n
  BY <1>1, <1>2, TimelineAssumption
<1>4. page' = page /\ stream' = stream /\ wire' = wire /\ events' = events
  BY DEF ServeRefresh, storeVars
<1>5. /\ page' = [page EXCEPT ![p] = page[p]] /\ stream' = [stream EXCEPT ![p] = stream[p]]
      /\ wire' = [wire EXCEPT ![p] = wire[p]]
  BY <1>4, OnePage
<1>6. /\ page[p] \in Page /\ stream[p] \in Stream /\ wire[p] \in Seq(Cursors)
      /\ Continues(page[p], stream[p], wire[p], Len(events)) /\ Ordered(page[p])
  BY OnePage
<1> HIDE DEF n
<1> QED BY <1>2, <1>3, <1>4, <1>5, <1>6, PageTouched DEF n

LEMMA RefreshKeepsPages ==
  ASSUME StoreOK, PagesOK, NEW p \in Pages, Refresh(p)
  PROVE  PagesOK'
<1>1. PICK n \in fetched[p] \ {0} :
         /\ page' = [page EXCEPT ![p].shown = UpTo(n)]
         /\ fetched' = [fetched EXCEPT ![p] = @ \ {n}]
  BY DEF Refresh
<1> DEFINE old == page[p]
           pg == [old EXCEPT !.shown = UpTo(n)]
           fe == fetched[p] \ {n}
<1>2. /\ old \in Page /\ fetched[p] \in SUBSET (0..MaxEvents) /\ MaxEvents \in Nat
      /\ Continues(old, stream[p], wire[p], Len(events))
      /\ \A m \in fetched[p] : m <= Len(events)
  BY OnePage
<1>3. n \in Nat /\ n <= MaxEvents
  BY <1>2
<1>4. UpTo(n) \in Seq(Cursors)
  <2>1. /\ UpTo(n) \in Seq(1..n) /\ Len(UpTo(n)) = n
        /\ \A i \in 1..n : UpTo(n)[i] = i
    BY <1>3, UpToSequence
  <2>2. \A i \in 1..n : UpTo(n)[i] \in Cursors
    BY <1>2, <1>3, <2>1 DEF Cursors
  <2> QED BY <2>1, <2>2
<1>5. /\ pg \in Page /\ pg.after = old.after /\ pg.heard = old.heard
      /\ pg.shown = UpTo(n)
  BY <1>2, <1>4 DEF Page
<1>6. page' = [page EXCEPT ![p] = pg] /\ fetched' = [fetched EXCEPT ![p] = fe]
  BY <1>1
<1> HIDE DEF pg
<1>7. Continues(pg, stream[p], wire[p], Len(events))
  BY <1>2, <1>5 DEF Continues, KnownTo
<1>8. Ordered(pg)
  BY <1>3, <1>5, RecordIsOrdered DEF Ordered
<1>9. stream' = stream /\ wire' = wire /\ events' = events
  BY DEF Refresh, storeVars
<1>10. /\ stream' = [stream EXCEPT ![p] = stream[p]] /\ stream[p] \in Stream
       /\ wire' = [wire EXCEPT ![p] = wire[p]] /\ wire[p] \in Seq(Cursors)
  BY <1>9, OnePage
<1>11. fe \in SUBSET (0..MaxEvents) /\ \A m \in fe : m <= Len(events)
  BY <1>2
<1> HIDE DEF fe
<1> QED BY <1>5, <1>6, <1>7, <1>8, <1>9, <1>10, <1>11, PageTouched

LEMMA PagesStep ==
  ASSUME StoreOK, PagesOK, [Next]_vars
  PROVE  PagesOK'
<1>1. Grows
  BY StoreKeeps
<1>2. CASE UNCHANGED vars
  BY <1>1, <1>2, PagesUntouched DEF vars
<1>3. ASSUME NEW w \in Callers,
             (\E type \in Types : Begin(w, type)) \/ StoreStep(w) \/ CommitUnanswered(w)
      PROVE  PagesOK'
  <2>1. UNCHANGED <<page, stream, wire, fetched>>
    BY <1>3 DEF Begin, StoreStep, Commit, Conflict, Raise, CommitUnanswered
  <2> QED BY <1>1, <2>1, PagesUntouched
<1>4. ASSUME NEW p \in Pages, Load(p) \/ PageStep(p) \/ Disconnect(p) \/ Refuse(p)
      PROVE  PagesOK'
  BY <1>4, LoadKeepsPages, ConnectKeepsPages, PollKeepsPages, SendKeepsPages,
     ReceiveKeepsPages, ServeRefreshKeepsPages, RefreshKeepsPages,
     DisconnectKeepsPages, RefuseKeepsPages DEF PageStep
<1> QED BY <1>2, <1>3, <1>4 DEF Next

LEMMA PagesAlways == Spec => []PagesOK
BY PagesInit, PagesStep, StoreAlways, PTL DEF Spec

\* The types hold in every reachable state; that there are no more events than
\* calls is part of them.
THEOREM TimelineTypeCorrect == Spec => []TimelineTypeOK
<1>1. StoreOK /\ PagesOK => TimelineTypeOK
  BY EventsAreIssued DEF StoreOK, PagesOK, TimelineTypeOK
<1> QED BY <1>1, StoreAlways, PagesAlways, PTL

\* However refreshes and the stream race, a page shows no event twice and none
\* before an earlier one.
THEOREM ShownInOrderAlways == Spec => []ShownInOrder
<1>1. PagesOK => ShownInOrder
  BY DEF PagesOK, Ordered, Increases, ShownInOrder
<1> QED BY <1>1, PagesAlways, PTL

-----------------------------------------------------------------------------
(* The contract. *)

LEMMA ContractInitial == Init => Contract!ContractInit
BY DEF Init, Unloaded, Contract!ContractInit

LEMMA ContractSteps ==
  ASSUME StoreOK, PagesOK, [Next]_vars
  PROVE  [Contract!ContractNext]_<<events, [p \in Pages |-> page[p].after],
                                   [p \in Pages |-> page[p].heard]>>
<1> DEFINE from == [p \in Pages |-> page[p].after]
           heard == [p \in Pages |-> page[p].heard]
<1>1. page \in [Pages -> Page]
  BY DEF PagesOK
<1>2. CASE UNCHANGED vars
  BY <1>2 DEF vars
<1>3. ASSUME NEW w \in Callers,
             (\E type \in Types : Begin(w, type)) \/ StoreStep(w) \/ CommitUnanswered(w)
      PROVE  [Contract!ContractNext]_<<events, from, heard>>
  <2>1. page' = page /\ from' = from /\ heard' = heard
    BY <1>3 DEF Begin, StoreStep, Commit, Conflict, Raise, CommitUnanswered
  <2>2. CASE events' = events
    BY <2>1, <2>2
  <2>3. ASSUME NEW e \in Event, events' = Append(events, e)
        PROVE  Contract!ContractRecord
    <3>1. events \in Seq(Event)
      BY DEF StoreOK
    <3>2. Len(events') = Len(events) + 1 /\ SubSeq(events', 1, Len(events)) = events
      BY <2>3, <3>1
    <3> QED BY <2>1, <3>2 DEF Contract!ContractRecord
  <2> QED BY <2>2, <2>3, StoreKeeps DEF Grows, Contract!ContractNext
<1>4. ASSUME NEW p \in Pages, Load(p)
      PROVE  Contract!ContractLoad(p)
  <2>1. PICK n \in page[p].after .. Len(events) :
          page' = [page EXCEPT ![p] =
            [loaded |-> TRUE, after |-> n, heard |-> <<>>, shown |-> UpTo(n)]]
    BY <1>4 DEF Load
  <2>2. from' = [from EXCEPT ![p] = n] /\ heard' = [heard EXCEPT ![p] = <<>>]
    BY <1>1, <2>1
  <2>3. events' = events /\ n \in from[p] .. Len(events)
    BY <1>4, <2>1 DEF Load, storeVars
  <2> QED BY <2>2, <2>3 DEF Contract!ContractLoad
<1>5. ASSUME NEW p \in Pages, Receive(p)
      PROVE  Contract!ContractHear(p)
  <2>1. /\ Head(wire[p]) = from[p] + Len(heard[p]) + 1
        /\ from[p] + Len(heard[p]) < Len(events)
    BY <1>5, ReceiveKeepsPages DEF KnownTo
  <2>2. page' = [page EXCEPT ![p] =
          [page[p] EXCEPT !.heard = Append(page[p].heard, Head(wire[p])),
                          !.shown = Show(page[p].shown, Head(wire[p]))]]
    BY <1>5 DEF Receive
  <2>3. from' = from /\ heard' = [heard EXCEPT ![p] = Append(heard[p], Head(wire[p]))]
    BY <1>1, <2>2 DEF Page
  <2>4. events' = events
    BY <1>5 DEF Receive, storeVars
  <2> QED BY <2>1, <2>3, <2>4 DEF Contract!ContractHear
<1>6. ASSUME NEW p \in Pages, Refresh(p)
      PROVE  UNCHANGED <<events, from, heard>>
  <2>1. PICK n \in fetched[p] \ {0} : page' = [page EXCEPT ![p].shown = UpTo(n)]
    BY <1>6 DEF Refresh
  <2>2. from' = from /\ heard' = heard
    BY <1>1, <2>1 DEF Page
  <2> QED BY <1>6, <2>2 DEF Refresh, storeVars
<1>7. ASSUME NEW p \in Pages,
             \/ Connect(p) \/ Poll(p) \/ Send(p) \/ ServeRefresh(p)
             \/ Disconnect(p) \/ Refuse(p)
      PROVE  UNCHANGED <<events, from, heard>>
  BY <1>7 DEF Connect, Poll, Send, ServeRefresh, Disconnect, Refuse, storeVars
<1> QED
  BY <1>2, <1>3, <1>4, <1>5, <1>6, <1>7 DEF Next, PageStep, Contract!ContractNext

\* The timeline implements its contract: over conflicts, lost replies, lost
\* connections and reloads, a page hears every event after the ones it was
\* loaded with, once and in order, as far as it hears any.
THEOREM TimelineReplays == Spec => Replays
BY ContractInitial, ContractSteps, StoreAlways, PagesAlways, PTL
   DEF Spec, Replays, Contract!ContractSpec
=============================================================================
