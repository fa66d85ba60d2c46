------------------------------ MODULE Timeline ------------------------------
(***************************************************************************)
(* The timeline of one Incident, from the calls that append to its         *)
(* Investigation Record to the pages that show it: FirestoreIncidentStore  *)
(* (services/incident_store.py), the stream of api/incidents.py, and the   *)
(* page of frontend/src/App.tsx.                                           *)
(*                                                                         *)
(* A Firestore transaction is optimistic: it reads the document, runs the  *)
(* callback of _mutate on what it read, and commits if the document is     *)
(* still the same; otherwise it starts over.  A page loads the record,     *)
(* opens a stream for what comes after, and the browser reopens the stream *)
(* with the identifier of the last event it got.  For an event of recovery *)
(* the page also fetches the record again.                                 *)
(***************************************************************************)
EXTENDS Naturals, Sequences

CONSTANTS
  Callers,      \* threads of the API, the workers and the Executors
  Pages,        \* browser pages
  MaxAttempts,  \* runs of the callback in one transaction: 5
  \* Bounds of the model.
  MaxEvents,    \* calls that append an event
  MaxFaults     \* lost replies, lost or refused connections, reloads

ASSUME TimelineAssumption ==
  /\ MaxAttempts \in Nat \ {0}
  /\ MaxEvents \in Nat /\ MaxFaults \in Nat

VARIABLES
  events,     \* audit_events of the document; a cursor is an index
  call,       \* call[w]: the call of the store that w makes
  told,       \* the events whose append has returned to its caller
  page,       \* page[p]: what the browser keeps
  stream,     \* stream[p]: the encode() that serves p
  wire,       \* wire[p]: cursors sent and not yet received
  fetched,    \* fetched[p]: refreshes under way; 0 if not served yet
  issued,     \* event ids: uuid4().hex is fresh
  faults

vars == <<events, call, told, page, stream, wire, fetched, issued, faults>>

storeVars == <<events, call, told, issued>>

Types == {"recovery", "other"}

Event == [id : 1..MaxEvents, type : Types]

Call == [step : {"commit"}, event : Event, read : Seq(Event), tries : 1..MaxAttempts]

Idle == [step |-> "idle"]

Cursors == 1..MaxEvents

Page == [loaded : BOOLEAN,
         after  : 0..MaxEvents,    \* the stream's URL: ?after=
         heard  : Seq(Cursors),    \* what the stream has brought since
         shown  : Seq(Cursors)]    \* record.audit_events

Stream == [open   : BOOLEAN,
           over   : BOOLEAN,    \* the EventSource is closed for good
           cursor : 0..MaxEvents, batch : Seq(Cursors)]

TimelineTypeOK ==
  /\ events \in Seq(Event) /\ Len(events) <= issued
  /\ call \in [Callers -> Call \cup {Idle}]
  /\ told \subseteq 1..issued
  /\ page \in [Pages -> Page]
  /\ stream \in [Pages -> Stream]
  /\ wire \in [Pages -> Seq(Cursors)]
  /\ fetched \in [Pages -> SUBSET (0..MaxEvents)]
  /\ issued \in 0..MaxEvents
  /\ faults \in 0..MaxFaults

Unloaded == [loaded |-> FALSE, after |-> 0, heard |-> <<>>, shown |-> <<>>]

Closed == [open |-> FALSE, over |-> FALSE, cursor |-> 0, batch |-> <<>>]

Init ==
  /\ events = <<>>
  /\ call = [w \in Callers |-> Idle]
  /\ told = {}
  /\ page = [p \in Pages |-> Unloaded]
  /\ stream = [p \in Pages |-> Closed]
  /\ wire = [p \in Pages |-> <<>>]
  /\ fetched = [p \in Pages |-> {}]
  /\ issued = 0
  /\ faults = 0

Fault == faults < MaxFaults /\ faults' = faults + 1

UpTo(n) == [i \in 1..n |-> i]

-----------------------------------------------------------------------------
(* The store. *)

\* append_audit_event, or another call that brings an event: the transaction
\* reads the document.
Begin(w, type) ==
  /\ call[w] = Idle /\ issued < MaxEvents
  /\ issued' = issued + 1
  /\ call' = [call EXCEPT ![w] =
       [step |-> "commit", event |-> [id |-> issued + 1, type |-> type],
        read |-> events, tries |-> 1]]
  /\ UNCHANGED <<events, told, page, stream, wire, fetched, faults>>

\* The operation raises: the event is in the record already.
Exists(w) == \E i \in DOMAIN call[w].read : call[w].read[i].id = call[w].event.id

\* Mutant: as two threads on an InMemoryIncidentStore, whose appends take no lock.
CommitsBlindly(w) == TRUE

\* Mutant: an attempt too many.
RetriesOnceMore(w) == call[w].tries <= MaxAttempts

Retries(w) == call[w].tries < MaxAttempts

\* Nobody has changed the document since this transaction read it.
Commits(w) == events = call[w].read

\* The callback has run, and the commit: the result is returned.
Commit(w) ==
  /\ call[w].step = "commit" /\ ~ Exists(w)
  /\ Commits(w)
  /\ events' = Append(call[w].read, call[w].event)
  /\ told' = told \cup {call[w].event.id}
  /\ call' = [call EXCEPT ![w] = Idle]
  /\ UNCHANGED <<page, stream, wire, fetched, issued, faults>>

\* The commit stands and its reply is lost.  The caller gets an error, or the
\* transaction starts over, on its own event.
CommitUnanswered(w) ==
  /\ call[w].step = "commit" /\ ~ Exists(w)
  /\ Commits(w)
  /\ Fault
  /\ events' = Append(call[w].read, call[w].event)
  /\ \/ call' = [call EXCEPT ![w] = Idle]
     \/ /\ Retries(w)
        /\ call' = [call EXCEPT ![w].read = events', ![w].tries = @ + 1]
  /\ UNCHANGED <<told, page, stream, wire, fetched, issued>>

\* The document has changed: once more, up to the last attempt.
Conflict(w) ==
  /\ call[w].step = "commit" /\ ~ Exists(w)
  /\ ~ Commits(w)
  /\ call' = [call EXCEPT ![w] =
       IF Retries(w)
       THEN [call[w] EXCEPT !.read = events, !.tries = @ + 1] ELSE Idle]
  /\ UNCHANGED <<events, told, page, stream, wire, fetched, issued, faults>>

\* ValueError leaves the transaction.
Raise(w) ==
  /\ call[w].step = "commit" /\ Exists(w)
  /\ call' = [call EXCEPT ![w] = Idle]
  /\ UNCHANGED <<events, told, page, stream, wire, fetched, issued, faults>>

-----------------------------------------------------------------------------
(* The stream. *)

\* Mutant: the first event after the cursor is skipped.
FollowingLate(cursor) == SubSeq(UpTo(Len(events)), cursor + 2, Len(events))

\* timeline(after=cursor).
Following(cursor) == SubSeq(UpTo(Len(events)), cursor + 1, Len(events))

\* The last event the page has got through a stream; 0 is no Last-Event-ID.
LastEventId(p) ==
  IF page[p].heard = <<>> THEN 0 ELSE page[p].heard[Len(page[p].heard)]

\* Mutant: a stream that is opened again starts where the page was loaded.
ResumedFromPage(p) == page[p].after

Resumed(p) ==
  IF page[p].after > LastEventId(p) THEN page[p].after ELSE LastEventId(p)

\* stream_timeline: opened by the page, or reopened by the browser.
Connect(p) ==
  /\ page[p].loaded /\ ~ stream[p].open /\ ~ stream[p].over
  /\ stream' = [stream EXCEPT ![p] =
       [open |-> TRUE, over |-> FALSE, cursor |-> Resumed(p), batch |-> <<>>]]
  /\ UNCHANGED <<storeVars, page, wire, fetched, faults>>

\* An answer that is not 200, from stream_timeline (its first read of the record
\* raises) or from what stands before it.  The browser does not ask again, and
\* the page has no handler for the error.
Refuse(p) ==
  /\ page[p].loaded /\ ~ stream[p].open /\ ~ stream[p].over
  /\ Fault
  /\ stream' = [stream EXCEPT ![p].over = TRUE]
  /\ UNCHANGED <<storeVars, page, wire, fetched>>

\* encode reads the record once a second.
Poll(p) ==
  /\ stream[p].open /\ stream[p].batch = <<>>
  /\ Following(stream[p].cursor) # <<>>
  /\ stream' = [stream EXCEPT ![p].batch = Following(stream[p].cursor)]
  /\ UNCHANGED <<storeVars, page, wire, fetched, faults>>

Send(p) ==
  /\ stream[p].open /\ stream[p].batch # <<>>
  /\ stream' = [stream EXCEPT ![p].cursor = Head(stream[p].batch),
                              ![p].batch  = Tail(@)]
  /\ wire' = [wire EXCEPT ![p] = Append(@, Head(stream[p].batch))]
  /\ UNCHANGED <<storeVars, page, fetched, faults>>

\* What is on its way is lost with the connection.
Disconnect(p) ==
  /\ stream[p].open
  /\ Fault
  /\ stream' = [stream EXCEPT ![p] = Closed]
  /\ wire' = [wire EXCEPT ![p] = <<>>]
  /\ UNCHANGED <<storeVars, page, fetched>>

-----------------------------------------------------------------------------
(* The page. *)

\* A record is shown that was read when it had n events; whatever the page had
\* under way before does not reach it.  The page opens a stream of its own.
Load(p) ==
  /\ page[p].loaded => Fault
  /\ ~ page[p].loaded => UNCHANGED faults
  /\ \E n \in page[p].after .. Len(events) :
       page' = [page EXCEPT ![p] =
         [loaded |-> TRUE, after |-> n, heard |-> <<>>, shown |-> UpTo(n)]]
  /\ stream' = [stream EXCEPT ![p] = Closed]
  /\ wire' = [wire EXCEPT ![p] = <<>>]
  /\ fetched' = [fetched EXCEPT ![p] = {}]
  /\ UNCHANGED storeVars

\* Mutant: an event is not looked up among those that are shown.
ShowTwice(shown, cursor) == Append(shown, cursor)

Show(shown, cursor) ==
  IF \E i \in DOMAIN shown : shown[i] = cursor THEN shown ELSE Append(shown, cursor)

\* receiveTimelineEvent.
Receive(p) ==
  /\ wire[p] # <<>>
  /\ wire' = [wire EXCEPT ![p] = Tail(@)]
  /\ page' = [page EXCEPT ![p].heard = Append(@, Head(wire[p])),
                          ![p].shown = Show(@, Head(wire[p]))]
  /\ fetched' = IF events[Head(wire[p])].type = "recovery"
                THEN [fetched EXCEPT ![p] = @ \cup {0}] ELSE fetched
  /\ UNCHANGED <<storeVars, stream, faults>>

\* get_incident, for one or more of the refreshes.  The other calls whose answer
\* replaces the record of the page, runCouncil, decideProposal and closeIncident, go this way too.
ServeRefresh(p) ==
  /\ 0 \in fetched[p]
  /\ \/ fetched' = [fetched EXCEPT ![p] = (@ \ {0}) \cup {Len(events)}]
     \/ fetched' = [fetched EXCEPT ![p] = @ \cup {Len(events)}]
  /\ UNCHANGED <<storeVars, page, stream, wire, faults>>

\* setRecord(updated), in whatever order the responses arrive.
Refresh(p) ==
  /\ \E n \in fetched[p] \ {0} :
       /\ page' = [page EXCEPT ![p].shown = UpTo(n)]
       /\ fetched' = [fetched EXCEPT ![p] = @ \ {n}]
  /\ UNCHANGED <<storeVars, stream, wire, faults>>

-----------------------------------------------------------------------------
StoreStep(w) == Commit(w) \/ Conflict(w) \/ Raise(w)

PageStep(p) ==
  \/ Connect(p) \/ Poll(p) \/ Send(p) \/ Receive(p) \/ ServeRefresh(p) \/ Refresh(p)

Next ==
  \/ \E w \in Callers :
       \/ \E type \in Types : Begin(w, type)
       \/ StoreStep(w) \/ CommitUnanswered(w)
  \/ \E p \in Pages : Load(p) \/ PageStep(p) \/ Disconnect(p) \/ Refuse(p)

Spec == Init /\ [][Next]_vars

\* A call that has begun goes on, encode polls once a second for as long as the
\* browser is connected, and the browser connects again by itself until it has
\* been refused.
Fairness ==
  /\ \A w \in Callers : WF_vars(StoreStep(w))
  /\ \A p \in Pages :
       /\ WF_vars(Connect(p)) /\ WF_vars(Poll(p)) /\ WF_vars(Send(p))
       /\ WF_vars(Receive(p)) /\ WF_vars(ServeRefresh(p)) /\ WF_vars(Refresh(p))

FairSpec == Spec /\ Fairness

-----------------------------------------------------------------------------
(* Properties. *)

\* An append that returned is in the record, once, though other calls append at
\* the same time and a callback may run on a document that has its event.
AcknowledgedIsKept ==
  /\ \A id \in told : \E i \in DOMAIN events : events[i].id = id
  /\ \A i, j \in DOMAIN events : events[i].id = events[j].id => i = j

\* A page shows events in the order of their cursors and none of them twice,
\* though a refresh may be ahead of the stream.
ShownInOrder ==
  \A p \in Pages : \A i, j \in DOMAIN page[p].shown :
    i < j => page[p].shown[i] < page[p].shown[j]

\* The timeline only grows, and what a page hears after it was loaded continues
\* where it was loaded, without a gap or a repetition, over lost connections.
Contract == INSTANCE TimelineContract WITH
  log <- events, from <- [p \in Pages |-> page[p].after],
  heard <- [p \in Pages |-> page[p].heard]

Replays == Contract!ContractSpec

\* What the page was loaded with and has heard since.
Known(p) == page[p].after + Len(page[p].heard)

\* Every event comes to every page, over lost connections and reloads, unless a
\* stream of the page is refused: then nothing follows until it is loaded again.
EventsArrive ==
  \A p \in Pages : \A n \in Cursors :
    page[p].loaded /\ Len(events) >= n ~> Known(p) >= n \/ stream[p].over

\* .scratch/issues/16-durable-alerts-correlation-and-timeline-replay.md: the UI
\* reconnects without skipping timeline entries.  Refuted: see Refuse.
UIReconnects ==
  \A p \in Pages : \A n \in Cursors :
    page[p].loaded /\ Len(events) >= n ~> Known(p) >= n

\* .scratch/issues/16-durable-alerts-correlation-and-timeline-replay.md: the UI
\* does not skip a timeline entry.  With no refresh under way, what a page has
\* heard of is shown.
ShownIsComplete ==
  \A p \in Pages : page[p].loaded /\ fetched[p] = {} =>
    \A n \in 1..Known(p) : \E i \in DOMAIN page[p].shown : page[p].shown[i] = n
=============================================================================
