---------------------------- MODULE SessionStream ----------------------------
(***************************************************************************)
(* How an open transcript pane follows a session: the writer's NOTIFY, the *)
(* LISTEN connection and the hub it feeds (session/listen.py), the stream  *)
(* endpoint (api/v1/session_routes.py) and the browser's side of it        *)
(* (canvas: useSessionEventStream.ts, sessionEventReducer.ts), one session *)
(* and one pane.  A record is its seq; a record the database refused       *)
(* leaves a hole.  Events commit in the order of their seqs (TranscriptTailer). *)
(***************************************************************************)
EXTENDS Integers, Sequences, FiniteSets, FiniteSetsExt

CONSTANTS
  MaxSeq,       \* bound: records of the session
  QueueMaxSize, \* QUEUE_MAX_SIZE of a subscription
  FetchLimit,   \* STREAM_FETCH_LIMIT: rows of a page of the stream
  ListLimit,    \* DEFAULT_EVENT_LIMIT: events of an answer to the browser
  MaxFaults     \* bound: lost connections, failed and repeated requests

ASSUME StreamConstants == MaxSeq \in Nat /\ FetchLimit \in Nat /\ ListLimit \in Nat

VARIABLES
  next,      \* the seq of the next record
  committed, \* seqs of the events in the store
  listening, \* the LISTEN connection is up
  wire,      \* notifications on it: their last_seq
  queue,     \* the subscription's signals, CatchUp for one without seqs
  dropped,   \* the last signal for the subscription found its queue full
  server,    \* the stream generator: [pc, sent, from, to]
  frames,    \* seqs on their way to the browser
  loaded,    \* the backlog the pane was last given, NoBacklog before
  answer,    \* the answer to the backlog query on its way, NoBacklog for none
  shown,     \* the pane's events
  lastSeq,   \* lastSeqRef
  backfills, \* gaps being fetched
  seen,      \* history: every event the pane has shown
  faults

stream == <<server, frames>>
pane == <<loaded, answer, shown, lastSeq, backfills, seen>>
vars == <<next, committed, listening, wire, queue, dropped, stream, pane, faults>>

CatchUp == -1
NoBacklog == {-1}
Unbounded == MaxSeq
Streaming == server.pc # "closed"

Highest(S) == IF S = {} THEN -1 ELSE Max(S)
FirstOf(S, n) == {s \in S : Cardinality({t \in S : t <= s}) <= n}
Fault == faults < MaxFaults /\ faults' = faults + 1

Init ==
  /\ next = 0 /\ committed = {} /\ listening = FALSE /\ wire = <<>>
  /\ queue = <<>> /\ dropped = FALSE
  /\ server = [pc |-> "closed", sent |-> -1, from |-> 0, to |-> Unbounded] /\ frames = <<>>
  /\ loaded = NoBacklog /\ answer = NoBacklog
  /\ shown = {} /\ lastSeq = -1 /\ backfills = {} /\ seen = {} /\ faults = 0

-----------------------------------------------------------------------------
(* The store and the hub.                                                  *)

\* A batch of records is stored, those of `poison` dead-lettered, and its last
\* seq notified in the same transaction.
Commit(last, poison) ==
  /\ committed' = committed \cup ((next..last) \ poison)
  /\ next' = last + 1
  /\ wire' = IF listening THEN Append(wire, last) ELSE wire
  /\ UNCHANGED <<listening, queue, dropped, stream, pane, faults>>

\* SessionEventHub.publish to the one subscriber there may be.
Publish(signal) ==
  IF ~Streaming THEN UNCHANGED <<queue, dropped>>
  ELSE /\ dropped' = (Len(queue) = QueueMaxSize)
       /\ queue' = IF Len(queue) = QueueMaxSize THEN queue ELSE Append(queue, signal)

Notified ==
  /\ wire # <<>>
  /\ Publish(Head(wire)) /\ wire' = Tail(wire)
  /\ UNCHANGED <<next, committed, listening, stream, pane, faults>>

\* The listener's connection is lost with what it carried.
ListenerDrops ==
  /\ listening /\ Fault
  /\ listening' = FALSE /\ wire' = <<>>
  /\ UNCHANGED <<next, committed, queue, dropped, stream, pane>>

\* Mutant: no catch-up after LISTEN.
ListenerConnectsSilently ==
  /\ ~listening
  /\ listening' = TRUE
  /\ UNCHANGED <<next, committed, wire, queue, dropped, stream, pane, faults>>

\* It LISTENs again and tells every subscriber that it may have missed something.
ListenerConnects ==
  /\ ~listening
  /\ listening' = TRUE /\ Publish(CatchUp)
  /\ UNCHANGED <<next, committed, wire, stream, pane, faults>>

-----------------------------------------------------------------------------
(* The stream endpoint.                                                    *)

\* The browser opens its stream after the last event it has; the generator
\* subscribes and starts with everything after it.
Open ==
  /\ ~Streaming /\ loaded # NoBacklog
  /\ server' = [pc |-> "load", sent |-> lastSeq, from |-> lastSeq + 1, to |-> Unbounded]
  /\ queue' = <<>> /\ dropped' = FALSE
  /\ UNCHANGED <<next, committed, listening, wire, frames, pane, faults>>

\* Rows come in the order of their seqs.
InOrder(S) == {rows \in [1..Cardinality(S) -> S] : \A i, j \in DOMAIN rows : i < j => rows[i] < rows[j]}

\* Mutant: the rows of a page are the newest, not the first.
LoadNewestPage ==
  /\ server.pc = "load"
  /\ \E rows \in {{s \in committed : server.from <= s /\ s <= server.to}} :
       \E page \in {{s \in rows : Cardinality({t \in rows : t >= s}) <= FetchLimit}} :
         /\ \E sorted \in InOrder(page) : frames' = frames \o sorted
         /\ server' = [server EXCEPT !.sent = IF page = {} THEN @ ELSE Max(page),
                                     !.from = IF page = {} THEN @ ELSE Max(page) + 1,
                                     !.pc = IF Cardinality(page) < FetchLimit THEN "wait" ELSE @]
  /\ UNCHANGED <<next, committed, listening, wire, queue, dropped, pane, faults>>

\* One page of _paginate_seq: a short page ends the load.
LoadPage ==
  /\ server.pc = "load"
  /\ \E page \in {FirstOf({s \in committed : server.from <= s /\ s <= server.to}, FetchLimit)} :
       /\ \E rows \in InOrder(page) : frames' = frames \o rows
       /\ server' = [server EXCEPT !.sent = IF page = {} THEN @ ELSE Max(page),
                                   !.from = IF page = {} THEN @ ELSE Max(page) + 1,
                                   !.pc = IF Cardinality(page) < FetchLimit THEN "wait" ELSE @]
  /\ UNCHANGED <<next, committed, listening, wire, queue, dropped, pane, faults>>

TakeSignal ==
  /\ server.pc = "wait" /\ queue # <<>>
  /\ queue' = Tail(queue)
  /\ server' = IF Head(queue) # CatchUp /\ Head(queue) <= server.sent THEN server
               ELSE [server EXCEPT !.pc = "load", !.from = server.sent + 1,
                                   !.to = IF Head(queue) = CatchUp THEN Unbounded ELSE Head(queue)]
  /\ UNCHANGED <<next, committed, listening, wire, dropped, frames, pane, faults>>

\* The connection to the browser breaks, or a query of the generator fails: the
\* generator unsubscribes, what was under way is lost.
StreamBreaks ==
  /\ Streaming /\ Fault
  /\ server' = [server EXCEPT !.pc = "closed"] /\ frames' = <<>>
  /\ queue' = <<>> /\ dropped' = FALSE
  /\ UNCHANGED <<next, committed, listening, wire, pane>>

-----------------------------------------------------------------------------
(* The pane.                                                               *)

\* The pane's events become `events`, and lastSeqRef follows their highest when
\* that changes; `last` is what the handler itself left in it.
Show(events, last) ==
  /\ shown' = events /\ seen' = seen \cup events
  /\ lastSeq' = IF Highest(events) # Highest(shown) THEN Highest(events) ELSE last

\* A message of the stream: known, next, or beyond a gap that is fetched first.
Receive ==
  /\ frames # <<>> /\ frames' = Tail(frames)
  /\ \E s \in {Head(frames)} :
       \/ s <= lastSeq /\ UNCHANGED <<shown, lastSeq, seen, backfills>>
       \/ s = lastSeq + 1 /\ Show(shown \cup {s}, s) /\ UNCHANGED backfills
       \/ /\ s > lastSeq + 1
          /\ backfills' = backfills \cup {[from |-> lastSeq + 1, seq |-> s]}
          /\ UNCHANGED <<shown, lastSeq, seen>>
  /\ UNCHANGED <<next, committed, listening, wire, queue, dropped, server, loaded, answer, faults>>

Missing(b) == FirstOf({s \in committed : b.from <= s /\ s < b.seq}, ListLimit)

BackfillArrives(b) ==
  /\ Show(shown \cup Missing(b) \cup {b.seq}, b.seq)
  /\ backfills' = backfills \ {b}
  /\ UNCHANGED <<next, committed, listening, wire, queue, dropped, stream, loaded, answer, faults>>

\* The request fails: the pane goes on without what the gap held.
BackfillFails(b) ==
  /\ Fault
  /\ Show(shown \cup {b.seq}, Max({lastSeq, b.seq}))
  /\ backfills' = backfills \ {b}
  /\ UNCHANGED <<next, committed, listening, wire, queue, dropped, stream, loaded, answer>>

\* The backlog query, when the pane opens and when its window is focused again.
QueryBacklog ==
  /\ answer = NoBacklog
  /\ IF loaded = NoBacklog THEN UNCHANGED faults ELSE Fault
  /\ answer' = FirstOf(committed, ListLimit)
  /\ UNCHANGED <<next, committed, listening, wire, queue, dropped, stream, loaded, shown,
                 lastSeq, backfills, seen>>

\* Its answer replaces what the pane shows, unless it is the one it already had.
BacklogArrives ==
  /\ answer # NoBacklog
  /\ loaded' = answer /\ answer' = NoBacklog
  /\ IF answer = loaded THEN UNCHANGED <<shown, lastSeq, seen>> ELSE Show(answer, lastSeq)
  /\ UNCHANGED <<next, committed, listening, wire, queue, dropped, stream, backfills, faults>>

-----------------------------------------------------------------------------
Commits == \E last \in next..MaxSeq : last < next + 2 /\ \E poison \in SUBSET (next..last) : Commit(last, poison)
BackfillEnds == \E b \in backfills : BackfillArrives(b)
BackfillLost == \E b \in backfills : BackfillFails(b)

Next ==
  \/ Commits \/ Notified \/ ListenerDrops \/ ListenerConnects
  \/ Open \/ LoadPage \/ TakeSignal \/ StreamBreaks
  \/ Receive \/ BackfillEnds \/ BackfillLost \/ QueryBacklog \/ BacklogArrives

\* The tasks of the loop and the browser's handlers go on; nothing has to be
\* committed and nothing has to fail.
Fairness ==
  /\ WF_vars(Notified) /\ WF_vars(ListenerConnects)
  /\ WF_vars(Open) /\ WF_vars(LoadPage) /\ WF_vars(TakeSignal)
  /\ WF_vars(Receive) /\ WF_vars(BackfillEnds)
  /\ WF_vars(QueryBacklog) /\ WF_vars(BacklogArrives)

Spec == Init /\ [][Next]_vars /\ Fairness

-----------------------------------------------------------------------------
\* What the pane has let pass it has shown: an event at or below lastSeqRef, which
\* no message of the stream will bring again, was on the screen once or waits for
\* the gap before it, whatever gaps, failed backfills, reconnections and late backlogs came between
\* (useSessionEventStream.ts:38-70).
NothingPassedUnseen ==
  \A s \in committed : s <= lastSeq => s \in seen \/ \E b \in backfills : b.seq = s

\* Every stored event reaches the pane, over lost notifications, reconnections of
\* either side and gaps, unless a signal was dropped at the subscription's full
\* queue: nothing makes up for that until the next signal (listen.py:75-83).
EventsArrive == \A s \in 0..MaxSeq : (s \in committed) ~> (s \in seen \/ dropped)
=============================================================================
