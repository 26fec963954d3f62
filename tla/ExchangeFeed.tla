---------------------------- MODULE ExchangeFeed ----------------------------
(***************************************************************************)
(* How the inspector's list of exchanges follows a run: the events of      *)
(* broadcast.py through a bounded queue and a server-sent stream           *)
(* (api/v1/stream.py), and the list that is fetched and then patched by    *)
(* them (exchangeStreamEvents.ts, useExchanges.ts, useExchangeStream.ts).  *)
(* The events of a pause, which take the same queue, are in PausedEditor.  *)
(***************************************************************************)
EXTENDS Naturals, Sequences, FiniteSets, SequencesExt

CONSTANTS
  Flows,         \* HTTP requests of the run, one exchange each
  QueueMaxSize,  \* of a subscriber's queue
  MaxTrouble     \* bound: broken connections, failed fetches, reloads

NoRow == "none"

VARIABLES
  index,    \* index[f]: NoRow, "waiting", "answered" or "deleted": the row of the exchange
  stream,   \* [on, queue]: the subscription and what it has yet to yield
  link,     \* [connected, before]: what the page knows of its EventSource
  list,     \* list[f]: the row in the cached list
  fetch,    \* [at, rows, known]: the list query; known: it has data
  blind,    \* history: exchanges of which an event was lost or overtaken
  since,    \* history: those lost or applied since the index was read
  trouble

vars == <<index, stream, link, list, fetch, blind, since, trouble>>

\* What a page that has just been loaded holds.
NoLink == [connected |-> FALSE, before |-> FALSE]
NoList == [f \in Flows |-> NoRow]
FirstFetch == [at |-> "asked", rows |-> NoList, known |-> FALSE]
Off == [on |-> FALSE, queue |-> <<>>]

Listed(row) == IF row = "deleted" THEN NoRow ELSE row

-----------------------------------------------------------------------------
(* The proxy and the broadcaster.                                          *)

\* A page whose first connection has not opened, or whose first list has not come,
\* does not ask again for what it misses.
Unrepaired == ~link.before \/ ~fetch.known
Misses(F) == blind' = blind \cup F /\ since' = since \cup F

Emit(f, row) ==
  IF ~stream.on THEN UNCHANGED stream /\ Misses(IF Unrepaired THEN {f} ELSE {})
  ELSE IF Len(stream.queue) = QueueMaxSize THEN UNCHANGED stream /\ Misses({f})
  ELSE stream' = [stream EXCEPT !.queue = Append(@, [flow |-> f, row |-> row])] /\ Misses({})

\* The exchange is stored as waiting, then answered, or deleted with its dropped or dead flow.
Record(f, from, row) ==
  /\ index[f] = from /\ index' = [index EXCEPT ![f] = row]
  /\ Emit(f, Listed(row))
  /\ UNCHANGED <<link, list, fetch, trouble>>

-----------------------------------------------------------------------------
(* The stream and the list.                                                *)

Trouble == trouble < MaxTrouble /\ trouble' = trouble + 1

\* stream_run subscribes as it answers.
Subscribe ==
  /\ ~stream.on /\ ~link.connected
  /\ stream' = [on |-> TRUE, queue |-> <<>>]
  /\ UNCHANGED <<index, link, list, fetch, blind, since, trouble>>

\* invalidateQueries: a fetch that is under way is cancelled once there is data.
Refetch(x) == IF x.known \/ x.at = "idle" THEN [x EXCEPT !.at = "asked"] ELSE x

\* A reconnect that asks for nothing again.
OpenedWithoutRefetch ==
  /\ stream.on /\ ~link.connected
  /\ link' = [connected |-> TRUE, before |-> TRUE]
  /\ UNCHANGED <<index, stream, list, fetch, blind, since, trouble>>

Opened ==
  /\ stream.on /\ ~link.connected
  /\ link' = [connected |-> TRUE, before |-> TRUE]
  /\ fetch' = IF link.before THEN Refetch(fetch) ELSE fetch
  /\ UNCHANGED <<index, stream, list, blind, since, trouble>>

Broken ==
  /\ stream.on /\ Trouble
  /\ stream' = Off
  /\ Misses(IF Unrepaired THEN {e.flow : e \in ToSet(stream.queue)} ELSE {})
  /\ link' = [link EXCEPT !.connected = FALSE]
  /\ UNCHANGED <<index, list, fetch>>

\* applyExchangeStreamEvent: an event is put into the list, also into one that was never fetched.
Deliver ==
  /\ link.connected /\ stream.queue # <<>>
  /\ stream' = [stream EXCEPT !.queue = Tail(@)]
  /\ \E e \in {Head(stream.queue)} : list' = [list EXCEPT ![e.flow] = e.row] /\ since' = since \cup {e.flow}
  /\ fetch' = [fetch EXCEPT !.known = TRUE]
  /\ UNCHANGED <<index, link, blind, trouble>>

\* The read makes good what was lost, unless an older event of the exchange is still queued.
ReadIndex ==
  /\ fetch.at = "asked"
  /\ fetch' = [fetch EXCEPT !.at = "read", !.rows = [f \in Flows |-> Listed(index[f])]]
  /\ since' = {f \in blind : \E e \in ToSet(stream.queue) : e.flow = f}
  /\ UNCHANGED <<index, stream, link, list, blind, trouble>>

\* The answer replaces the list, with what was put into it since the read.
Fetched ==
  /\ fetch.at = "read"
  /\ fetch' = [fetch EXCEPT !.at = "idle", !.known = TRUE]
  /\ list' = fetch.rows
  /\ blind' = since
  /\ UNCHANGED <<index, stream, link, since, trouble>>

FetchFails ==
  /\ fetch.at \in {"asked", "read"} /\ Trouble
  /\ fetch' = [fetch EXCEPT !.at = "failed"]
  /\ UNCHANGED <<index, stream, link, list, blind, since>>

Reload ==
  /\ Trouble /\ stream' = Off
  /\ link' = NoLink /\ list' = NoList /\ fetch' = FirstFetch
  /\ blind' = {} /\ since' = {}
  /\ UNCHANGED index

Init ==
  /\ index = NoList /\ stream = Off
  /\ link = NoLink /\ list = NoList /\ fetch = FirstFetch
  /\ blind = {} /\ since = {} /\ trouble = 0

Next ==
  \/ \E f \in Flows : Record(f, NoRow, "waiting") \/ Record(f, "waiting", "answered") \/ Record(f, "waiting", "deleted")
  \/ Subscribe \/ Opened \/ Broken \/ Deliver
  \/ ReadIndex \/ Fetched \/ FetchFails \/ Reload

Spec == Init /\ [][Next]_vars

-----------------------------------------------------------------------------
\* Once the page is connected and has what it asked for, its list shows every exchange as
\* the index has it, whatever was missed while the connection was broken: except one whose
\* event met a full queue, came while a list read before it was on its way, or fell
\* between the first list and the first connection.
ListFollows ==
  link.connected /\ stream.on /\ stream.queue = <<>> /\ fetch.at = "idle" /\ fetch.known =>
    \A f \in Flows \ blind : list[f] = Listed(index[f])
=============================================================================
