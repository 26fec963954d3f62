--------------------------- MODULE TerminalFanout ---------------------------
(***************************************************************************)
(* The terminal output of one managed run (run_terminal.py) and the socket *)
(* bridge that sends it to each viewer (bridge_attached_run_terminal and   *)
(* _send_attachment_output in api/v1/run_routes.py).                       *)
(*                                                                         *)
(* What the PTY writes is abstracted to the positions of its bytes: a      *)
(* chunk is the half-open range [from, to) it covers.  The module runs on  *)
(* one asyncio loop; a bridge suspends at every send.                      *)
(***************************************************************************)
EXTENDS Integers, SequencesExt

CONSTANTS
  Viewers,     \* the attachments, each with its socket
  MaxBytes,    \* scrollback_bytes, which may be 0
  QueueSize,   \* attachment_queue_size, at least 1
  ReadSizes,   \* the sizes of what one read of the PTY can return, none of them 0
  Output,      \* bound: bytes the PTY writes in all
  None

VARIABLES
  emitted,     \* bytes the PTY has written so far
  ring,        \* the chunks of the ScrollbackRing
  total,       \* its _total_bytes
  truncated,   \* its _truncated
  attached,    \* the keys of attachments
  reason,      \* closed_reason of each attachment
  replay,      \* the part of its scrollback a bridge has still to send
  queue,       \* the queue of each attachment
  got,         \* the ranges each viewer received, in order
  socket       \* how far each viewer's socket has come

vars == <<emitted, ring, total, truncated, attached, reason, replay, queue, got, socket>>

-----------------------------------------------------------------------------
Chunks == {c \in [from : 0..Output, to : 0..Output] : c.from < c.to}
Size(c) == c.to - c.from

\* The bytes of the first i chunks of s, for every i.
Sums(s) ==
  LET sum[i \in 0..Len(s)] == IF i = 0 THEN 0 ELSE sum[i - 1] + Size(s[i])
  IN sum

\* A queue holds chunks and, at its end, the AttachmentClosed item.
ClosedItem == [closed |-> TRUE]
IsClosed(item) == "closed" \in DOMAIN item

Init ==
  /\ emitted = 0
  /\ ring = <<>>
  /\ total = 0
  /\ truncated = FALSE
  /\ attached = {}
  /\ reason = [v \in Viewers |-> None]
  /\ replay = [v \in Viewers |-> <<>>]
  /\ queue = [v \in Viewers |-> <<>>]
  /\ got = [v \in Viewers |-> <<>>]
  /\ socket = [v \in Viewers |-> "away"]

-----------------------------------------------------------------------------
(* ScrollbackRing.append                                                   *)

\* A chunk larger than the ring keeps its tail.
Stored(c) == IF Size(c) > MaxBytes THEN [c EXCEPT !.from = c.to - MaxBytes] ELSE c

\* What an append adds to _total_bytes.
Counted(c) == Size(Stored(c))

\* _trim: chunks go, oldest first, until the rest fits or none is left.
Fits(s, bytes, k) == bytes - Sums(s)[k] <= MaxBytes \/ k = Len(s)
Overflow(s, bytes) ==
  CHOOSE k \in 0..Len(s) : Fits(s, bytes, k) /\ \A j \in 0..k - 1 : ~Fits(s, bytes, j)

AppendToRing(c) ==
  LET grown == Append(ring, Stored(c))
      bytes == total + Counted(c)
      k == Overflow(grown, bytes)
  IN IF MaxBytes = 0
     THEN truncated' = TRUE /\ UNCHANGED <<ring, total>>
     ELSE /\ ring' = SubSeq(grown, k + 1, Len(grown))
          /\ total' = bytes - Sums(grown)[k]
          /\ truncated' = (truncated \/ k > 0 \/ Stored(c) # c)

Full(v) == Len(queue[v]) >= QueueSize

WithItem(q, item) == IF Len(q) >= QueueSize THEN q ELSE Append(q, item)

\* A viewer whose queue is full is taken off the fan-out; so is its close
\* item, which would need a place in the same queue.
Emit(n) ==
  LET c == [from |-> emitted, to |-> emitted + n]
      slow == {v \in attached : Full(v)}
  IN /\ emitted + n <= Output
     /\ emitted' = emitted + n
     /\ AppendToRing(c)
     /\ queue' = [v \in Viewers |->
                    IF v \in slow THEN WithItem(queue[v], ClosedItem)
                    ELSE IF v \in attached THEN Append(queue[v], c) ELSE queue[v]]
     /\ attached' = attached \ slow
     /\ reason' = [v \in Viewers |-> IF v \in slow THEN "overload" ELSE reason[v]]
     /\ UNCHANGED <<replay, got, socket>>

-----------------------------------------------------------------------------
(* Viewers                                                                 *)

\* Mutant: the scrollback is read when the bridge gets to it, after the
\* attachment has begun to receive chunks.
AttachLateSnapshot(v) ==
  /\ socket[v] = "away"
  /\ attached' = attached \cup {v}
  /\ socket' = [socket EXCEPT ![v] = "replaying"]
  /\ \E k \in 0..Len(ring) : replay' = [replay EXCEPT ![v] = SubSeq(ring, 1, k)]
  /\ UNCHANGED <<emitted, ring, total, truncated, reason, queue, got>>

\* The snapshot and the registration are one step, so that live chunks
\* follow the replayed ones without a gap.
Attach(v) ==
  /\ socket[v] = "away"
  /\ attached' = attached \cup {v}
  /\ replay' = [replay EXCEPT ![v] = ring]
  /\ socket' = [socket EXCEPT ![v] = "replaying"]
  /\ UNCHANGED <<emitted, ring, total, truncated, reason, queue, got>>

\* The bridge sends the scrollback chunk by chunk, then its end.
Replay(v) ==
  /\ socket[v] = "replaying"
  /\ IF replay[v] = <<>>
     THEN socket' = [socket EXCEPT ![v] = "live"] /\ UNCHANGED <<replay, got>>
     ELSE /\ replay' = [replay EXCEPT ![v] = Tail(@)]
          /\ got' = [got EXCEPT ![v] = Append(@, Head(replay[v]))]
          /\ UNCHANGED socket
  /\ UNCHANGED <<emitted, ring, total, truncated, attached, reason, queue>>

\* _send_attachment_output: a chunk is sent; the close item ends the bridge.
Deliver(v) ==
  /\ socket[v] = "live"
  /\ queue[v] # <<>>
  /\ queue' = [queue EXCEPT ![v] = Tail(@)]
  /\ IF IsClosed(Head(queue[v]))
     THEN socket' = [socket EXCEPT ![v] = "told"] /\ UNCHANGED got
     ELSE got' = [got EXCEPT ![v] = Append(@, Head(queue[v]))] /\ UNCHANGED socket
  /\ UNCHANGED <<emitted, ring, total, truncated, attached, reason, replay>>

\* receive_websocket_input: a control frame that is no resize within bounds is
\* answered with an error, and the socket closed; nothing is sent after it.
Refuse(v) ==
  /\ socket[v] = "live"
  /\ socket' = [socket EXCEPT ![v] = "refused"]
  /\ UNCHANGED <<emitted, ring, total, truncated, attached, reason, replay, queue, got>>

\* The browser closes the socket, or either half of the bridge ended: the other
\* is cancelled and the viewer detaches.
Leave(v) ==
  /\ socket[v] \in {"replaying", "live", "told", "refused"}
  /\ socket' = [socket EXCEPT ![v] = "gone"]
  /\ attached' = attached \ {v}
  /\ UNCHANGED <<emitted, ring, total, truncated, reason, replay, queue, got>>

\* close_all: the run ends, its viewers are told if their queues have room.
CloseAll ==
  /\ queue' = [v \in Viewers |-> IF v \in attached THEN WithItem(queue[v], ClosedItem)
                                 ELSE queue[v]]
  /\ reason' = [v \in Viewers |-> IF v \in attached THEN "ended" ELSE reason[v]]
  /\ attached' = {}
  /\ UNCHANGED <<emitted, ring, total, truncated, replay, got, socket>>

Next ==
  \/ \E n \in ReadSizes : Emit(n)
  \/ \E v \in Viewers : Attach(v) \/ Replay(v) \/ Deliver(v) \/ Refuse(v) \/ Leave(v)
  \/ CloseAll

Spec == Init /\ [][Next]_vars

-----------------------------------------------------------------------------
(* Properties                                                              *)

Adjoining(s) == \A i \in 1..Len(s) - 1 : s[i].to = s[i + 1].from
Live(q) == IF q # <<>> /\ IsClosed(Last(q)) THEN Front(q) ELSE q

\* All a viewer was, or will be, sent of the output.
Stream(v) == got[v] \o replay[v] \o Live(queue[v])

\* What a viewer sees is the output without a gap and without a repetition,
\* from where its scrollback began, however slowly it reads, and up to the
\* end of the output for as long as it stays attached.
StreamIsGapless ==
  \A v \in Viewers :
    /\ Adjoining(Stream(v))
    /\ v \in attached /\ Stream(v) # <<>> => Last(Stream(v)).to = emitted

-----------------------------------------------------------------------------
(* What the sources say of the fan-out and it does not do                  *)

\* run_terminal.py: "terminal output queue overloaded; reconnect to resume" is
\* sent as attachment_overloaded (run_routes.py:621) to a viewer that was
\* closed: once it has read its queue it is told, and does not wait for ever.
ClosedViewerIsTold ==
  \A v \in Viewers : reason[v] # None /\ socket[v] = "live" => queue[v] # <<>>
=============================================================================
