------------------------------ MODULE Timeline ------------------------------
(***************************************************************************)
(* The timeline of a session (session/timeline.py, turn_index.py) and its  *)
(* live form: the stream projects one page of rows at a time, with the     *)
(* message a page leans on fetched beside it (session/timeline_stream.py,  *)
(* api/v1/session_routes.py), and a consumer keeps the newest envelope of  *)
(* each item.  Rows are their seqs; what an item says is its turn number,  *)
(* its duration badges and the subagents attached to it.  The page loop is *)
(* SessionStream's; here a page is any the loop can ask for.               *)
(***************************************************************************)
EXTENDS Integers, Sequences, FiniteSets, FiniteSetsExt

CONSTANTS
  MaxRows,      \* bound: records of the session
  FetchLimit,   \* STREAM_FETCH_LIMIT
  Children      \* sessions that may be spawned from this one

VARIABLES
  row,    \* row[s + 1]: the kind of the row with seq s, "none" where there is no row
  fork,   \* fork[c]: forked_at_seq of child c, NotYet before c is stored
  sent,   \* the stream has sent the rows up to here
  view,   \* the consumer's items
  early   \* history: children stored before the row they were forked at was sent

vars == <<row, fork, sent, view, early>>

NotYet == -2
\* EventRow.kind, and what _meta_item makes of a native record: a badge of the
\* message before it, an item, or nothing.
Kinds == {"turn", "duration", "meta", "hidden", "none"}
Seqs == 0..(Len(row) - 1)
Rows == {s \in Seqs : row[s + 1] # "none"}
OfKind(R, kind) == {s \in R : row[s + 1] = kind}
Highest(S) == IF S = {} THEN -1 ELSE Max(S)

-----------------------------------------------------------------------------
(* The projection of the rows R, asked for from seq `from`.                *)

\* The message an entry at seq s belongs to: the nearest one at or before it.
MessageAt(R, s) == Highest({m \in OfKind(R, "turn") : m <= s})

\* turn_indices_by_seq: `offset` turns came before R; 0 stands for None.
TurnIndex(R, s, offset) == offset + Cardinality({m \in OfKind(R, "turn") : m <= s})

Badges(R, m) == {d \in OfKind(R, "duration") : MessageAt(R, d) = m}

\* _child_subagent_is_visible: forked at a row of the window, or in its span.
Visible(R, from) ==
  {c \in Children : /\ fork[c] # NotYet
                    /\ fork[c] \in R \/ (R # {} /\ from <= fork[c] /\ fork[c] <= Max(R))}

Message(R, from, offset, m) ==
  [id |-> <<"message", m>>, seq |-> m, turn |-> TurnIndex(R, m, offset), badges |-> Badges(R, m),
   refs |-> {c \in Visible(R, from) : MessageAt(R, fork[c]) = m}]

Plain(R, offset, id, s) ==
  [id |-> id, seq |-> s, turn |-> IF s \in R THEN TurnIndex(R, s, offset) ELSE 0,
   badges |-> {}, refs |-> {}]

Project(R, from, offset) ==
  {Message(R, from, offset, m) : m \in OfKind(R, "turn")}
    \cup {Plain(R, offset, <<"meta", s>>, s) : s \in OfKind(R, "meta")}
    \cup {Plain(R, offset, <<c, fork[c]>>, fork[c]) : c \in Visible(R, from)}

-----------------------------------------------------------------------------
(* A page of the stream.                                                   *)

\* required_timeline_anchor_before_seq: a duration no message of the page precedes.
Unanchored(R) == {d \in OfKind(R, "duration") : MessageAt(R, d) = -1}

\* Mutant: the anchor is the last message of the session, not the one before.
AnchorFirst(R) == IF Unanchored(R) = {} THEN {}
                  ELSE {m \in {Highest(OfKind(Rows, "turn"))} : m # -1}

Anchor(R) == IF Unanchored(R) = {} THEN {}
             ELSE {m \in {MessageAt(Rows, Min(Unanchored(R)))} : m # -1}

\* The envelopes of the page of R: an item before the page is newer than it was.
Envelopes(R, from) ==
  {[item |-> i, revision |-> IF i.seq < from THEN Max(R) ELSE i.seq] :
     i \in Project(R \cup Anchor(R), from,
                   Cardinality({m \in OfKind(Rows, "turn") : m < Min(R \cup Anchor(R))}))}

\* The consumer: of the envelopes of an item it keeps the newest.
Upsert(held, new) ==
  new \cup {e \in held : \A n \in new : n.item.id = e.item.id => n.revision < e.revision}

-----------------------------------------------------------------------------
Init == row = <<>> /\ fork = [c \in Children |-> NotYet] /\ sent = -1 /\ view = {} /\ early = {}

\* A harness writes one duration for a turn, after its messages.
MayFollow(kind) ==
  kind = "duration" => MessageAt(Rows, Len(row)) > Highest(OfKind(Rows, "duration"))

Store(kind) ==
  /\ Len(row) < MaxRows /\ MayFollow(kind)
  /\ row' = Append(row, kind)
  /\ UNCHANGED <<fork, sent, view, early>>

\* The transcript of a subagent is found: its session names the message that
\* spawned it.
Spawn(c) ==
  /\ fork[c] = NotYet
  /\ \E s \in OfKind(Rows, "turn") :
       /\ fork' = [fork EXCEPT ![c] = s]
       /\ early' = IF sent < s THEN early \cup {c} ELSE early
  /\ UNCHANGED <<row, sent, view>>

\* A page the loop fetches: the first rows after what was sent, up to a signal's
\* last seq or to the limit.
Page ==
  \E to \in (sent + 1)..(Len(row) - 1) :
    \E R \in {{s \in Rows : sent < s /\ s <= to}} :
      /\ R # {} /\ Cardinality(R) <= FetchLimit
      /\ view' = Upsert(view, Envelopes(R, sent + 1))
      /\ sent' = Max(R)
      /\ UNCHANGED <<row, fork, early>>

Next == (\E kind \in Kinds : Store(kind)) \/ (\E c \in Children : Spawn(c)) \/ Page

Spec == Init /\ [][Next]_vars

-----------------------------------------------------------------------------
Held == {e.item : e \in view}
Backlog == Project({s \in Rows : s <= sent}, 0, 0)

\* Whatever pages the stream was cut into, the consumer holds the items the timeline
\* of everything sent would show: the same messages and records, each with its turn
\* number and its duration, and the subagents known in time
\* (test_session_routes.py:393, timeline_stream.py:89-98).
StreamedIsBacklog ==
  /\ \A i \in Held : \E b \in Backlog : [i EXCEPT !.refs = {}] = [b EXCEPT !.refs = {}] /\ i.refs \subseteq b.refs
  /\ \A b \in Backlog : b.id[1] \in early \cup {"message", "meta"} => \E i \in Held : i.id = b.id /\ b.refs \cap early \subseteq i.refs
=============================================================================
