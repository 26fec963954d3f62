--------------------------- MODULE CodexDerivation ---------------------------
(* The fold that turns the captured frames of one Codex turn into semantic *)
(* events and a turn summary (codex/derivation_engine.py), in its two      *)
(* forms: a replay of the whole slice, and an advance from the cursor and  *)
(* the summary that were stored while the turn was open.  Also the rebuild *)
(* from stored artifacts (codex/repair_rebuild.py).                        *)
(*                                                                         *)
(* A frame is [from, kind, id, n, dropped]: `id' names the item or call it *)
(* is about (None when the payload has none), `n' is the length of its     *)
(* text, or the number of tool outputs a turn start submits.  Texts are    *)
(* their lengths, the arguments of tool calls and timestamps are left out. *)
(* Frame k of a slice has message_index k - 1; a slice starts at its turn, *)
(* so request_message_index is 0.                                          *)
EXTENDS Integers, Sequences, Functions, FiniteSets, SequencesExt

CONSTANTS None,       \* no item id
          Anon,       \* CODEX_ANONYMOUS_ASSISTANT_ITEM_ID
          NoTurn,     \* the deriver returned None
          Raised      \* the deriver raised ValueError

Terminal == {"completed", "failed"}

\* The facts of the operator in the order of their timestamps and precedence.
FactOrder == <<"request_curated", "breakpoint_paused", "breakpoint_released">>
InOrder(facts) == SelectSeq(FactOrder, LAMBDA k : k \in facts)

----------------------------------------------------------------------------
(* The items and calls the stream has opened and not completed.            *)

Text(items, id) == IF id \in DOMAIN items THEN items[id] ELSE 0
Put(items, id, n) == [i \in DOMAIN items \cup {id} |-> IF i = id THEN n ELSE items[i]]
Pop(items, ids) == Restrict(items, DOMAIN items \ ids)
OpenText(items) == FoldFunction(+, 0, items)
ItemKey(f) == IF f.id = None THEN Anon ELSE f.id

OpenItemsAfter(f, items) ==
  CASE f.kind = "delta" /\ f.n > 0 -> Put(items, ItemKey(f), Text(items, ItemKey(f)) + f.n)
    [] f.kind = "text_done" -> Put(items, ItemKey(f), f.n)
    [] f.kind = "message_added" /\ f.id \notin DOMAIN items \cup {None} -> Put(items, f.id, 0)
    [] OTHER -> items

\* Any added item that carries a key opens a call, a message as well.
OpenCallsAfter(f, calls) ==
  IF f.kind \in {"message_added", "call_added", "arguments"} THEN calls \cup ({f.id} \ {None})
  ELSE calls

----------------------------------------------------------------------------
(* The state of a derivation, _CodexTurnDerivationState.                   *)

Fresh == [result |-> "ok", started |-> FALSE, last |-> -1, seq |-> 1, events |-> <<>>,
          items |-> <<>>, calls |-> {}, text |-> 0, done |-> 0, status |-> "open", at |-> None]

\* Mutant: what is still open is committed as well.
ResumedWithOpenText(turn) ==
  [Fresh EXCEPT !.started = turn.cursor.next > 0 \/ turn.cursor.seq > 1,
                !.last = turn.cursor.next - 1, !.seq = turn.cursor.seq,
                !.items = turn.cursor.items, !.calls = turn.cursor.calls,
                !.text = turn.text, !.done = turn.calls]

\* _initial_derivation_state of an advance: what is committed is what the
\* summary counts without the text still open.
Resumed(turn) ==
  [Fresh EXCEPT !.started = turn.cursor.next > 0 \/ turn.cursor.seq > 1,
                !.last = turn.cursor.next - 1, !.seq = turn.cursor.seq,
                !.items = turn.cursor.items, !.calls = turn.cursor.calls,
                !.text = LET t == turn.text - OpenText(turn.cursor.items)
                         IN IF t < 0 THEN 0 ELSE t,
                !.done = turn.calls]

Emit(d, kind, ref, n) ==
  [d EXCEPT !.seq = @ + 1,
            !.events = Append(@, [seq |-> d.seq, kind |-> kind, ref |-> ref, n |-> n])]

Starts(d, f, facts) ==
  LET opened == Emit([d EXCEPT !.started = TRUE], "turn_started", d.last, 0)
      told   == FoldLeft(LAMBDA e, k : Emit(e, k, None, 0), opened, InOrder(facts))
  IN FoldLeft(LAMBDA e, k : Emit(e, "tool_output_submitted", d.last, 0), told,
              [k \in 1..f.n |-> k])

AssistantCompleted(d, f) ==
  LET anonymous == Text(d.items, Anon)
      text == IF f.n > 0 THEN f.n
              ELSE IF Text(d.items, f.id) > 0 THEN Text(d.items, f.id) ELSE anonymous
      closed == {f.id} \cup (IF anonymous > 0 THEN {Anon} ELSE {})
  IN Emit([d EXCEPT !.items = Pop(@, closed), !.text = @ + text],
          "assistant_item_completed", d.last, text)

ToolCallCompleted(d, f) ==
  Emit([d EXCEPT !.calls = @ \ {f.id}, !.done = @ + 1], "tool_call_completed", d.last, 0)

Ends(d, f) ==
  Emit([d EXCEPT !.status = f.kind, !.at = d.last],
       IF f.kind = "completed" THEN "response_completed" ELSE "response_failed", d.last, 0)

FromServer(d, f) ==
  LET e == [d EXCEPT !.items = OpenItemsAfter(f, @), !.calls = OpenCallsAfter(f, @)]
  IN CASE f.kind = "message_done" -> AssistantCompleted(e, f)
       [] f.kind = "reasoning_done" -> Emit(e, "assistant_item_completed", e.last, f.n)
       [] f.kind = "call_done" -> ToolCallCompleted(e, f)
       [] f.kind \in Terminal -> Ends(e, f)
       [] OTHER -> e

\* _advance_derivation_state for the frame with message_index i.
Advance(d, f, i, facts) ==
  LET e == [d EXCEPT !.last = i]
      begins == f.from = "client" /\ f.kind = "create"
  IN CASE d.result # "ok" -> d
       [] d.status # "open" -> [d EXCEPT !.result = Raised]
       [] f.dropped -> IF d.started \/ i # 0 THEN e ELSE [e EXCEPT !.result = NoTurn]
       [] ~d.started -> IF begins /\ i = 0 THEN Starts(e, f, facts)
                        ELSE [e EXCEPT !.result = NoTurn]
       [] begins -> [e EXCEPT !.result = Raised]
       [] f.from = "server" -> FromServer(e, f)
       [] OTHER -> e

\* The derivation over the frames after the first `from' ones.
Fold(d, frames, from, facts) ==
  LET run[k \in from..Len(frames)] ==
        IF k = from THEN d ELSE Advance(run[k - 1], frames[k], k - 1, facts)
  IN IF Len(frames) <= from THEN d ELSE run[Len(frames)]

Summary(d, status, calls, cursor) ==
  [status |-> status, text |-> d.text + OpenText(d.items), calls |-> calls,
   last |-> d.last, at |-> d.at, cursor |-> cursor]

\* _finalize_derivation_state: a terminal frame first, a close of the socket
\* second; otherwise the turn stays open and carries its cursor.
Artifacts(d, closed) ==
  LET all == d.done + Cardinality(d.calls)
      status == IF d.status # "open" THEN d.status
                ELSE IF closed THEN "interrupted" ELSE "open"
      cursor == [next |-> d.last + 1, seq |-> d.seq, items |-> d.items, calls |-> d.calls]
  IN CASE d.result # "ok" -> d.result
       [] ~d.started -> NoTurn
       [] status = "open" -> [events |-> d.events, turn |-> Summary(d, "open", d.done, cursor)]
       [] OTHER -> [events |-> Emit(d, "turn_finalized", None, 0).events,
                    turn |-> Summary(d, status, all, None)]

\* derive_codex_turn_replay
Replay(frames, facts, closed) == Artifacts(Fold(Fresh, frames, 0, facts), closed)

\* advance_codex_derived_artifacts: the stored events and the new ones, the
\* new summary.  A turn that is not open is returned as it is.
Incremental(derived, frames, closed) ==
  LET more == Artifacts(Fold(Resumed(derived.turn), frames, derived.turn.cursor.next, {}), closed)
  IN IF derived.turn.status # "open" THEN derived
     ELSE IF more = Raised THEN Raised
     ELSE [more EXCEPT !.events = derived.events \o @]

\* The ranges and markers a turn summary must carry (CodexTurnSummary).
RangesAgree(turn) ==
  /\ turn.last >= 0 /\ (turn.status = "open" <=> turn.cursor # None)
  /\ (turn.status \in Terminal) <=> (turn.at # None)
  /\ turn.at # None => turn.at \in 0..turn.last

\* The contract of events and summary (CodexDerivedTurnArtifacts): without it
\* the stored artifacts count as unsupported and are derived again.
WithinContract(derived) ==
  LET n == Len(derived.events)
  IN /\ RangesAgree(derived.turn)
     /\ \A k \in 1..(n - 1) : derived.events[k + 1].seq = derived.events[k].seq + 1
     /\ derived.turn.status = "open" =>
          /\ derived.turn.cursor.next = derived.turn.last + 1
          /\ derived.turn.cursor.seq = IF n = 0 THEN 1 ELSE derived.events[n].seq + 1

----------------------------------------------------------------------------
(* Repair: the derived artifacts rebuilt from what else is stored.         *)

\* The facts of the operator, as the stored events tell them; a curated
\* request is inferred from the stored IR.
FactsOf(events, curated) ==
  (Range(FactOrder) \cap {events[k].kind : k \in DOMAIN events})
     \cup (IF curated THEN {"request_curated"} ELSE {})

\* rebuild_codex_derived_artifacts: a close counts only without a terminal frame.
Rebuild(frames, events, curated, closed) ==
  LET ended == \E k \in DOMAIN frames : frames[k].from = "server" /\ frames[k].kind \in Terminal
  IN Replay(frames, FactsOf(events, curated), closed /\ ~ended)
=============================================================================
