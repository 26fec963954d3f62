----------------------------- MODULE CodexTurns -----------------------------
(* The turns of one Codex websocket: what the proxy records of them while  *)
(* frames arrive, when a turn pauses at the breakpoint, when it ends, when *)
(* the client starts the next turn over it, and when the socket closes     *)
(* (addon_handlers.py, codex/exchange.py, codex/exchange_derivation.py,    *)
(* codex/transport.py, codex/continuity.py).                               *)
(*                                                                         *)
(* mitmproxy hands the hooks of one flow over one at a time, so a hook is  *)
(* one step, except for the pause.  A read or a write of the store may     *)
(* fail; a write leaves nothing behind then (module ExchangeStore).        *)
EXTENDS CodexDerivation

CONSTANTS ServerFrames,   \* the frames the server may send
          MaxFrames,      \* bound: frames on the socket
          MaxMishaps      \* bound: failing reads and writes

VARIABLES
  shared,     \* the proxy serves several runs: no run id in its settings
  phase,      \* "upgrade" | "open" | "paused" | "closed"
  frames,     \* websocket.messages
  st,         \* CodexTransportState
  rq,         \* RequestFlowState of the flow, or None
  shelf,      \* the pause the flow's metadata holds: "released" or None
  disk,       \* stored exchanges
  nextIndex,  \* next turn index of the thread
  turns,      \* history: the turns the client started
  mishaps

vars == <<shared, phase, frames, st, rq, shelf, disk, nextIndex, turns, mishaps>>

Frame(from, kind, id, n) == [from |-> from, kind |-> kind, id |-> id, n |-> n, dropped |-> FALSE]
Failures == {"none", "read", "write"}
Fails(f) == f # "none"

----------------------------------------------------------------------------
(* What a hook does to the transport state and to the store: w is          *)
(* [st, disk, result], result "ok", "failed" (the call returned False) or  *)
(* "raised" (the hook ends with an exception).                             *)

\* The turn index an exchange is derived with.
Index(alloc) == IF alloc = None THEN 0 ELSE alloc

Here(result) == [st |-> st, disk |-> disk, result |-> result]

\* The frames of the current turn up to the first `upto' (_turn_messages).
Slice(all, upto) == SubSeq(all, st.start, upto)

Facts == (IF rq.curated THEN {"request_curated"} ELSE {})
           \cup (IF shelf = "released" THEN {"breakpoint_paused", "breakpoint_released"} ELSE {})

\* _persist_codex_exchange: a fresh exchange.  The transport state is left alone.
PersistFresh(slice, closed, derived, failure) ==
  CASE derived = Raised -> Here("raised")
    [] Fails(failure) -> Here("failed")
    [] OTHER -> [Here("ok") EXCEPT !.disk = Append(@,
                   [turn |-> rq.turn, index |-> Index(st.alloc), slice |-> slice,
                    closed |-> closed, derived |-> derived, final |-> TRUE])]

\* updated_codex_exchange_artifacts
Updated(id, slice, derived) == [disk EXCEPT ![id].slice = slice, ![id].derived = derived]

\* The stored exchange of a turn, brought to its end.
Finished(id, slice, closed, derived, failure) ==
  CASE failure = "read" \/ derived = Raised -> Here("raised")
    [] failure = "write" -> Here("failed")
    [] OTHER -> [st |-> [st EXCEPT !.prov = None, !.fin = id, !.alloc = None],
                 disk |-> [Updated(id, slice, derived) EXCEPT ![id].closed = closed, ![id].final = TRUE],
                 result |-> "ok"]

\* A turn that is derived already is advanced, any other one replayed.
Derived(known, slice, closed) ==
  IF known = NoTurn THEN Replay(slice, Facts, closed) ELSE Incremental(known, slice, closed)

\* finalize_codex_provisional_exchange
FinalizeTurn(slice, closed, failure) ==
  LET id == IF st.prov # None THEN st.prov ELSE st.fin
  IN CASE rq = None -> Here("failed")
       [] rq # None /\ st.prov = None /\ (st.fin = None \/ ~closed) ->
            PersistFresh(slice, closed, Replay(slice, Facts, closed), failure)
       [] OTHER -> Finished(id, slice, closed, Derived(disk[id].derived, slice, closed), failure)

\* rewrite_codex_provisional_exchange: every failure is caught.
Rewritten(slice, derived, failure) ==
  IF rq = None \/ Fails(failure) \/ derived \in {NoTurn, Raised} THEN Here("failed")
  ELSE [Here("ok") EXCEPT !.disk = Updated(st.prov, slice, derived)]

\* delete_codex_provisional_exchange
DeleteTurn(failure) ==
  IF st.prov = None THEN Here("ok")
  ELSE IF Fails(failure) THEN Here("failed")
  ELSE [st |-> [st EXCEPT !.prov = None, !.fin = None, !.alloc = None],
        disk |-> [disk EXCEPT ![st.prov] = None], result |-> "ok"]

Keep(w) == st' = w.st /\ disk' = w.disk

\* The failures of a step are counted.
Suffers(failures) ==
  /\ mishaps' = mishaps + Cardinality({k \in DOMAIN failures : Fails(failures[k])})
  /\ mishaps' <= MaxMishaps

----------------------------------------------------------------------------
Init ==
  /\ shared \in BOOLEAN /\ phase = "upgrade" /\ frames = <<>>
  /\ st = [prov |-> None, fin |-> None, start |-> None, captured |-> FALSE,
           dropped |-> FALSE, alloc |-> None]
  /\ rq = None /\ shelf = None /\ disk = <<>> /\ nextIndex = 0 /\ turns = <<>> /\ mishaps = 0

\* An exchange that no turn was derived for.
Bare(turn) == [turn |-> turn, index |-> 0, slice |-> <<>>, closed |-> FALSE, derived |-> NoTurn,
               final |-> TRUE]

\* websocket_start
Upgraded ==
  /\ phase = "upgrade" /\ phase' = "open"
  /\ UNCHANGED <<shared, frames, st, rq, shelf, disk, nextIndex, turns, mishaps>>

\* persist_codex_handshake_failure: the upgrade was refused.
UpgradeRefused(failure) ==
  /\ phase = "upgrade" /\ phase' = "closed"
  /\ Suffers(<<failure>>)
  /\ disk' = IF Fails(failure) THEN disk ELSE Append(disk, Bare(0))
  /\ UNCHANGED <<shared, frames, st, rq, shelf, nextIndex, turns>>

\* A frame of the server: a terminal frame finalizes the provisional exchange,
\* any other one advances it.
ServerFrame(f, failure) ==
  LET all == Append(frames, f)
      slice == Slice(all, Len(all))
  IN /\ phase = "open" /\ Len(frames) < MaxFrames
     /\ st.prov = None => ~Fails(failure)
     /\ frames' = all
     /\ Suffers(<<failure>>)
     /\ Keep(IF st.prov = None THEN Here("ok")
             ELSE IF f.kind \in Terminal THEN FinalizeTurn(slice, FALSE, failure)
             ELSE Rewritten(slice, Derived(disk[st.prov].derived, slice, FALSE), failure))
     /\ UNCHANGED <<shared, phase, rq, shelf, nextIndex, turns>>

\* A client frame that starts no turn is only kept with the others.
ClientFrame ==
  /\ phase = "open" /\ Len(frames) < MaxFrames
  /\ frames' = Append(frames, Frame("client", "note", None, 0))
  /\ UNCHANGED <<shared, phase, st, rq, shelf, disk, nextIndex, turns, mishaps>>

\* The allocator's next index for the socket's thread (no turn id in the headers).
Allocated == [st EXCEPT !.captured = TRUE, !.dropped = FALSE, !.alloc = nextIndex]

\* Mutant: a turn start forgets the unfinished turn before it is finalized.
RotatedForgetting(w) == [Here("ok") EXCEPT !.st = [Allocated EXCEPT !.prov = None]]

\* What the hook makes of the turn that was still provisional, if any: the
\* new turn's allocation is already in the state, and goes if w finalized.
Rotated(w) ==
  CASE st.prov = None -> [Here("ok") EXCEPT !.st = Allocated]
    [] st.prov # None /\ w.st = st -> [w EXCEPT !.st = Allocated]
    [] OTHER -> [w EXCEPT !.st.captured = TRUE, !.st.dropped = FALSE]

\* persist_codex_provisional_exchange for the new turn, after the rotation.
Provisional(w, turn, request, failure) ==
  IF Fails(failure) THEN [w EXCEPT !.st.prov = None]
  ELSE [w EXCEPT !.st.prov = Len(w.disk) + 1,
                 !.disk = Append(@, [turn |-> turn, index |-> Index(w.st.alloc),
                                     slice |-> <<request>>, closed |-> FALSE,
                                     derived |-> Replay(<<request>>, {}, FALSE),
                                     final |-> FALSE])]

\* The new turn, once the previous one is rotated out: what the flow holds and
\* what is stored.  A request that does not parse is stored as such, and the
\* flow forgets its request.
Begins(w, turn, request, parsed, failure) ==
  /\ shelf' = None
  /\ rq' = IF parsed THEN [turn |-> turn, curated |-> FALSE] ELSE None
  /\ Keep(CASE parsed -> Provisional(w, turn, request, failure)
            [] ~parsed /\ Fails(failure) -> w
            [] OTHER -> [w EXCEPT !.disk = Append(@, Bare(turn))])

\* A turn start: the previous turn is finalized, then the new one is stored
\* provisionally and, if the breakpoint is armed, paused.
TurnStart(parsed, armed, failures) ==
  LET request == Frame("client", "create", None, 0)
      at == Len(frames) + 1
      turn == Len(turns) + 1
  IN /\ phase = "open" /\ Len(frames) < MaxFrames
     /\ st.prov = None => ~Fails(failures[1])
     /\ ~parsed => ~armed
     /\ frames' = Append(frames, request)
     /\ nextIndex' = nextIndex + 1
     /\ turns' = Append(turns, [at |-> at, parsed |-> parsed, dropped |-> FALSE,
                                released |-> FALSE])
     /\ Suffers(failures)
     /\ \E w \in {Rotated(FinalizeTurn(Slice(frames, at - 1), FALSE, failures[1]))} :
          IF w.result = "raised"
          THEN ~armed /\ ~Fails(failures[2]) /\ Keep(w) /\ UNCHANGED <<rq, shelf, phase>>
          ELSE /\ Begins([w EXCEPT !.st.fin = None, !.st.start = at], turn, request, parsed,
                         failures[2])
               /\ phase' = IF armed THEN "paused" ELSE "open"
     /\ UNCHANGED shared

\* The pause ends with a drop.  The deletion goes through the settings' run id,
\* which a shared proxy does not have.
DropTurn(failure) ==
  LET w == DeleteTurn(IF shared THEN "read" ELSE failure)
  IN /\ phase = "paused" /\ phase' = "open"
     /\ (shared \/ st.prov = None) => ~Fails(failure)
     /\ Suffers(<<failure>>)
     /\ frames' = [frames EXCEPT ![Len(frames)].dropped = TRUE]
     /\ turns' = [turns EXCEPT ![Len(turns)].dropped = TRUE]
     /\ Keep([w EXCEPT !.st.dropped = TRUE])
     /\ shelf' = None
     /\ UNCHANGED <<shared, rq, nextIndex>>

\* The pause ends with a release: the lifecycle is kept with the flow and the
\* exchange is derived again, as far as the settings' run id finds the store.
ReleaseTurn(curated, failure) ==
  /\ phase = "paused" /\ phase' = "open"
  /\ (shared \/ st.prov = None) => ~Fails(failure)
  /\ Suffers(<<failure>>)
  /\ shelf' = "released"
  /\ rq' = [rq EXCEPT !.curated = curated]
  /\ turns' = [turns EXCEPT ![Len(turns)].released = TRUE]
  /\ UNCHANGED <<shared, frames, nextIndex, st>>
  /\ LET facts == (IF curated THEN {"request_curated"} ELSE {})
                    \cup {"breakpoint_paused", "breakpoint_released"}
         slice == Slice(frames, Len(frames))
     IN disk' = IF shared \/ Fails(failure) \/ st.prov = None THEN disk
                ELSE [disk EXCEPT ![st.prov].derived = Replay(slice, facts, FALSE)]

\* handle_codex_websocket_end
SocketEnds(failure) ==
  /\ phase = "open" /\ phase' = "closed"
  /\ ~st.captured => ~Fails(failure)
  /\ Suffers(<<failure>>)
  /\ Keep(IF ~st.captured THEN Here("ok")
          ELSE IF st.dropped THEN DeleteTurn(failure)
          ELSE FinalizeTurn(Slice(frames, Len(frames)), TRUE, failure))
  /\ UNCHANGED <<shared, frames, rq, shelf, nextIndex, turns>>

Next ==
  \/ Upgraded
  \/ \E x \in Failures : UpgradeRefused(x)
  \/ \E f \in ServerFrames, x \in Failures : ServerFrame(f, x)
  \/ ClientFrame
  \/ \E parsed, armed \in BOOLEAN, x, y \in Failures : TurnStart(parsed, armed, <<x, y>>)
  \/ \E x \in Failures : DropTurn(x)
  \/ \E curated \in BOOLEAN, x \in Failures : ReleaseTurn(curated, x)
  \/ \E x \in Failures : SocketEnds(x)

Spec == Init /\ [][Next]_vars

----------------------------------------------------------------------------
Recorded == {id \in DOMAIN disk : disk[id] # None}
Of(t) == {id \in Recorded : disk[id].turn = t}
LastFrame(t) == IF t = Len(turns) THEN Len(frames) ELSE turns[t + 1].at - 1

\* Until a read or a write fails, a closed socket leaves one finished exchange
\* of every turn it carried, with the frames of that turn and no others, and
\* none of a turn that was dropped (the shared proxy's drops aside); and never
\* two exchanges of one turn, whatever fails.  A release is part of what is derived of its
\* turn, the shared proxy aside.
TurnsAreRecorded ==
  /\ \A t \in DOMAIN turns : Cardinality(Of(t)) <= 1
  /\ phase = "closed" /\ mishaps = 0 =>
       \A t \in DOMAIN turns :
         LET wanted == ~turns[t].dropped
         IN /\ wanted => \E id \in Of(t) :
                 /\ disk[id].final
                 /\ turns[t].parsed <=> disk[id].derived # NoTurn
                 /\ IsPrefix(disk[id].slice, SubSeq(frames, turns[t].at, LastFrame(t)))
            /\ ~wanted /\ ~shared => Of(t) = {}
  /\ \A t \in DOMAIN turns, id \in Recorded :
       turns[t].released /\ disk[id].turn = t /\ mishaps = 0 /\ ~shared =>
         {"breakpoint_paused", "breakpoint_released"} \subseteq FactsOf(disk[id].derived.events, FALSE)

\* What was derived step by step, through failed rewrites, releases and a late
\* close, is what a repair derives from the stored frames at once
\* (codex/derivation_engine.py, codex/repair_rebuild.py); a slice with frames
\* after its terminal one, or of a request that was dropped, is not rebuilt.
DerivationIsReplayable ==
  \A id \in Recorded :
    LET e == disk[id]
        ended == \E k \in 1..(Len(e.slice) - 1) : e.slice[k].kind \in Terminal
    IN e.derived # NoTurn /\ ~ended /\ ~Head(e.slice).dropped =>
         /\ WithinContract(e.derived)
         /\ Rebuild(e.slice, e.derived.events, FALSE, e.closed) = e.derived

\* The turns of a thread are numbered apart: "a new turn increments the turn
\* index" (codex/test_continuity.py:19).
TurnsAreNumberedApart ==
  \A a, b \in Recorded : a # b /\ disk[a].derived # NoTurn /\ disk[b].derived # NoTurn =>
    disk[a].index # disk[b].index
=============================================================================
