---------------------------- MODULE MCExchanges ----------------------------
(* Instances of HttpExchange, with its store, and of CodexTurns for TLC.   *)
(* The two share no state: a behaviour is one of HTTP exchanges or one of  *)
(* a Codex socket, as `part` says.                                         *)
EXTENDS HttpExchange

CONSTANTS f1, f2, Anon, NoTurn, Raised, m1, c1, MaxFrames, MaxSocketMishaps

VARIABLES part, shared, phase, frames, st, rq, shelf, stored, nextIndex, turns, mishaps

socket == <<shared, phase, frames, st, rq, shelf, stored, nextIndex, turns, mishaps>>

Ids == Flows \X {"first", "again"}

\* Text of an item and of none, an item that completes without text of its
\* own, calls that stay open and calls that complete.
Frame(kind, id, n) == [from |-> "server", kind |-> kind, id |-> id, n |-> n, dropped |-> FALSE]
Streamed == { Frame("delta", None, 1), Frame("delta", m1, 1),
              Frame("message_added", m1, 0), Frame("message_done", m1, 0),
              Frame("call_added", c1, 0), Frame("call_done", c1, 0),
              Frame("completed", None, 0) }

Socket == INSTANCE CodexTurns WITH ServerFrames <- Streamed, MaxMishaps <- MaxSocketMishaps, disk <- stored

Http == part = "http" /\ Next /\ UNCHANGED <<part, socket>>
Codex == part = "codex" /\ Socket!Next /\ UNCHANGED <<part, vars>>

MCInit == Init /\ Socket!Init /\ part \in {"http", "codex"}
MCSpec ==
  /\ MCInit
  /\ [][Http \/ Codex]_<<part, vars, socket>>

\* TurnsAreRecorded of CodexTurns.
TurnsAreRecorded == Socket!TurnsAreRecorded
\* DerivationIsReplayable of CodexTurns.
DerivationIsReplayable == Socket!DerivationIsReplayable
\* TurnsAreNumberedApart of CodexTurns.
TurnsAreNumberedApart == Socket!TurnsAreNumberedApart
=============================================================================
