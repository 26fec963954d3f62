---------------------------- MODULE MCSessionStream ----------------------------
(* Instances of SessionStream, TerminalFanout, Timeline, ExchangeFeed,           *)
(* PausedEditor and Spaces for TLC.  They share no state: a behaviour is one of  *)
(* them alone, as `part` says.                                                   *)
EXTENDS SessionStream

CONSTANTS v1, v2, Viewers, MaxBytes, QueueSize, ReadSizes, Output, None, Children, MaxRows,
          Flows, MaxTrouble, MaxCalls, Calls, SessionCwds, MaxChanges, MaxSpaces

\* The ids of requests are not what the page says of them.
ASSUME FlowsAssumption == Flows \cap {"none", "asked"} = {}

\* A read of the PTY that returns nothing is its end, not output.
ASSUME OutputAssumption == MaxBytes \in Nat /\ Output \in Nat /\ ReadSizes \subseteq Nat \ {0}

\* The id of an item names its kind, or the session it leads to.
ASSUME ChildrenAssumption == Children \cap {"message", "meta"} = {}

VARIABLES part,
          emitted, ring, total, truncated, attached, reason, replay, outbox, got, socket,
          row, fork, sent, view, early,
          index, subscription, link, list, fetch, blind, since, breaks,
          fate, pushed, editor, hydration, calls, offered, reloads, asked,
          exists, listed, db, call, startup, fresh, changes

terminal == <<emitted, ring, total, truncated, attached, reason, replay, outbox, got, socket>>
timeline == <<row, fork, sent, view, early>>
inspector == <<index, subscription, link, list, fetch, blind, since, breaks>>
paused == <<fate, pushed, editor, hydration, calls, offered, reloads, asked>>
spaces == <<exists, listed, db, call, startup, fresh, changes>>
everything == <<part, vars, terminal, timeline, inspector, paused, spaces>>

\* The cwds of the sessions a start finds: unknown, a worktree's, a file's.
MCCwds == {<<"", "main", "", "linked">>, <<"linked", "main", "sub", "file">>, <<"main", "linked", "", "sub">>}

Fanout == INSTANCE TerminalFanout WITH queue <- outbox
Lines == INSTANCE Timeline
Feed == INSTANCE ExchangeFeed WITH stream <- subscription, trouble <- breaks
Editor == INSTANCE PausedEditor WITH events <- pushed, trouble <- reloads
Repository == INSTANCE Spaces

InStream(A) == part = "stream" /\ A /\ UNCHANGED <<part, terminal, timeline, inspector, paused, spaces>>
Session == InStream(Next)
Terminal == part = "terminal" /\ Fanout!Next /\ UNCHANGED <<part, vars, timeline, inspector, paused, spaces>>
InTimeline(A) == part = "timeline" /\ A /\ UNCHANGED <<part, vars, terminal, inspector, paused, spaces>>
Stores == InTimeline(\E kind \in Lines!Kinds : Lines!Store(kind))
Spawns == InTimeline(\E c \in Children : Lines!Spawn(c))
Pages == InTimeline(Lines!Page)
Following == part = "feed" /\ Feed!Next /\ UNCHANGED <<part, vars, terminal, timeline, paused, spaces>>
Pausing == part = "editor" /\ Editor!Next /\ UNCHANGED <<part, vars, terminal, timeline, inspector, spaces>>
Resolving == part = "spaces" /\ Repository!Next /\ UNCHANGED <<part, vars, terminal, timeline, inspector, paused>>

MCInit ==
  /\ Init /\ Fanout!Init /\ Lines!Init /\ Feed!Init /\ Editor!Init /\ Repository!Init
  /\ part \in {"stream", "terminal", "timeline", "feed", "editor", "spaces"}
  /\ part # "spaces" => listed = {} /\ exists = {"main", "sub"} /\ startup.cwd = CHOOSE c \in SessionCwds : TRUE
MCNext == Session \/ Terminal \/ Stores \/ Spawns \/ Pages \/ Following \/ Pausing \/ Resolving
MCSafe == MCInit /\ [][MCNext]_everything

\* The fairness of the stream asks nothing of the other parts.
MCSpec ==
  /\ MCSafe
  /\ WF_everything(InStream(Notified)) /\ WF_everything(InStream(ListenerConnects))
  /\ WF_everything(InStream(Open)) /\ WF_everything(InStream(LoadPage)) /\ WF_everything(InStream(TakeSignal))
  /\ WF_everything(InStream(Receive)) /\ WF_everything(InStream(BackfillEnds))
  /\ WF_everything(InStream(QueryBacklog)) /\ WF_everything(InStream(BacklogArrives))

\* StreamIsGapless of TerminalFanout.
StreamIsGapless == Fanout!StreamIsGapless
\* ClosedViewerIsTold of TerminalFanout.
ClosedViewerIsTold == Fanout!ClosedViewerIsTold
\* StreamedIsBacklog of Timeline.
StreamedIsBacklog == Lines!StreamedIsBacklog
\* ListFollows of ExchangeFeed.
ListFollows == Feed!ListFollows
\* EditorStays of PausedEditor.
EditorStays == Editor!EditorStays
\* RepoRowsMatch of Spaces.
RepoRowsMatch == Repository!RepoRowsMatch
=============================================================================
