------------------------------- MODULE Canvas -------------------------------
(***************************************************************************)
(* The canvas of the web client (canvasStore.ts, paneAffordances.ts and    *)
(* the persistence of both) with the runs its panes own                    *)
(* (capturedRunStore.ts): a dismissed pane fades before a timer removes it *)
(* and runs its hook, spawns are in flight, canvases are switched, the     *)
(* page is reloaded from what was persisted, and remembered runs are       *)
(* reconciled with the backend.  Every change of a store is persisted with *)
(* it, so the cache of the active canvas is a function of its view.        *)
(***************************************************************************)
EXTENDS Naturals, Sequences, FiniteSets, SequencesExt

CONSTANTS
  Keys,         \* of captured runs; each is the id of its pane too
  CAPTURED_RUN_SPAWN_CONCURRENCY,
  MaxRuns,      \* bound: runs the backend ever creates
  MaxTimers,    \* bound: dismissals fading at once
  MaxGestures   \* bound: gestures of the user, reloads included

Canvases == {"one", "two"}
Ids == Keys \cup {"picker", "resource"}    \* these two may be on every canvas
None == "none"

VARIABLES
  canvas,     \* the active one
  view,       \* [order, closing, docked, expanded, framed]
  cached,     \* what is stored of the other canvas
  timers,     \* the dismissals to come, [id, mode], in order
  runs,       \* of capturedRunStore: [of: key -> run or 0, minimized: keys]
  flight,     \* [spawns: keys in order, born: key -> run, cancelled, minimized: keys]
  mounted,    \* keys whose pane has asked for its run
  server,     \* run -> [key, live]
  route,      \* [ready, candidates]: the reconciliation of this mount
  lost,       \* ghost: keys dismissed or spawning when the view or the page was replaced
  gestures

vars == <<canvas, view, cached, timers, runs, flight, mounted, server, route, lost, gestures>>
stores == <<runs, flight, server>>

-----------------------------------------------------------------------------
(* Views and what is persisted of them.                                    *)

\* s[1..n] without the members of K, for each n.
Filtered(s, K) ==
  LET kept[n \in 0..Len(s)] ==
        IF n = 0 THEN <<>> ELSE IF s[n] \in K THEN kept[n - 1] ELSE Append(kept[n - 1], s[n])
  IN  kept

Without(s, K) == Filtered(s, K)[Len(s)]
Open(v) == {id \in ToSet(v.order) : id \notin v.closing}
Initial == [order |-> <<"picker">>, closing |-> {}, docked |-> <<>>, expanded |-> None, framed |-> None]

\* partializeCanvasState: a fading pane is neither open nor docked.
Saved(v) == [refs |-> Open(v), order |-> v.order, docked |-> v.docked, expanded |-> v.expanded]

\* rebuildPersistedCanvasState, normalizeLayoutOrder.
Rebuilt(saved) ==
  [order |-> Without(saved.order, Ids \ saved.refs), closing |-> {}, docked |-> saved.docked,
   expanded |-> IF Cardinality(saved.refs) > 1 /\ saved.expanded \in saved.refs THEN saved.expanded ELSE None,
   framed |-> None]

Removed(v, id) ==
  [v EXCEPT !.order = Without(@, {id}), !.closing = @ \ {id},
            !.expanded = IF @ = id THEN None ELSE @,
            !.framed = IF @ = id \/ v.expanded = id THEN None ELSE @]
ParkDockedPane(v, id) == [v EXCEPT !.docked = <<id>> \o Without(@, {id})]

\* splicePaneOrder: an index beyond the end is the end.
MovePaneOrder(order, id, index) ==
  LET rest == Without(order, {id})
  IN  InsertAt(rest, IF index <= Len(rest) THEN index ELSE Len(rest) + 1, id)

-----------------------------------------------------------------------------
(* capturedRunStore.                                                       *)

Ended(s, run) == [s EXCEPT ![run].live = FALSE]

\* A close during the spawn is forgotten.
StopRunEstablishedOnly(key) ==
  IF runs.of[key] # 0
  THEN /\ runs' = [of |-> [runs.of EXCEPT ![key] = 0], minimized |-> runs.minimized \ {key}]
       /\ server' = Ended(server, runs.of[key]) /\ UNCHANGED flight
  ELSE UNCHANGED stores

StopRun(key) ==
  IF runs.of[key] # 0
  THEN /\ runs' = [of |-> [runs.of EXCEPT ![key] = 0], minimized |-> runs.minimized \ {key}]
       /\ server' = Ended(server, runs.of[key]) /\ UNCHANGED flight
  ELSE /\ flight' = IF key \in ToSet(flight.spawns)
                    THEN [flight EXCEPT !.cancelled = @ \cup {key}, !.minimized = @ \ {key}] ELSE flight
       /\ UNCHANGED <<runs, server>>

SetMinimized(key, on) ==
  /\ runs' = IF runs.of[key] = 0 THEN runs
             ELSE [runs EXCEPT !.minimized = IF on THEN @ \cup {key} ELSE @ \ {key}]
  /\ flight' = IF ~on THEN [flight EXCEPT !.minimized = @ \ {key}]
               ELSE IF runs.of[key] = 0 /\ key \in ToSet(flight.spawns) THEN [flight EXCEPT !.minimized = @ \cup {key}]
               ELSE flight
  /\ UNCHANGED server

\* The hooks of a pane: only those of captured runs do something.
Hook(id, mode) ==
  IF id \notin Keys THEN UNCHANGED stores
  ELSE IF mode = "close" THEN StopRun(id) ELSE SetMinimized(id, mode = "minimize")

\* ensureRun, called by the pane once it is mounted.
EnsureRun(key) ==
  flight' = IF runs.of[key] # 0 \/ key \in ToSet(flight.spawns) THEN flight
            ELSE [flight EXCEPT !.spawns = Append(@, key), !.cancelled = @ \ {key}, !.minimized = @ \ {key}]

\* The first spawns hold the slots, the others queue for one.
Posting == {flight.spawns[i] : i \in DOMAIN flight.spawns \cap 1..CAPTURED_RUN_SPAWN_CONCURRENCY}

Settled(key) == [flight EXCEPT !.spawns = Without(@, {key}), !.born[key] = 0, !.cancelled = @ \ {key}, !.minimized = @ \ {key}]

Mount(key) ==
  /\ key \in ToSet(view.order) \ mounted /\ route.ready
  /\ mounted' = mounted \cup {key}
  /\ EnsureRun(key)
  /\ UNCHANGED <<canvas, view, cached, timers, runs, server, route, lost, gestures>>

BackendSpawns(key, run) ==
  /\ key \in Posting /\ flight.born[key] = 0 /\ server[run].key = None
  /\ server' = [server EXCEPT ![run] = [key |-> key, live |-> TRUE]]
  /\ flight' = [flight EXCEPT !.born[key] = run]
  /\ UNCHANGED <<canvas, view, cached, timers, runs, mounted, route, lost, gestures>>

\* A run closed while it was spawned is terminated, one minimized is remembered as that.
Spawned(key) ==
  /\ key \in Posting /\ flight.born[key] # 0
  /\ flight' = Settled(key)
  /\ IF key \in flight.cancelled THEN server' = Ended(server, flight.born[key]) /\ UNCHANGED runs
     ELSE /\ runs' = [of |-> [runs.of EXCEPT ![key] = flight.born[key]],
                      minimized |-> IF key \in flight.minimized THEN runs.minimized \cup {key} ELSE runs.minimized \ {key}]
          /\ UNCHANGED server
  /\ UNCHANGED <<canvas, view, cached, timers, mounted, route, lost, gestures>>

SpawnFails(key) ==
  /\ key \in Posting /\ flight.born[key] = 0
  /\ flight' = Settled(key)
  /\ UNCHANGED <<canvas, view, cached, timers, runs, mounted, server, route, lost, gestures>>

RunEnds(run) ==
  /\ server[run].live /\ server' = Ended(server, run)
  /\ UNCHANGED <<canvas, view, cached, timers, runs, flight, mounted, route, lost, gestures>>

-----------------------------------------------------------------------------
(* Gestures.                                                               *)

Gesture == gestures < MaxGestures /\ gestures' = gestures + 1
Rest == UNCHANGED <<canvas, cached, route, lost>>

\* dismissPane: the pane fades; its hook and its removal come with the timer.
Dismiss(id, mode) ==
  /\ Len(timers) < MaxTimers
  /\ timers' = Append(timers, [id |-> id, mode |-> mode])
  /\ view' = [view EXCEPT !.closing = @ \cup ({id} \cap ToSet(view.order))]
  /\ UNCHANGED <<mounted, stores>>

ClosePane(id) == Gesture /\ id \in ToSet(view.order) \ {"picker"} /\ Dismiss(id, "close") /\ Rest
MinimizePane(id) == Gesture /\ id \in ToSet(view.order) /\ Dismiss(id, "minimize") /\ Rest

\* The timer finds whatever pane has that id now, and none if it is gone.
DismissalEnds ==
  /\ timers # <<>> /\ timers' = Tail(timers)
  /\ \E t \in {Head(timers)} :
       /\ IF t.id \in ToSet(view.order)
          THEN /\ Hook(t.id, t.mode)
               /\ view' = IF t.mode = "minimize" THEN ParkDockedPane(Removed(view, t.id), t.id) ELSE Removed(view, t.id)
          ELSE UNCHANGED <<view, stores>>
       /\ mounted' = mounted \ {t.id}
  /\ Rest /\ UNCHANGED gestures

\* restorePaneAtIndex.
Restored(id, index) ==
  /\ view' = [view EXCEPT !.docked = Without(@, {id}), !.order = MovePaneOrder(@, id, index), !.closing = @ \ {id}]
  /\ Hook(id, "restore")
  /\ UNCHANGED <<timers, mounted>>

RestorePane(id) ==
  /\ Gesture /\ id \in ToSet(view.docked)
  /\ \E index \in {1, Len(view.order) + 1} : Restored(id, index)
  /\ Rest

\* createCapturedRunKey: every captured pane has a key of its own.
Shown(k) == k \in ToSet(view.order) \cup ToSet(view.docked) \cup cached.refs \cup ToSet(cached.docked)
Unused(k) == ~Shown(k) /\ k \notin lost \cup ToSet(flight.spawns) /\ \A r \in DOMAIN server : server[r].key # k

\* spawnPane: what is open is focused, what is docked comes back, else a new pane.
SpawnPane(id) ==
  /\ Gesture
  /\ id \in Keys => Unused(id)
  /\ IF id \in ToSet(view.order) THEN UNCHANGED <<view, timers, mounted, stores>>
     ELSE IF id \in ToSet(view.docked) THEN Restored(id, Len(view.order) + 1)
     ELSE view' = [view EXCEPT !.order = Append(@, id)] /\ UNCHANGED <<timers, mounted, stores>>
  /\ Rest

\* dockPane, of a resource only: an open pane is minimized, any other is parked.
DockPane ==
  /\ Gesture
  /\ IF "resource" \in ToSet(view.order) THEN Dismiss("resource", "minimize")
     ELSE view' = ParkDockedPane(view, "resource") /\ UNCHANGED <<timers, mounted, stores>>
  /\ Rest

CloseDockedPane(id) ==
  /\ Gesture /\ id \in ToSet(view.docked) \ {"picker"}
  /\ Hook(id, "close")
  /\ view' = [view EXCEPT !.docked = Without(@, {id})]
  /\ Rest /\ UNCHANGED <<timers, mounted>>

\* planPaneExpand and planPaneFrame toggle; a pane that is alone is neither.
Toggle(id) ==
  /\ Gesture /\ id \in ToSet(view.order)
  /\ \/ /\ id = view.expanded \/ Cardinality(Open(view)) > 1
        /\ view' = [view EXCEPT !.expanded = IF @ = id THEN None ELSE id, !.framed = None]
     \/ /\ id = view.framed \/ Cardinality(Open(view)) > 1
        /\ view' = [view EXCEPT !.framed = IF @ = id THEN None ELSE id]
  /\ Rest /\ UNCHANGED <<timers, mounted, stores>>

ResetViewport ==
  /\ Gesture
  /\ view' = [view EXCEPT !.expanded = None, !.framed = None]
  /\ Rest /\ UNCHANGED <<timers, mounted, stores>>

Reorder(id, index) ==
  /\ Gesture /\ id \in ToSet(view.order) /\ index \in DOMAIN view.order
  /\ view' = [view EXCEPT !.order = MovePaneOrder(@, id, index)]
  /\ Rest /\ UNCHANGED <<timers, mounted, stores>>

-----------------------------------------------------------------------------
(* Replacing the view.                                                     *)

\* initializeCanvas: another canvas, or the same one from its cache again.
InitializeCanvas(c) ==
  /\ Gesture
  /\ IF c = canvas THEN view' = [Rebuilt(Saved(view)) EXCEPT !.framed = view.framed] /\ UNCHANGED cached
                   ELSE view' = Rebuilt(cached) /\ cached' = Saved(view)
  /\ canvas' = c
  /\ lost' = lost \cup (view.closing \cap Keys)
  /\ mounted' = mounted \cap ToSet(view'.order)
  /\ UNCHANGED <<timers, route, stores>>

Remembered == [k \in {key \in Keys : runs.of[key] # 0} |-> runs.of[k]]
Reload ==
  /\ Gesture
  /\ view' = Rebuilt(Saved(view))
  /\ timers' = <<>> /\ mounted' = {}
  /\ flight' = [spawns |-> <<>>, born |-> [k \in Keys |-> 0], cancelled |-> {}, minimized |-> {}]
  /\ route' = [ready |-> DOMAIN Remembered = {}, candidates |-> Remembered]
  /\ lost' = lost \cup (view.closing \cap Keys) \cup ToSet(flight.spawns)
  /\ UNCHANGED <<canvas, cached, runs, server>>

\* dropRun and dropCapturedRunPane of the runs the backend no longer has; none if it did not answer.
Stale(ok) == {k \in DOMAIN route.candidates : ok /\ ~server[route.candidates[k]].live}
DropCapturedRunPanes(K) ==
  view' = [order |-> Without(view.order, K), closing |-> view.closing \ K,
           docked |-> Without(view.docked, K),
           expanded |-> IF view.expanded \in K THEN None ELSE view.expanded,
           framed |-> IF view.framed \in K THEN None ELSE view.framed]
Reconciled(ok) ==
  /\ ~route.ready /\ route' = [ready |-> TRUE, candidates |-> <<>>]
  /\ \E K \in {Stale(ok)} :
       /\ runs' = [of |-> [k \in Keys |-> IF k \in K THEN 0 ELSE runs.of[k]], minimized |-> runs.minimized \ K]
       /\ flight' = [flight EXCEPT !.cancelled = @ \ K, !.minimized = @ \ K]
       /\ DropCapturedRunPanes(K)
  /\ UNCHANGED <<canvas, cached, timers, mounted, server, lost, gestures>>

Init ==
  /\ canvas = "one" /\ view = Initial /\ cached = Saved(Initial) /\ timers = <<>>
  /\ runs = [of |-> [k \in Keys |-> 0], minimized |-> {}]
  /\ flight = [spawns |-> <<>>, born |-> [k \in Keys |-> 0], cancelled |-> {}, minimized |-> {}]
  /\ mounted = {} /\ server = [r \in 1..MaxRuns |-> [key |-> None, live |-> FALSE]]
  /\ route = [ready |-> TRUE, candidates |-> <<>>] /\ lost = {} /\ gestures = 0

Next ==
  \/ \E k \in Keys : Mount(k) \/ Spawned(k) \/ SpawnFails(k)
  \/ \E k \in Keys, r \in DOMAIN server : BackendSpawns(k, r)
  \/ \E r \in DOMAIN server : RunEnds(r)
  \/ \E id \in Ids : \/ ClosePane(id) \/ MinimizePane(id) \/ RestorePane(id) \/ SpawnPane(id) \/ CloseDockedPane(id) \/ Toggle(id)
                     \/ \E i \in 1..Cardinality(Ids) : Reorder(id, i)
  \/ DockPane \/ ResetViewport \/ DismissalEnds \/ Reload
  \/ \E c \in Canvases : InitializeCanvas(c)
  \/ \E ok \in BOOLEAN : Reconciled(ok)

Spec == Init /\ [][Next]_vars

-----------------------------------------------------------------------------

\* A run the backend has is one a pane of some canvas shows or will show, or it is about to be
\* terminated, unless the view was replaced while its pane faded or the page while it spawned.
RunsAreReachable ==
  \A r \in DOMAIN server : server[r].live =>
    \E k \in {server[r].key} :
      \/ k \in lost
      \/ Shown(k) /\ r \in {runs.of[k], flight.born[k]}
      \/ flight.born[k] = r /\ k \in flight.cancelled

=============================================================================
