------------------------------- MODULE MCDesktop -------------------------------
(* Instances of Desktop, Canvas and Launch for TLC.  They share no state: a      *)
(* behaviour is one of the backends, of the canvas or of the launches, as `part` *)
(* says.                                                                         *)
EXTENDS Desktop

CONSTANTS Keys, CAPTURED_RUN_SPAWN_CONCURRENCY, MaxRuns, MaxTimers, MaxGestures,
          Launches, Ports

\* The names of the launches are not those of other users of a port.
ASSUME LaunchAssumption == Ports # {} /\ Launches \cap {"nobody", "listener", "holder"} = {}

\* The keys of captured runs are not the ids of other panes.
ASSUME CanvasAssumption == MaxRuns \in Nat /\ Keys \cap {"picker", "resource", "none"} = {}

VARIABLES part,
          canvas, view, cached, timers, runs, flight, mounted, server, route, lost, gestures,
          captured, left, proxy, at, listing, mishaps

panes == <<canvas, view, cached, timers, runs, flight, mounted, server, route, lost, gestures>>
hosts == <<captured, left, proxy, at, listing, mishaps>>
C == INSTANCE Canvas
L == INSTANCE Launch WITH launch <- captured, trouble <- mishaps

Backends == part = "backends" /\ Next /\ UNCHANGED <<part, panes, hosts>>
Panes == part = "canvas" /\ C!Next /\ UNCHANGED <<part, vars, hosts>>
Captures == part = "launches" /\ L!Next /\ UNCHANGED <<part, vars, panes>>

MCInit == Init /\ C!Init /\ L!Init /\ part \in {"backends", "canvas", "launches"}
MCSafe ==
  /\ MCInit
  /\ [][Backends \/ Panes \/ Captures]_<<part, vars, panes, hosts>>
MCSpec == MCSafe /\ Fairness

\* RunsAreReachable of Canvas.
RunsAreReachable == C!RunsAreReachable
\* NothingIsLeft of Launch.
NothingIsLeft == L!NothingIsLeft
=============================================================================
