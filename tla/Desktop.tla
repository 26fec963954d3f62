------------------------------- MODULE Desktop -------------------------------
(***************************************************************************)
(* The desktop backends of a channel: who starts one, finds one, takes it  *)
(* over or stops it (desktop_runtime.py, cli/desktop_cmd.py,               *)
(* cli/desktop_recovery.py, the Electron shell in src/desktop).  A channel *)
(* has one port and one record file, which names the process that was      *)
(* started detached; nothing locks either.  The three attempts of a probe  *)
(* are one step, as are the check of the port and the start behind it.     *)
(***************************************************************************)
EXTENDS Integers, FiniteSets

CONSTANTS
  Launchers,    \* slots for commands and apps that run at the same time, taken in order
  Dirs,         \* working directories, numbered from 1
  MaxProcs,     \* bound: backends ever started
  MaxLaunches,  \* bound: commands and apps ever started
  MaxOverlapping,  \* bound: launches in a history where two overlap
  MaxTrouble    \* bound: crashes and changes of health

VARIABLES
  record,   \* runtime/desktop.json: the process it names, or None
  procs,    \* backend processes: pid -> [kind, dir, state, health, termed, killed, parent]
  port,     \* the process that listens, or None
  launch,   \* launcher -> [kind, dir, force, phase, round, seen, victim, fails]
  started,  \* launches so far
  trouble,  \* crashes and changes of health so far
  alone     \* history: no two launches overlapped and none was killed

vars == <<record, procs, port, launch, started, trouble, alone>>

None == 0
Kinds == {"detached", "foreground", "app", "stop"}
Idle == [kind |-> "stop", dir |-> 1, force |-> FALSE, phase |-> "idle",
         round |-> 1, seen |-> None, victim |-> None, fails |-> 0]

Gone(p) == procs[p].state = "gone"
Busy(l) == launch[l].phase \in {"read", "pid", "probe", "stop", "wait", "spawn", "record", "ready"}
Is(l, phase) == launch[l].phase = phase

-----------------------------------------------------------------------------
(* What a launch does next: prepare_desktop_runtime_for_launch_or_exit and *)
(* registerAppLifecycle.  The app asks for the status, has the record      *)
(* reclaimed and asks again: rounds 1, 2 and 3.                            *)

\* The launch goes on behind the preparation.
Prepared(x) ==
  CASE x.kind = "stop" -> Idle
    [] x.kind = "app" -> [x EXCEPT !.phase = "read", !.round = 3, !.seen = None, !.victim = None]
    [] OTHER -> [x EXCEPT !.phase = "spawn", !.seen = None, !.victim = None]

Open(x, how) ==
  [Idle EXCEPT !.kind = x.kind, !.phase = how, !.victim = IF how = "owned" THEN x.victim ELSE None]

\* The launch of a command knows the state of the recorded runtime, and its directory.
CommandDecided(x, state, dir) ==
  CASE state = "absent" -> Prepared(x)
    [] x.force /\ state # "absent" -> [x EXCEPT !.phase = "stop"]
    [] ~x.force /\ state = "live" /\ dir = x.dir -> IF x.kind = "app" THEN Prepared(x) ELSE Open(x, "hosted")
    [] ~x.force /\ state = "live" /\ dir # x.dir -> [x EXCEPT !.phase = "stop"]
    [] ~x.force /\ state \in {"stale", "not-serving", "wedged"} -> [x EXCEPT !.phase = "stop"]
    [] ~x.force /\ state = "unhealthy" -> Idle

\* The same for the app; its second round is the command that reclaims the runtime.
Decided(x, state, dir) ==
  CASE x.kind # "app" \/ x.round = 2 -> CommandDecided(x, state, dir)
    [] x.kind = "app" /\ x.round # 2 /\ state = "live" /\ dir = x.dir -> Open(x, "hosted")
    [] x.kind = "app" /\ x.round = 1 /\ ~(state = "live" /\ dir = x.dir) -> [x EXCEPT !.phase = "read", !.round = 2, !.seen = None]
    [] x.kind = "app" /\ x.round = 3 /\ ~(state = "live" /\ dir = x.dir) -> [x EXCEPT !.phase = "spawn", !.seen = None]

Becomes(l, x) == launch' = [launch EXCEPT ![l] = x]

Begin(l, kind, dir, force) ==
  /\ Is(l, "idle") /\ started < MaxLaunches /\ dir <= started + 1
  /\ alone \/ started < MaxOverlapping
  /\ (\E k \in Launchers : Busy(k)) => started < MaxOverlapping
  /\ force => kind = "detached"
  /\ \A k \in Launchers : k < l => ~Is(k, "idle")
  /\ started' = started + 1
  /\ alone' = (alone /\ \A k \in Launchers : ~Busy(k))
  /\ Becomes(l, [Idle EXCEPT !.kind = kind, !.dir = dir, !.force = force,
                             !.phase = IF kind = "stop" THEN "stop" ELSE "read"])
  /\ UNCHANGED <<record, procs, port, trouble>>

\* discover_desktop_runtime, in its steps: the record, its process, its health.
ReadRecord(l) ==
  /\ Is(l, "read")
  /\ Becomes(l, IF record = None THEN Decided(launch[l], "absent", None)
                ELSE [launch[l] EXCEPT !.seen = record, !.phase = "pid"])
  /\ UNCHANGED <<record, procs, port, started, trouble, alone>>

CheckPid(l) ==
  /\ Is(l, "pid")
  /\ IF Gone(launch[l].seen)
     THEN record' = None /\ Becomes(l, Decided(launch[l], "stale", None))
     ELSE UNCHANGED record /\ Becomes(l, [launch[l] EXCEPT !.phase = "probe"])
  /\ UNCHANGED <<procs, port, started, trouble, alone>>

\* _status_for_probe_result
ProbeState ==
  CASE port = None -> "not-serving"
    [] port # None /\ procs[port].health = "hung" -> "wedged"
    [] port # None /\ procs[port].health = "failing" -> "unhealthy"
    [] OTHER -> "live"

\* _status_from_record: the directory is that of whoever answers.
AnsweringDir == IF port = None THEN None ELSE procs[port].dir

Probe(l) ==
  /\ Is(l, "probe")
  /\ Becomes(l, Decided(launch[l], ProbeState, AnsweringDir))
  /\ UNCHANGED <<record, procs, port, started, trouble, alone>>

\* stop_desktop_record reads the record again.
Stop(l) ==
  /\ Is(l, "stop")
  /\ IF record = None \/ Gone(record)
     THEN record' = None /\ UNCHANGED procs /\ Becomes(l, Prepared(launch[l]))
     ELSE /\ procs' = [procs EXCEPT ![record].termed = TRUE]
          /\ Becomes(l, [launch[l] EXCEPT !.phase = "wait", !.victim = record])
          /\ UNCHANGED record
  /\ UNCHANGED <<port, started, trouble, alone>>

\* Mutant of StopEnds: a process that has not gone in time is left to itself.
StopEndsUnkilled(l) ==
  /\ Is(l, "wait")
  /\ record' = None
  /\ Becomes(l, Prepared(launch[l]))
  /\ UNCHANGED <<procs, port, started, trouble, alone>>

\* The process is gone within three seconds, or killed after them.
StopEnds(l) ==
  /\ Is(l, "wait")
  /\ procs' = IF Gone(launch[l].victim) THEN procs ELSE [procs EXCEPT ![launch[l].victim].killed = TRUE]
  /\ record' = None
  /\ Becomes(l, Prepared(launch[l]))
  /\ UNCHANGED <<port, started, trouble, alone>>

\* The launch starts a backend.
Started(l, phase) ==
  LET p == Cardinality(DOMAIN procs) + 1 IN
  /\ p <= MaxProcs
  /\ procs' = [q \in DOMAIN procs \cup {p} |->
                 IF q # p THEN procs[q]
                 ELSE [kind |-> launch[l].kind, dir |-> launch[l].dir, state |-> "starting", health |-> "ok",
                       termed |-> FALSE, killed |-> FALSE, parent |-> l]]
  /\ Becomes(l, [launch[l] EXCEPT !.phase = phase, !.victim = p])

\* _resolve_backend_ports
PortInUse == port # None

Spawn(l) ==
  /\ Is(l, "spawn") /\ launch[l].kind # "app"
  /\ IF PortInUse
     THEN Becomes(l, Idle) /\ UNCHANGED procs
     ELSE Started(l, IF launch[l].kind = "detached" THEN "record" ELSE "ready")
  /\ UNCHANGED <<record, port, started, trouble, alone>>

\* The Electron app leaves the check of the port to its child.
SpawnOwned(l) ==
  /\ Is(l, "spawn") /\ launch[l].kind = "app"
  /\ Started(l, "ready")
  /\ UNCHANGED <<record, port, started, trouble, alone>>

WriteRecord(l) ==
  /\ Is(l, "record")
  /\ record' = launch[l].victim
  /\ Becomes(l, [launch[l] EXCEPT !.phase = "ready"])
  /\ UNCHANGED <<procs, port, started, trouble, alone>>

\* wait_for_port_ready asks whether anyone listens, waitForBackendHealth whether it is well.
Ready(l) ==
  /\ Is(l, "ready") /\ launch[l].kind # "app" /\ port # None
  /\ Becomes(l, Open(launch[l], "hosted"))
  /\ UNCHANGED <<record, procs, port, started, trouble, alone>>

ReadyOwned(l) ==
  /\ Is(l, "ready") /\ launch[l].kind = "app"
  /\ ProbeState = "live"
  /\ Becomes(l, Open(launch[l], "owned"))
  /\ UNCHANGED <<record, procs, port, started, trouble, alone>>

\* After 15 s, or when the app's child exits: a detached backend stays, the others stop.
NotReady(l) ==
  /\ Is(l, "ready")
  /\ procs' = IF launch[l].kind = "detached" THEN procs ELSE [procs EXCEPT ![launch[l].victim].termed = TRUE]
  /\ Becomes(l, Idle)
  /\ UNCHANGED <<record, port, started, trouble, alone>>

-----------------------------------------------------------------------------
(* Windows.                                                                *)

\* The page has loaded: from now on the backend's health is polled (hostedLiveness.ts).
Load(l) ==
  /\ Is(l, "hosted") /\ port # None
  /\ Becomes(l, [launch[l] EXCEPT !.phase = "watching"])
  /\ UNCHANGED <<record, procs, port, started, trouble, alone>>

\* Mutant of Poll: a refused connection is not counted as a failure.
PollRefusedIgnored(l) ==
  /\ Is(l, "watching")
  /\ Becomes(l, CASE ProbeState \in {"live", "not-serving"} -> [launch[l] EXCEPT !.fails = 0]
                  [] ProbeState \in {"wedged", "unhealthy"} /\ launch[l].fails = 2 -> Idle
                  [] OTHER -> [launch[l] EXCEPT !.fails = @ + 1])
  /\ UNCHANGED <<record, procs, port, started, trouble, alone>>

Poll(l) ==
  /\ Is(l, "watching")
  /\ Becomes(l, CASE ProbeState = "live" -> [launch[l] EXCEPT !.fails = 0]
                  [] ProbeState # "live" /\ launch[l].fails = 2 -> Idle
                  [] OTHER -> [launch[l] EXCEPT !.fails = @ + 1])
  /\ UNCHANGED <<record, procs, port, started, trouble, alone>>

\* The user closes the last window; an app that owns a backend stops it.
Close(l) ==
  /\ launch[l].phase \in {"hosted", "watching", "owned"}
  /\ procs' = IF Is(l, "owned") THEN [procs EXCEPT ![launch[l].victim].termed = TRUE] ELSE procs
  /\ Becomes(l, Idle)
  /\ UNCHANGED <<record, port, started, trouble, alone>>

-----------------------------------------------------------------------------
(* Backends.                                                               *)

Bind(p) ==
  /\ procs[p].state = "starting"
  /\ procs' = [procs EXCEPT ![p].state = IF port = None THEN "up" ELSE "gone"]
  /\ port' = IF port = None THEN p ELSE port
  /\ UNCHANGED <<record, launch, started, trouble, alone>>

Leave(p) ==
  /\ procs' = [procs EXCEPT ![p].state = "gone"]
  /\ port' = IF port = p THEN None ELSE port
  /\ UNCHANGED <<record, launch, started>>

\* A backend that is told to stop does unless it hangs; the user ends a foreground one.
Leaving(p) == procs[p].killed \/ (procs[p].termed /\ procs[p].health # "hung")
Exit(p) ==
  /\ ~Gone(p) /\ (Leaving(p) \/ procs[p].kind = "foreground")
  /\ Leave(p)
  /\ UNCHANGED <<trouble, alone>>

Crash(p) == ~Gone(p) /\ trouble < MaxTrouble /\ trouble' = trouble + 1 /\ Leave(p) /\ UNCHANGED alone

Ail(p, health) ==
  /\ procs[p].state = "up" /\ procs[p].health # health
  /\ trouble < MaxTrouble /\ trouble' = trouble + 1
  /\ procs' = [procs EXCEPT ![p].health = health]
  /\ UNCHANGED <<record, port, launch, started, alone>>

\* A command or an app is killed; a foreground command takes its backend with it.
Die(l) ==
  /\ Busy(l) \/ Is(l, "owned")
  /\ trouble < MaxTrouble /\ trouble' = trouble + 1
  /\ alone' = FALSE
  /\ Becomes(l, Idle)
  /\ procs' = [p \in DOMAIN procs |-> IF procs[p].kind = "foreground" /\ procs[p].parent = l /\ Is(l, "ready")
                                      THEN [procs[p] EXCEPT !.killed = TRUE] ELSE procs[p]]
  /\ UNCHANGED <<record, port, started>>

Init ==
  /\ record = None /\ port = None
  /\ procs = [p \in {} |-> Idle]
  /\ launch = [l \in Launchers |-> Idle]
  /\ started = 0 /\ trouble = 0 /\ alone = TRUE

Next ==
  \/ \E l \in Launchers, kind \in Kinds, dir \in Dirs, force \in BOOLEAN : Begin(l, kind, dir, force)
  \/ \E l \in Launchers : ReadRecord(l) \/ CheckPid(l) \/ Probe(l) \/ Stop(l) \/ StopEnds(l)
  \/ \E l \in Launchers : Spawn(l) \/ SpawnOwned(l) \/ WriteRecord(l) \/ Ready(l) \/ ReadyOwned(l) \/ NotReady(l)
  \/ \E l \in Launchers : Load(l) \/ Poll(l) \/ Close(l) \/ Die(l)
  \/ \E p \in DOMAIN procs : Bind(p) \/ Exit(p) \/ Crash(p)
  \/ \E p \in DOMAIN procs, health \in {"ok", "hung", "failing"} : Ail(p, health)

\* The timer of a window's poll runs.
Fairness == \A l \in Launchers : WF_vars(Poll(l))

Spec == Init /\ [][Next]_vars /\ Fairness

-----------------------------------------------------------------------------
\* While launches do not overlap and none is killed, whatever listens on the channel's
\* port can be stopped by a later launch or was told to stop by the app that owned it:
\* a detached backend stays recorded through recoveries, switches of the directory,
\* starts that time out and stops that have to kill.
PortIsReclaimable ==
  alone /\ port # None /\ procs[port].kind = "detached" =>
    record = port \/ procs[port].killed \/ \E l \in Launchers : Is(l, "record") /\ launch[l].victim = port

\* An app's backend does not outlive the app untold.
OwnedIsStopped ==
  alone => \A p \in DOMAIN procs : procs[p].kind = "app" =>
    \/ Gone(p) \/ procs[p].termed
    \/ launch[procs[p].parent].phase \in {"ready", "owned"} /\ launch[procs[p].parent].victim = p

DesktopKeepsTrack == PortIsReclaimable /\ OwnedIsStopped

\* A hosted window does not stay open on a backend that has stopped serving for good.
ViewersFollow == \A l \in Launchers : []<>(~Is(l, "watching")) \/ []<>(ProbeState = "live")
=============================================================================
