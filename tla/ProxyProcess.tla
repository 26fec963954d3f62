---------------------------- MODULE ProxyProcess ----------------------------
(***************************************************************************)
(* The process of the shared proxy (shared_proxy/process.py) over the      *)
(* lives of its backend (lifespan in main.py): the proxy is a session of   *)
(* its own and outlives a backend that is killed, so its pid is recorded,  *)
(* and the next start of a proxy ends what the record names if it still is *)
(* one.  One backend runs at a time.  A start runs in a thread, which goes *)
(* on when the backend closes meanwhile.  A pid that is free may become    *)
(* another process's.                                                      *)
(***************************************************************************)
EXTENDS Naturals, FiniteSets

CONSTANTS Pids, MaxKills     \* bound: backends killed

VARIABLES
  process,   \* pid -> none, proxy or foreign
  pidFile,   \* the pid of the record, as a set of at most one
  managed,   \* the pid of the backend's proxy, likewise
  at,        \* the backend's life
  starter,   \* its thread in start(): idle, reaped, spawned or failed
  unknown,   \* ghost: proxies no record names through no fault of a start
  struck,    \* ghost: a foreign process was signalled
  kills

vars == <<process, pidFile, managed, at, starter, unknown, struck, kills>>

\* starting: the proxy is started.  shared: it is served.  disabled: it failed.
\* storeless: without a session store no proxy is started.
Lives == {"off", "starting", "shared", "disabled", "storeless", "closing"}

AtMostOne == {{}} \cup {{p} : p \in Pids}

TypeOK ==
  /\ process \in [Pids -> {"none", "proxy", "foreign"}]
  /\ pidFile \in AtMostOne /\ managed \in AtMostOne
  /\ at \in Lives /\ starter \in {"idle", "reaped", "spawned", "failed"}
  /\ unknown \subseteq Pids /\ struck \in BOOLEAN /\ kills \in Nat

\* The command of a process tells a shared proxy from any other program.
Proxies == {p \in Pids : process[p] = "proxy"}
Recorded == pidFile
Running == Proxies \cap managed
Ended(P) ==
  /\ process' = [p \in Pids |-> IF p \in P THEN "none" ELSE process[p]]
  /\ struck' = (struck \/ \E p \in P : process[p] = "foreign")

Init ==
  /\ process = [p \in Pids |-> "none"]
  /\ pidFile = {} /\ managed = {} /\ at = "off" /\ starter = "idle"
  /\ unknown = {} /\ struck = FALSE /\ kills = 0

-----------------------------------------------------------------------------
(* The backend starts: first its session store.                            *)

\* _start_session_store.  A store that is missing or out of reach leaves a backend
\* without runs; a migration that fails on a store in reach ends it.
OpenStore ==
  /\ at = "off"
  /\ at' \in {"starting", "storeless"}
  /\ UNCHANGED <<process, pidFile, managed, starter, unknown, struck, kills>>

\* The record goes with a manager that is closed, although it was never started:
\* the proxy it named is no longer known.
Forgets ==
  /\ pidFile' = {}
  /\ unknown' = unknown \cup (Proxies \cap Recorded)
  /\ UNCHANGED <<process, struck>>

MigrationFails ==
  /\ at = "off" /\ at' = "closing"
  /\ Forgets
  /\ UNCHANGED <<managed, starter, kills>>

-----------------------------------------------------------------------------
(* start(), for the lifespan and, later on, for the monitor's restarts.    *)

Starts ==
  /\ starter' = "reaped" /\ starter \in {"idle", "failed"}
  /\ at = "shared" \/ (at = "starting" /\ managed = {} /\ starter = "idle")
  /\ Running = {}

\* Mutant: what the record names is ended without a look at its command.
ReapUnchecked ==
  /\ Starts
  /\ Ended(Recorded) /\ unknown' = unknown \ Recorded
  /\ pidFile' = {}
  /\ UNCHANGED <<managed, at, kills>>

\* _reap_prior_instance: whatever the record names, it goes.
ReapPriorInstance ==
  /\ Starts
  /\ Ended(Proxies \cap Recorded) /\ unknown' = unknown \ Recorded
  /\ pidFile' = {}
  /\ UNCHANGED <<managed, at, kills>>

Spawn(p) ==
  /\ starter = "reaped" /\ starter' = "spawned"
  /\ process[p] = "none"
  /\ process' = [process EXCEPT ![p] = "proxy"]
  /\ managed' = {p}
  /\ UNCHANGED <<pidFile, at, unknown, struck, kills>>

SpawnFails ==
  /\ starter = "reaped" /\ starter' = "failed"
  /\ UNCHANGED <<process, pidFile, managed, at, unknown, struck, kills>>

\* A record that cannot be written ends the proxy.
WritePidRecord(ok) ==
  /\ starter = "spawned"
  /\ IF ok THEN pidFile' = managed /\ starter' = "idle" /\ UNCHANGED <<process, managed, struck>>
           ELSE Ended(Running) /\ managed' = {} /\ starter' = "failed" /\ UNCHANGED pidFile
  /\ UNCHANGED <<at, unknown, kills>>

-----------------------------------------------------------------------------
(* The lifespan goes on, and ends.                                         *)

Terminates == Ended(Running) /\ pidFile' = {} /\ unknown' = unknown \ Running

\* The control socket answers.
Ready ==
  /\ at = "starting" /\ starter = "idle" /\ Running # {}
  /\ at' = "shared"
  /\ UNCHANGED <<process, pidFile, managed, starter, unknown, struck, kills>>

\* The start failed or the socket does not answer: the manager is closed, the
\* backend goes on without shared runs.
NotReady ==
  /\ at = "starting" /\ (starter = "failed" \/ (starter = "idle" /\ managed # {}))
  /\ at' = "disabled" /\ starter' = "idle"
  /\ Terminates
  /\ UNCHANGED <<managed, kills>>

\* After the runs the manager is closed, also one that was never started, but not
\* one whose start had failed.  A restart under way is not waited for.
Shutdown ==
  /\ at' = "closing"
  /\ \/ at = "shared" /\ Terminates
     \/ at = "storeless" /\ Forgets
     \/ at = "disabled" /\ UNCHANGED <<process, pidFile, unknown, struck>>
  /\ UNCHANGED <<managed, starter, kills>>

\* The loop closes when its threads are done.
Off ==
  /\ at = "closing" /\ starter \in {"idle", "failed"}
  /\ at' = "off" /\ starter' = "idle" /\ managed' = {}
  /\ UNCHANGED <<process, pidFile, unknown, struck, kills>>

Killed ==
  /\ at # "off" /\ kills < MaxKills /\ kills' = kills + 1
  /\ unknown' = IF starter = "spawned" THEN unknown \cup Running ELSE unknown
  /\ managed' = {} /\ at' = "off" /\ starter' = "idle"
  /\ UNCHANGED <<process, pidFile, struck>>

-----------------------------------------------------------------------------
Exits(p) ==
  /\ process[p] # "none"
  /\ process' = [process EXCEPT ![p] = "none"]
  /\ unknown' = unknown \ {p}
  /\ UNCHANGED <<pidFile, managed, at, starter, struck, kills>>

Reused(p) ==
  /\ process[p] = "none"
  /\ process' = [process EXCEPT ![p] = "foreign"]
  /\ UNCHANGED <<pidFile, managed, at, starter, unknown, struck, kills>>

Next ==
  \/ OpenStore \/ MigrationFails \/ ReapPriorInstance \/ SpawnFails
  \/ Ready \/ NotReady \/ Shutdown \/ Off \/ Killed
  \/ \E ok \in BOOLEAN : WritePidRecord(ok)
  \/ \E p \in Pids : Spawn(p) \/ Exits(p) \/ Reused(p)

Spec == Init /\ [][Next]_vars

-----------------------------------------------------------------------------
\* However often backends close, are killed or have no store, and pids are reused:
\* once a backend has started its proxy no other one is left, and between two
\* backends the record names the one that is, save those whose backend was killed
\* between spawn and record and those a manager that was never started forgot.  No
\* process of another program was ever ended.
OneProxyLeft ==
  /\ at = "shared" /\ starter = "idle" => Proxies \ unknown \subseteq managed
  /\ at = "off" => Proxies \ unknown \subseteq Recorded
  /\ ~struck
=============================================================================
