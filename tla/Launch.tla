------------------------------- MODULE Launch -------------------------------
(***************************************************************************)
(* A captured run is launched (captured_run.py, captured_run_context.py,   *)
(* cli/runner.py, cli/bind_failure.py, lock.py, supervisor_core.py): from  *)
(* the terminal with the channel's port, or by the run manager with a port *)
(* the kernel chose, which another process may take before the run's own   *)
(* proxy binds it, or with the shared proxy, where the run is registered.  *)
(* A command that lists instances reaps dead manifests.                    *)
(* A command may also run the proxy alone, in its terminal.                *)
(* Of the ports of a run only that of its proxy is modelled; ending a      *)
(* child (SIGTERM, five seconds, SIGKILL) is one step.                     *)
(***************************************************************************)
EXTENDS Naturals

CONSTANTS
  Launches,     \* launches, each with a run of its own
  Ports,
  MaxTrouble    \* bound: ports taken by others, proxies that die, launches killed

VARIABLES
  launch,    \* launch -> [how, phase, attempt, port, log: a conflict, signal, end]
  left,      \* launch -> what exists of it: home, lock, manifest, handlers, cbreak, registration
  proxy,     \* launch -> none, starting, up, lost (the port was taken) or dead
  at,        \* port -> the launch whose proxy listens there, or nobody, listener, holder
  listing,   \* launches whose manifest a list command has read and not yet probed
  trouble

vars == <<launch, left, proxy, at, listing, trouble>>

BIND_RETRY_ATTEMPTS == 3

Is(l, phase) == launch[l].phase = phase
Goes(l, phase) == launch' = [launch EXCEPT ![l].phase = phase]
Free == {p \in Ports : at[p] = "nobody"}

Commands == {"tty", "proxy only"}

\* A connection to the port succeeds, whoever listens there.
Answers(p) == at[p] \notin {"nobody", "holder"}

\* What a reader of manifests finds, and whose lock it then finds held.  A manifest is
\* replaced as a whole.
Manifests == {l \in Launches : "manifest" \in left[l]}
Held(l) == "lock" \in left[l]
Announced(l) == left[l] \cup {"manifest"}

\* terminate_all.
Terminated(l) ==
  /\ proxy' = [proxy EXCEPT ![l] = IF @ \in {"starting", "up"} THEN "dead" ELSE @]
  /\ at' = [p \in Ports |-> IF at[p] = l THEN "nobody" ELSE at[p]]

\* A mutant: the children are not ended.
OverKeepsProxy(l, end) ==
  /\ launch' = [launch EXCEPT ![l].phase = "over", ![l].end = end]
  /\ left' = [left EXCEPT ![l] = {}]
  /\ UNCHANGED <<proxy, at, listing, trouble>>

\* The children are ended, manifest and lock go, the resources are closed.
Over(l, end) ==
  /\ launch' = [launch EXCEPT ![l].phase = "over", ![l].end = end]
  /\ left' = [left EXCEPT ![l] = {}]
  /\ Terminated(l)
  /\ UNCHANGED <<listing, trouble>>

-----------------------------------------------------------------------------
(* Preparation.                                                            *)

\* prepare_launch: a command refuses the channel's port when something answers
\* there; for the run manager the kernel chooses one.
Start(l, how, port) ==
  /\ Is(l, "new")
  /\ how \notin Commands => port \in Free
  /\ IF how \in Commands /\ Answers(port)
     THEN Goes(l, "over")
     ELSE launch' = [launch EXCEPT ![l].how = how, ![l].port = port, ![l].phase = "planned"]
  /\ UNCHANGED <<left, proxy, at, listing, trouble>>

\* prepare_runtime_home, for a client.  The removal of the home is registered when it
\* is complete: an exception before leaves what there is of it.
Home(l) == IF launch[l].how = "proxy only" THEN {} ELSE {"home"}

PrepareHome(l) ==
  /\ Is(l, "planned")
  /\ Goes(l, "home")
  /\ left' = [left EXCEPT ![l] = Home(l)]
  /\ UNCHANGED <<proxy, at, listing, trouble>>

HomeFails(l) ==
  /\ Is(l, "planned")
  /\ launch' = [launch EXCEPT ![l].phase = "over", ![l].end = "no home"]
  /\ left' \in {left, [left EXCEPT ![l] = Home(l)]}
  /\ UNCHANGED <<proxy, at, listing, trouble>>

\* The session's descriptor, the addon's file and the invocation.
BuildContext(l) ==
  /\ Is(l, "home")
  /\ Goes(l, "context")
  /\ UNCHANGED <<left, proxy, at, listing, trouble>>

\* The run is new, so nobody holds its lock; what it knows of its session is stored for good.
Lock(l) ==
  /\ Is(l, "context")
  /\ Goes(l, "attempt")
  /\ left' = [left EXCEPT ![l] = @ \cup {"lock"}]
  /\ UNCHANGED <<proxy, at, listing, trouble>>

\* A step of the preparation raises.
Fail(l) ==
  /\ launch[l].phase \in {"home", "context", "attempt"}
  /\ Over(l, "failed")

\* Ctrl-C before a command has its handlers: the context is given up by its handler of
\* Exceptions, which a KeyboardInterrupt is not.
Interrupt(l) ==
  /\ launch[l].how \in Commands /\ "handlers" \notin left[l]
  /\ \/ /\ launch[l].phase \in {"planned", "home"}
        /\ launch' = [launch EXCEPT ![l].phase = "over", ![l].end = "no home"]
        /\ left' \in {left, [left EXCEPT ![l] = Home(l)]}
        /\ UNCHANGED <<proxy, at, listing, trouble>>
     \/ launch[l].phase \in {"context", "attempt"} /\ Over(l, "stopped")

Attempt(l) ==
  /\ Is(l, "attempt") /\ launch[l].how # "shared"
  /\ launch' = [launch EXCEPT ![l].phase = IF launch[l].how = "proxy only" THEN "alone" ELSE "waiting",
                              ![l].attempt = @ + 1]
  /\ left' = [left EXCEPT ![l] = Announced(l) \cup IF launch[l].how \in Commands THEN {"handlers"} ELSE {}]
  /\ proxy' = [proxy EXCEPT ![l] = "starting"]
  /\ UNCHANGED <<at, listing, trouble>>

\* The shared proxy takes the run, or refuses it or does not answer.
Register(l, ok) ==
  /\ Is(l, "attempt") /\ launch[l].how = "shared"
  /\ IF ok THEN /\ Goes(l, "leased")
                /\ left' = [left EXCEPT ![l] = Announced(l) \cup {"registration"}]
                /\ UNCHANGED <<proxy, at, listing, trouble>>
           ELSE Over(l, "failed")

\* start_prepared_proxy takes any answer for its proxy's.
IsReady(l) ==
  /\ Is(l, "waiting") /\ Answers(launch[l].port)
  /\ IF launch[l].signal
     THEN Over(l, "stopped")
     ELSE /\ Goes(l, IF launch[l].how = "tty" THEN "ready" ELSE "leased")
          /\ UNCHANGED <<left, proxy, at, listing, trouble>>

\* failing_ports_from_log: the log is opened for append, so a conflict of an
\* earlier attempt is one of this attempt.
BindConflict(l) == launch[l].log

\* The channel's port is pinned: a command does not retry.
Retries(l) ==
  /\ launch[l].how \notin Commands /\ launch[l].attempt # BIND_RETRY_ATTEMPTS
  /\ \E p \in Free : launch' = [launch EXCEPT ![l].phase = "attempt", ![l].port = p]
  /\ Terminated(l)
  /\ UNCHANGED <<left, listing, trouble>>
GivesUp(l) ==
  /\ launch[l].how \in Commands \/ launch[l].attempt = BIND_RETRY_ATTEMPTS \/ Free = {}
  /\ Over(l, "failed")

\* Nobody answered for five seconds.
NotReady(l) == Is(l, "waiting") /\ ~Answers(launch[l].port)

HandleBindFailure(l) ==
  /\ NotReady(l) /\ BindConflict(l)
  /\ Retries(l) \/ GivesUp(l)

StartTimesOut(l) ==
  /\ NotReady(l) /\ ~BindConflict(l)
  /\ Retries(l) \/ GivesUp(l)

-----------------------------------------------------------------------------
(* The run.                                                                *)

SpawnClient(l, isatty) ==
  /\ Is(l, "ready")
  /\ Goes(l, "running")
  /\ left' = [left EXCEPT ![l] = @ \cup IF isatty THEN {"cbreak"} ELSE {}]
  /\ UNCHANGED <<proxy, at, listing, trouble>>

\* spawn_with_pty puts the terminal back; nobody ends the proxy.
SpawnFails(l) ==
  /\ Is(l, "ready")
  /\ launch' = [launch EXCEPT ![l].phase = "over", ![l].end = "unspawned"]
  /\ left' = [left EXCEPT ![l] = {}]
  /\ UNCHANGED <<proxy, at, listing, trouble>>

\* The proxy stays for the web UI.
ClientExits(l) ==
  /\ Is(l, "running")
  /\ Goes(l, "alone")
  /\ UNCHANGED <<left, proxy, at, listing, trouble>>

\* wait_any and wait_one: the end of the proxy, or a signal.
ProxyGone(l) ==
  /\ launch[l].phase \in {"running", "alone"} /\ proxy[l] \in {"lost", "dead"}
  /\ Over(l, "failed")

Stopped(l) ==
  /\ launch[l].phase \in {"running", "alone"} /\ launch[l].signal
  /\ Over(l, "stopped")

\* Only the supervisor of a command has handlers.
Signal(l) ==
  /\ "handlers" \in left[l] /\ ~launch[l].signal
  /\ launch' = [launch EXCEPT ![l].signal = TRUE]
  /\ UNCHANGED <<left, proxy, at, listing, trouble>>

\* The run manager closes the lease.
Close(l) == Is(l, "leased") /\ Over(l, "stopped")

-----------------------------------------------------------------------------
(* Everybody else.                                                         *)

ProxyBinds(l) ==
  LET p == launch[l].port IN
  /\ proxy[l] = "starting"
  /\ IF at[p] = "nobody"
     THEN proxy' = [proxy EXCEPT ![l] = "up"] /\ at' = [at EXCEPT ![p] = l]
     ELSE proxy' = [proxy EXCEPT ![l] = "lost"] /\ UNCHANGED at
  /\ launch' = IF at[p] = "nobody" \/ launch[l].how = "proxy only" THEN launch ELSE [launch EXCEPT ![l].log = TRUE]
  /\ UNCHANGED <<left, listing, trouble>>

Troubled == trouble < MaxTrouble /\ trouble' = trouble + 1

ProxyDies(l) ==
  /\ proxy[l] = "up" /\ Troubled
  /\ Terminated(l)
  /\ UNCHANGED <<launch, left, listing>>

\* Another process takes a port, and listens or only holds it; a port is given back.
Take(p, who) ==
  /\ at[p] = "nobody" /\ Troubled
  /\ at' = [at EXCEPT ![p] = who]
  /\ UNCHANGED <<launch, left, proxy, listing>>

GiveBack(p) ==
  /\ at[p] \in {"listener", "holder"}
  /\ at' = [at EXCEPT ![p] = "nobody"]
  /\ UNCHANGED <<launch, left, proxy, listing, trouble>>

\* The launching process is killed: the kernel lets go of its lock, and the
\* hung-up terminal ends its client; the shared proxy is the killed backend's.
Kill(l) ==
  /\ launch[l].phase \notin {"new", "over", "killed"} /\ Troubled
  /\ Goes(l, "killed")
  /\ left' = [left EXCEPT ![l] = @ \ {"lock", "handlers", "cbreak", "registration"}]
  /\ UNCHANGED <<proxy, at, listing>>

\* list_instances reads the manifests, then probes the lock of each.
ListRead ==
  /\ listing = {}
  /\ listing' = Manifests
  /\ listing' # {}
  /\ UNCHANGED <<launch, left, proxy, at, trouble>>

ListProbe(l) ==
  /\ l \in listing
  /\ listing' = listing \ {l}
  /\ left' = IF Held(l) THEN left ELSE [left EXCEPT ![l] = @ \ {"manifest"}]
  /\ UNCHANGED <<launch, proxy, at, trouble>>

Init ==
  /\ launch = [l \in Launches |-> [how |-> "tty", phase |-> "new", attempt |-> 0,
                                   port |-> CHOOSE p \in Ports : TRUE, log |-> FALSE, signal |-> FALSE, end |-> "none"]]
  /\ left = [l \in Launches |-> {}]
  /\ proxy = [l \in Launches |-> "none"]
  /\ at = [p \in Ports |-> "nobody"]
  /\ listing = {} /\ trouble = 0

Proceed(l) ==
  \/ PrepareHome(l) \/ BuildContext(l) \/ Lock(l) \/ Attempt(l) \/ (\E ok \in BOOLEAN : Register(l, ok))
  \/ IsReady(l) \/ HandleBindFailure(l) \/ StartTimesOut(l)
  \/ \E isatty \in BOOLEAN : SpawnClient(l, isatty)
  \/ ProxyGone(l) \/ Stopped(l)

Next ==
  \/ \E l \in Launches, how \in Commands \cup {"managed", "shared"}, p \in Ports : Start(l, how, p)
  \/ \E l \in Launches : Proceed(l) \/ Fail(l) \/ HomeFails(l) \/ Interrupt(l) \/ SpawnFails(l) \/ ClientExits(l) \/ Signal(l) \/ Close(l)
  \/ \E l \in Launches : ProxyBinds(l) \/ ProxyDies(l) \/ Kill(l) \/ ListProbe(l)
  \/ \E p \in Ports, who \in {"listener", "holder"} : Take(p, who)
  \/ \E p \in Ports : GiveBack(p)
  \/ ListRead

Spec == Init /\ [][Next]_vars

-----------------------------------------------------------------------------
\* Whatever step fails and whoever takes the port: a launch that is over has left no
\* home, lock, manifest, handlers or altered terminal behind, unless its home was never
\* completed, nor a proxy, unless its client could not be spawned; and a manifest without
\* its lock is one of a killed launch.
NothingIsLeft ==
  \A l \in Launches :
    /\ Is(l, "over") => left[l] \subseteq IF launch[l].end = "no home" THEN {"home"} ELSE {}
    /\ Is(l, "over") /\ launch[l].end # "unspawned" => proxy[l] \notin {"starting", "up"}
    /\ l \in Manifests /\ ~Held(l) => Is(l, "killed")
    /\ \A p \in Ports : at[p] = l => proxy[l] = "up" /\ launch[l].port = p

\* The loser of a race for a port retries (cli/ports.py:17, "the loser of the eventual
\* bind race retries"): no launch goes on with the port of another's proxy.
LoserRetries == \A l \in Launches : launch[l].phase \in {"ready", "running", "alone", "leased"} => proxy[l] # "lost"
=============================================================================
