----------------------------- MODULE SharedProxy -----------------------------
(***************************************************************************)
(* The shared capture proxy: the manager in the API process                *)
(* (shared_proxy/manager.py, process.py), the control channel (control.py) *)
(* and the proxy's own process (subprocess.py, addon.py).                  *)
(*                                                                         *)
(* The manager runs one call at a time under its lock.  The proxy answers  *)
(* every control request in a task of its own, which suspends while the    *)
(* listener is probed and while the run's transcript is registered; the    *)
(* manager's deadline for the answer does not stop that task.  An override *)
(* snapshot is a model value; the snapshots of a run's tracks are one.     *)
(***************************************************************************)
EXTENDS Naturals, FiniteSets

CONSTANTS
  Runs,       \* the runs that ask for a listener
  PortOf,     \* the listen port each was given
  Snapshots,  \* the override snapshots an operator sets
  Flows,      \* the connections clients make
  DialOf,     \* the port each of them dials
  Handlers,   \* bound: control requests the proxy works on at once
  MaxFaults,  \* bound: crashes, failed starts, probes and registrations
  Late,       \* the tasks of the proxy that may miss the manager's deadline
  None

ASSUME ProxyConstants ==
  /\ MaxFaults \in Nat
  /\ Late \subseteq Handlers
  /\ None \notin Runs \cup Snapshots \cup Handlers
  /\ DOMAIN PortOf = Runs /\ DOMAIN DialOf = Flows

VARIABLES
  mirror,     \* _by_run_id of the manager
  overrides,  \* its _overrides
  stale,      \* its _needs_rehydrate
  op,         \* the call that holds its _lock
  life,       \* how far each run has come: its id is new, held or given back
  asked,      \* override changes whose routes wait for the _lock
  proxy,      \* the proxy process: "down" or "up"
  table,      \* its binding table
  store,      \* its override store
  handler,    \* its tasks at work on a control request
  bound,      \* its _runtime_by_flow_id
  stamp,      \* the run stamped on each flow's metadata
  flow,       \* how far each flow has come
  captured,   \* history: the runs that captured each flow's hooks
  faults      \* what has gone wrong so far

vars == <<mirror, overrides, stale, op, life, asked, proxy, table, store, handler, bound,
          stamp, flow, captured, faults>>

flowVars == <<bound, stamp, flow, captured>>
managerVars == <<mirror, overrides, stale, life, asked>>

-----------------------------------------------------------------------------
Maybe(S) == S \cup {None}

\* What is asked of the proxy: to register or to deregister a run, or to
\* replace a run's override snapshot.
Requests == [kind : {"register", "deregister"}, run : Runs]
              \cup [kind : {"set"}, run : Runs, to : Snapshots]

Register(r) == [kind |-> "register", run |-> r]

Deregister(r) == [kind |-> "deregister", run |-> r]
Set(r, s) == [kind |-> "set", run |-> r, to |-> s]

\* A call of the manager: ensuring that the proxy runs, waiting until it is
\* ready, repeating what it must know, or making the call's own request (req;
\* None: supervise).
Ops == [req : Maybe(Requests), at : {"ensure", "ready", "rehydrate", "own"},
        todo : SUBSET Requests, wait : Maybe(Handlers)]

\* A task of the proxy: its request, the binding table it saw when it began
\* and where it suspends.
Tasks == [req : Requests, prev : SUBSET Runs, at : {"sent", "probe", "core"}]

\* None stands for "no request", "no call" and "no task".
ASSUME NoneIsNoValue == None \notin Requests \cup Ops \cup Tasks

TypeOK ==
  /\ mirror \in SUBSET Runs
  /\ overrides \in [Runs -> Maybe(Snapshots)]
  /\ stale \in BOOLEAN
  /\ op \in Maybe(Ops)
  /\ life \in [Runs -> {"new", "held", "closed"}]
  /\ asked \in SUBSET [kind : {"set"}, run : Runs, to : Snapshots]
  /\ proxy \in {"down", "up"}
  /\ table \in SUBSET Runs
  /\ store \in [Runs -> Maybe(Snapshots)]
  /\ handler \in [Handlers -> Maybe(Tasks)]
  /\ bound \in [Flows -> Maybe(Runs)]
  /\ stamp \in [Flows -> Maybe(Runs)]
  /\ flow \in [Flows -> {"new", "open", "over", "refused"}]
  /\ captured \in [Flows -> SUBSET Runs]
  /\ faults \in 0..MaxFaults

Init ==
  /\ mirror = {}
  /\ overrides = [r \in Runs |-> None]
  /\ stale = FALSE
  /\ op = None
  /\ life = [r \in Runs |-> "new"]
  /\ asked = {}
  /\ proxy = "down"
  /\ table = {}
  /\ store = [r \in Runs |-> None]
  /\ handler = [h \in Handlers |-> None]
  /\ bound = [f \in Flows |-> None]
  /\ stamp = [f \in Flows |-> None]
  /\ flow = [f \in Flows |-> "new"]
  /\ captured = [f \in Flows |-> {}]
  /\ faults = 0

Fault == faults < MaxFaults /\ faults' = faults + 1

-----------------------------------------------------------------------------
(* The manager's calls                                                     *)

Start(req) == op' = [req |-> req, at |-> "ensure", todo |-> {}, wait |-> None]

\* register refuses a port that the mirror already has; a run's id is new.
CallRegister(r) ==
  /\ op = None
  /\ life[r] = "new"
  /\ \A q \in mirror : PortOf[q] # PortOf[r]
  /\ Start(Register(r))
  /\ life' = [life EXCEPT ![r] = "held"]
  /\ UNCHANGED <<mirror, overrides, stale, asked, proxy, table, store, handler, flowVars,
                 faults>>

\* A lease deregisters its run once, whether that succeeds or not.
CallDeregister(r) ==
  /\ op = None
  /\ r \in mirror
  /\ life[r] = "held"
  /\ Start(Deregister(r))
  /\ life' = [life EXCEPT ![r] = "closed"]
  /\ UNCHANGED <<mirror, overrides, stale, asked, proxy, table, store, handler, flowVars,
                 faults>>

\* The overrides route asks for a run that the manager knows at that time ...
AskSet(r, s) ==
  /\ r \in mirror
  /\ Set(r, s) \notin asked
  /\ asked' = asked \cup {Set(r, s)}
  /\ UNCHANGED <<mirror, overrides, stale, life, op, proxy, table, store, handler,
                 flowVars, faults>>

\* ... and is served when it gets the lock.
CallSet(req) ==
  /\ op = None
  /\ req \in asked
  /\ Start(req)
  /\ asked' = asked \ {req}
  /\ UNCHANGED <<mirror, overrides, stale, life, proxy, table, store, handler, flowVars,
                 faults>>

\* Mutant: a proxy that runs is left alone.
SuperviseRunningOnly ==
  /\ op = None
  /\ proxy = "down"
  /\ Start(None)
  /\ UNCHANGED <<managerVars, proxy, table, store, handler, flowVars, faults>>

\* The monitor, twice a second; a proxy still to be rehydrated is not left
\* alone because it runs.
Supervise ==
  /\ op = None
  /\ proxy = "down" \/ stale
  /\ Start(None)
  /\ UNCHANGED <<managerVars, proxy, table, store, handler, flowVars, faults>>

\* A call fails: the mirror forgets a run whose registration it anticipated.
Fail ==
  /\ mirror' = IF op.at = "own" /\ op.req.kind = "register"
               THEN mirror \ {op.req.run} ELSE mirror
  /\ op' = None
  /\ UNCHANGED <<overrides, stale, life, asked>>

\* process.start, unless the process runs: a new one has nothing registered.
EnsureProcess ==
  /\ op # None /\ op.at = "ensure"
  /\ op' = [op EXCEPT !.at = "ready"]
  /\ IF proxy = "up"
     THEN UNCHANGED <<proxy, table, store, stale>>
     ELSE /\ proxy' = "up"
          /\ table' = {}
          /\ store' = [r \in Runs |-> None]
          /\ stale' = TRUE
  /\ UNCHANGED <<mirror, overrides, life, asked, handler, flowVars, faults>>

\* The process does not start, or its control socket is not ready in time.
EnsureFails ==
  /\ op # None
  /\ op.at = "ready" \/ (op.at = "ensure" /\ proxy = "down")
  /\ Fault
  /\ Fail
  /\ UNCHANGED <<proxy, table, store, handler, flowVars>>

\* Mutant: only the bindings are sent to a new proxy.
KnownBindings == {Register(r) : r \in mirror}

\* What a new proxy must be told.
Known == {Register(r) : r \in mirror}
           \cup {Set(r, overrides[r]) : r \in {q \in Runs : overrides[q] # None}}

\* The proxy answers the ping.
ProxyReady ==
  /\ op # None /\ op.at = "ready"
  /\ proxy = "up"
  /\ op' = IF stale THEN [op EXCEPT !.at = "rehydrate", !.todo = Known]
           ELSE IF op.req = None THEN None ELSE [op EXCEPT !.at = "own"]
  /\ mirror' = IF ~stale /\ op.req # None /\ op.req.kind = "register"
               THEN mirror \cup {op.req.run} ELSE mirror
  /\ UNCHANGED <<overrides, stale, life, asked, proxy, table, store, handler, flowVars,
                 faults>>

Free == {h \in Handlers : handler[h] = None}

Sent(req) == [req |-> req, prev |-> {}, at |-> "sent"]

Send(req) ==
  /\ proxy = "up"
  /\ \E h \in Free :
       /\ handler' = [handler EXCEPT ![h] = Sent(req)]
       /\ op' = [op EXCEPT !.wait = h]
  /\ UNCHANGED <<managerVars, proxy, table, store, flowVars, faults>>

\* The bindings are repeated before the overrides, one at a time.
Rehydrate ==
  /\ op # None /\ op.at = "rehydrate" /\ op.wait = None
  /\ \E req \in op.todo :
       /\ req.kind = "set" => \A q \in op.todo : q.kind = "set"
       /\ Send(req)

Rehydrated ==
  /\ op # None /\ op.at = "rehydrate" /\ op.todo = {}
  /\ stale' = FALSE
  /\ op' = IF op.req = None THEN None ELSE [op EXCEPT !.at = "own"]
  /\ mirror' = IF op.req # None /\ op.req.kind = "register"
               THEN mirror \cup {op.req.run} ELSE mirror
  /\ UNCHANGED <<overrides, life, asked, proxy, table, store, handler, flowVars, faults>>

SendOwn ==
  /\ op # None /\ op.at = "own" /\ op.wait = None
  /\ Send(op.req)

\* The process has exited, the connection is refused or it breaks.
RequestLost ==
  /\ op # None /\ op.at # "ensure"
  /\ proxy = "down"
  /\ Fail
  /\ UNCHANGED <<proxy, table, store, handler, flowVars, faults>>

\* The deadline for an answer passes; the proxy goes on working on it.
GiveUp(h) ==
  /\ op # None /\ op.wait = h
  /\ Fault
  /\ Fail
  /\ UNCHANGED <<proxy, table, store, handler, flowVars>>

\* The manager receives an acknowledgement.
Acknowledged(req) ==
  IF op.at = "rehydrate"
  THEN /\ op' = [op EXCEPT !.todo = @ \ {req}, !.wait = None]
       /\ UNCHANGED managerVars
  ELSE /\ op' = None
       /\ mirror' = IF req.kind = "deregister" THEN mirror \ {req.run} ELSE mirror
       /\ overrides' = CASE req.kind = "deregister" -> [overrides EXCEPT ![req.run] = None]
                         [] req.kind = "set" -> [overrides EXCEPT ![req.run] = req.to]
                         [] OTHER -> overrides
       /\ UNCHANGED <<stale, life, asked>>

-----------------------------------------------------------------------------
(* The proxy's side of the control channel                                 *)

\* A task ends; its answer matters only to a manager that still waits for it.
Answer(h, ok) ==
  /\ handler' = [handler EXCEPT ![h] = None]
  /\ IF op = None \/ op.wait # h THEN UNCHANGED <<op, managerVars>>
     ELSE IF ok THEN Acknowledged(handler[h].req)
     ELSE Fail

Task(h, at) == proxy = "up" /\ handler[h] # None /\ handler[h].at = at

\* The port is another run's.
Conflict(r) == \E q \in table : q # r /\ PortOf[q] = PortOf[r]

\* Where a task suspends, and the table it takes with it.
Probing(task) == [task EXCEPT !.at = "probe", !.prev = table]
Registering(task) == [task EXCEPT !.at = "core"]

\* The task changes the table and the listeners, then probes the port.
Begin(h) ==
  LET req == handler[h].req
      probing == [handler EXCEPT ![h] = Probing(handler[h])]
  IN /\ Task(h, "sent")
     /\ \/ /\ req.kind = "register" /\ ~Conflict(req.run)
           /\ table' = table \cup {req.run}
           /\ handler' = probing
           /\ UNCHANGED <<op, managerVars, store>>
        \/ /\ req.kind = "deregister" /\ req.run \in table
           /\ table' = table \ {req.run}
           /\ handler' = probing
           /\ UNCHANGED <<op, managerVars, store>>
        \/ /\ req.kind = "register" /\ Conflict(req.run)
           /\ Answer(h, FALSE)
           /\ UNCHANGED <<table, store>>
        \/ /\ req.kind = "deregister" /\ req.run \notin table
           /\ Answer(h, TRUE)
           /\ UNCHANGED <<table, store>>
        \/ /\ req.kind = "set"
           /\ store' = [store EXCEPT ![req.run] = req.to]
           /\ Answer(h, TRUE)
           /\ UNCHANGED table
     /\ UNCHANGED <<proxy, flowVars, faults>>

\* The listener accepts (or refuses) connections; a registration goes on to
\* register the run's transcript.
Probed(h) ==
  /\ Task(h, "probe")
  /\ IF handler[h].req.kind = "register"
     THEN /\ handler' = [handler EXCEPT ![h] = Registering(handler[h])]
          /\ UNCHANGED <<op, managerVars>>
     ELSE Answer(h, TRUE)
  /\ UNCHANGED <<proxy, table, store, flowVars, faults>>

Registered(h) ==
  /\ Task(h, "core")
  /\ Answer(h, TRUE)
  /\ UNCHANGED <<proxy, table, store, flowVars, faults>>

\* Mutant: a failed registration leaves its binding behind.
RollBackNothing(h) ==
  /\ Task(h, "probe") \/ Task(h, "core")
  /\ Fault
  /\ Answer(h, FALSE)
  /\ UNCHANGED <<proxy, table, store, flowVars>>

\* A probe or the registration of the transcript fails: the table the task
\* saw before it suspended is restored, with the flows it knows.
RollBack(h) ==
  /\ Task(h, "probe") \/ Task(h, "core")
  /\ Fault
  /\ table' = handler[h].prev
  /\ bound' = [f \in Flows |-> IF bound[f] \in handler[h].prev THEN bound[f] ELSE None]
  /\ Answer(h, FALSE)
  /\ UNCHANGED <<proxy, store, stamp, flow, captured>>

Crash ==
  /\ proxy = "up"
  /\ Fault
  /\ proxy' = "down"
  /\ table' = {}
  /\ handler' = [h \in Handlers |-> None]
  /\ bound' = [f \in Flows |-> None]
  /\ flow' = [f \in Flows |-> IF flow[f] = "open" THEN "over" ELSE flow[f]]
  /\ UNCHANGED <<managerVars, op, store, stamp, captured>>

-----------------------------------------------------------------------------
(* Flows                                                                   *)

OnPort(p) == {r \in table : PortOf[r] = p}

\* The first hook of a flow finds its run by the port it came in on.
FlowOpens(f) ==
  /\ proxy = "up"
  /\ flow[f] = "new"
  /\ IF OnPort(DialOf[f]) = {}
     THEN flow' = [flow EXCEPT ![f] = "refused"] /\ UNCHANGED <<bound, stamp, captured>>
     ELSE \E r \in OnPort(DialOf[f]) :
            /\ flow' = [flow EXCEPT ![f] = "open"]
            /\ bound' = [bound EXCEPT ![f] = r]
            /\ stamp' = [stamp EXCEPT ![f] = r]
            /\ captured' = [captured EXCEPT ![f] = {r}]
  /\ UNCHANGED <<managerVars, op, proxy, table, store, handler, faults>>

\* Mutant: later hooks look the port up again.
ResolvedByPort(f) == OnPort(DialOf[f])

\* Later hooks find it by the flow, or by the run stamped on the flow.
Resolved(f) == IF bound[f] # None THEN {bound[f]} ELSE {stamp[f]} \cap table

FlowGoesOn(f) ==
  /\ flow[f] = "open"
  /\ \E r \in Resolved(f) :
       /\ captured' = [captured EXCEPT ![f] = @ \cup {r}]
       /\ \E last \in BOOLEAN :
            /\ flow' = [flow EXCEPT ![f] = IF last THEN "over" ELSE "open"]
            /\ bound' = [bound EXCEPT ![f] = IF last THEN None ELSE r]
  /\ UNCHANGED <<managerVars, op, proxy, table, store, handler, stamp, faults>>

FlowKilled(f) ==
  /\ flow[f] = "open"
  /\ Resolved(f) = {}
  /\ flow' = [flow EXCEPT ![f] = "refused"]
  /\ UNCHANGED <<managerVars, op, proxy, table, store, handler, bound, stamp, captured,
                 faults>>

-----------------------------------------------------------------------------
OpStep ==
  \/ EnsureProcess \/ ProxyReady \/ Rehydrate \/ Rehydrated \/ SendOwn \/ RequestLost

TaskStep(h) == Begin(h) \/ Probed(h) \/ Registered(h)

Next ==
  \/ \E r \in Runs : \/ CallRegister(r) \/ CallDeregister(r)
                     \/ \E s \in Snapshots : AskSet(r, s)
  \/ \E req \in asked : CallSet(req)
  \/ Supervise
  \/ OpStep \/ EnsureFails
  \/ \E h \in Late : GiveUp(h)
  \/ \E h \in Handlers : TaskStep(h) \/ RollBack(h)
  \/ Crash
  \/ \E f \in Flows : FlowOpens(f) \/ FlowGoesOn(f) \/ FlowKilled(f)

Spec == Init /\ [][Next]_vars

\* The monitor keeps polling, the manager's coroutine and the proxy's tasks
\* go on; every request is answered or given up.
FairSpec ==
  /\ Spec
  /\ SF_vars(Supervise)
  /\ WF_vars(OpStep)
  /\ \A h \in Handlers : WF_vars(TaskStep(h))

-----------------------------------------------------------------------------
(* Properties                                                              *)

Quiet == op = None /\ proxy = "up" /\ ~stale /\ Free = Handlers

\* When no call is under way, the proxy serves exactly the runs the API
\* believes in, with the overrides it believes in, however calls failed and
\* whenever the proxy crashed and was rehydrated.
MirrorIsServed ==
  Quiet => /\ table = mirror
           /\ \A r \in mirror : store[r] = overrides[r]

\* No hook of a flow is captured for another run than the first one was,
\* although ports are given to other runs as soon as they are free.
OneRunPerFlow == \A f \in Flows : \A q, r \in captured[f] : q = r

\* No two runs are served on one port at the same time.
PortsAreExclusive == \A q, r \in table : PortOf[q] = PortOf[r] => q = r

\* A run the API holds is served again after every crash, or given up.
RunsAreServed == \A r \in Runs : r \in mirror ~> r \in table \/ r \notin mirror
=============================================================================
