----------------------------- MODULE RunManager -----------------------------
(***************************************************************************)
(* The managed runs of the API process: run_manager.py, with the lease of  *)
(* shared_proxy/run_preparation.py and the PTY of pty_session.py as it     *)
(* uses them.                                                              *)
(*                                                                         *)
(* Everything runs on one asyncio loop; what is handed to a thread (the    *)
(* preparation, spawn_pty, terminate_terminal_pty) or awaited (the release *)
(* of a lease) starts in one action and ends in a later one.  A spawn call *)
(* makes at most one run, so a call and its run share a name.  Timestamps, *)
(* exit codes and the terminal output itself are left out (the output is   *)
(* module TerminalFanout).                                                 *)
(***************************************************************************)
EXTENDS Naturals, FiniteSets

CONSTANTS
  Runs,       \* the spawn calls, each with the run it may make
  OnAttach,   \* those with start_on_attach
  Shared,     \* those whose lease must deregister with the shared proxy
  Keys,       \* the idempotency keys
  KeyOf,      \* the key of each spawn call, or None
  Slots,      \* spawn_concurrency
  Viewers,    \* the attach calls
  RunOf,      \* the run each of them names
  Kills,      \* the terminate calls
  None

ASSUME RunConstants ==
  /\ OnAttach \subseteq Runs
  /\ Shared \subseteq Runs
  /\ KeyOf \in [Runs -> Keys \cup {None}]
  /\ Slots \in Nat \ {0}
  /\ RunOf \in [Viewers -> Runs]
  /\ None \notin Runs \cup Viewers \cup Keys
  /\ Runs \cap Viewers = {}

VARIABLES
  closed,    \* _closed
  closer,    \* how far close() has come
  toClose,   \* the runs of its snapshot it has still to tear down
  spawner,   \* how far each spawn call has come
  answer,    \* the run it returned
  keyLock,   \* holder of _spawn_idempotency_lock
  byKey,     \* _runs_by_idempotency_key
  known,     \* _runs
  state,     \* RunState of each run, None before it is made
  pty,       \* run.terminal: None, or whether it is live or closed
  lease,     \* the lease: None, "open" or "closed" (its _closed is set)
  starter,   \* the call that holds run.start_lock to spawn the PTY
  failing,   \* runs whose failed start is closing the lease
  drain,     \* the drain task
  attached,  \* the viewers in run.attachments
  viewer,    \* how far each attach call has come
  kill,      \* how far each terminate call has come
  calls,     \* _teardown_run calls queued on _teardown_lock
  tear,      \* the one that holds it
  overtaken  \* history: runs torn down while their PTY was being spawned

vars == <<closed, closer, toClose, spawner, answer, keyLock, byKey, known, state,
          pty, lease, starter, failing, drain, attached, viewer, kill, calls,
          tear, overtaken>>

spawnVars == <<spawner, answer, keyLock, byKey>>
tearVars == <<closer, toClose, kill, calls, tear, overtaken>>

-----------------------------------------------------------------------------
Maybe(S) == S \cup {None}

Startable == {"STARTING", "RUNNING"}
Ended == {"TERMINATED", "EXITED", "FAILED"}
RunStates == Startable \cup {"TERMINATING"} \cup Ended

\* A _teardown_run call: who makes it, for which run, and the state it sets.
Calls == [who : {"kill"}, by : Kills, run : Runs, to : {"TERMINATING"}]
           \cup [who : {"close"}, by : {None}, run : Runs, to : {"TERMINATING"}]
           \cup [who : {"drain"}, by : {None}, run : Runs, to : {"EXITED", "FAILED"}]

\* Where the call that holds _teardown_lock awaits: the cancelled drain task,
\* the thread that closes the PTY, the lease (which it closes itself if fresh).
Tears == [call : Calls, at : {"drain", "pty", "lease"}, fresh : BOOLEAN]

ASSUME NoneIsNoValue ==
  None \notin RunStates \cup {"live", "closed", "open"} \cup Tears

TypeOK ==
  /\ closed \in BOOLEAN
  /\ closer \in {"open", "closing", "waiting", "done"}
  /\ toClose \in SUBSET Runs
  /\ spawner \in [Runs -> {"idle", "keying", "admitting", "preparing", "starting",
                           "rolling", "returned", "refused"}]
  /\ answer \in [Runs -> Maybe(Runs)]
  /\ keyLock \in Maybe(Runs)
  /\ byKey \in [Keys -> Maybe(Runs)]
  /\ known \in SUBSET Runs
  /\ state \in [Runs -> Maybe(RunStates)]
  /\ pty \in [Runs -> Maybe({"live", "closed"})]
  /\ lease \in [Runs -> Maybe({"open", "closed"})]
  /\ starter \in [Runs -> Maybe(Runs \cup Viewers)]
  /\ failing \in SUBSET Runs
  /\ drain \in [Runs -> {"none", "reading", "leaving", "done"}]
  /\ attached \in [Runs -> SUBSET Viewers]
  /\ viewer \in [Viewers -> {"idle", "waiting", "starting", "attached", "left",
                             "refused"}]
  /\ kill \in [Kills -> {"idle", "calling", "over"}]
  /\ calls \in SUBSET Calls
  /\ tear \in Maybe(Tears)
  /\ overtaken \in SUBSET Runs

Init ==
  /\ closed = FALSE
  /\ closer = "open"
  /\ toClose = {}
  /\ spawner = [r \in Runs |-> "idle"]
  /\ answer = [r \in Runs |-> None]
  /\ keyLock = None
  /\ byKey = [k \in Keys |-> None]
  /\ known = {}
  /\ state = [r \in Runs |-> None]
  /\ pty = [r \in Runs |-> None]
  /\ lease = [r \in Runs |-> None]
  /\ starter = [r \in Runs |-> None]
  /\ failing = {}
  /\ drain = [r \in Runs |-> "none"]
  /\ attached = [r \in Runs |-> {}]
  /\ viewer = [v \in Viewers |-> "idle"]
  /\ kill = [k \in Kills |-> "idle"]
  /\ calls = {}
  /\ tear = None
  /\ overtaken = {}

-----------------------------------------------------------------------------
(* spawn                                                                   *)

\* A spawn call ends: it leaves the semaphore and, if keyed, the key lock.
Unlocked(r) == IF keyLock = r THEN None ELSE keyLock

Refuse(r) ==
  /\ spawner' = [spawner EXCEPT ![r] = "refused"]
  /\ keyLock' = Unlocked(r)
  /\ UNCHANGED <<answer, byKey>>

\* The key is recorded only once the whole spawn succeeded.
Return(r) ==
  /\ spawner' = [spawner EXCEPT ![r] = "returned"]
  /\ answer' = [answer EXCEPT ![r] = r]
  /\ keyLock' = Unlocked(r)
  /\ byKey' = IF KeyOf[r] = None THEN byKey ELSE [byKey EXCEPT ![KeyOf[r]] = r]

Spawn(r) ==
  /\ spawner[r] = "idle"
  /\ spawner' = [spawner EXCEPT ![r] = IF closed THEN "refused"
                                       ELSE IF KeyOf[r] = None THEN "admitting"
                                       ELSE "keying"]
  /\ UNCHANGED <<closed, answer, keyLock, byKey, known, state, pty, lease, starter,
                 failing, drain, attached, viewer, tearVars>>

\* Mutant: the key is looked up without holding the lock over the spawn.
TakeKeyUnlocked(r) ==
  /\ spawner[r] = "keying"
  /\ IF byKey[KeyOf[r]] # None
     THEN /\ spawner' = [spawner EXCEPT ![r] = "returned"]
          /\ answer' = [answer EXCEPT ![r] = byKey[KeyOf[r]]]
     ELSE /\ spawner' = [spawner EXCEPT ![r] = "admitting"]
          /\ UNCHANGED answer
  /\ UNCHANGED <<closed, keyLock, byKey, known, state, pty, lease, starter, failing,
                 drain, attached, viewer, tearVars>>

\* One keyed spawn at a time; a known key answers with its run, whatever
\* has become of it.
TakeKey(r) ==
  /\ spawner[r] = "keying"
  /\ keyLock = None
  /\ IF byKey[KeyOf[r]] # None
     THEN /\ spawner' = [spawner EXCEPT ![r] = "returned"]
          /\ answer' = [answer EXCEPT ![r] = byKey[KeyOf[r]]]
          /\ UNCHANGED keyLock
     ELSE /\ spawner' = [spawner EXCEPT ![r] = "admitting"]
          /\ keyLock' = r
          /\ UNCHANGED answer
  /\ UNCHANGED <<closed, byKey, known, state, pty, lease, starter, failing, drain,
                 attached, viewer, tearVars>>

\* Mutant: a spawn that fails keeps its slot.
AdmittedLeaking == {r \in Runs : spawner[r] \in {"preparing", "starting", "rolling",
                                                "refused"}}

\* Spawns that hold a slot of _spawn_semaphore.
Admitted == {r \in Runs : spawner[r] \in {"preparing", "starting", "rolling"}}

Admit(r) ==
  /\ spawner[r] = "admitting"
  /\ Cardinality(Admitted) < Slots
  /\ IF closed THEN Refuse(r)
     ELSE /\ spawner' = [spawner EXCEPT ![r] = "preparing"]
          /\ UNCHANGED <<answer, keyLock, byKey>>
  /\ UNCHANGED <<closed, known, state, pty, lease, starter, failing, drain, attached,
                 viewer, tearVars>>

\* The session store, the proxy or the launch refused; nothing is left behind.
PrepareFails(r) ==
  /\ spawner[r] = "preparing"
  /\ Refuse(r)
  /\ UNCHANGED <<closed, known, state, pty, lease, starter, failing, drain, attached,
                 viewer, tearVars>>

\* The run is registered; unless it starts on attach its PTY is asked for at
\* once, under a start_lock nobody else can have seen yet.
Register(r) ==
  /\ known' = known \cup {r}
  /\ state' = [state EXCEPT ![r] = "STARTING"]
  /\ lease' = [lease EXCEPT ![r] = "open"]
  /\ IF r \in OnAttach
     THEN /\ Return(r)
          /\ UNCHANGED starter
     ELSE /\ spawner' = [spawner EXCEPT ![r] = "starting"]
          /\ starter' = [starter EXCEPT ![r] = r]
          /\ UNCHANGED <<answer, keyLock, byKey>>

\* Mutant: the manager is not asked again whether it was closed.
PreparedUnchecked(r) ==
  /\ spawner[r] = "preparing"
  /\ Register(r)
  /\ UNCHANGED <<closed, pty, failing, drain, attached, viewer, tearVars>>

\* The preparation returned a lease: the manager may have been closed
\* meanwhile, and the launch may have produced no client.
Prepared(r) ==
  /\ spawner[r] = "preparing"
  /\ \/ /\ ~closed
        /\ Register(r)
     \/ /\ lease' = [lease EXCEPT ![r] = "closed"]
        /\ spawner' = [spawner EXCEPT ![r] = "rolling"]
        /\ UNCHANGED <<answer, keyLock, byKey, known, state, starter>>
  /\ UNCHANGED <<closed, pty, failing, drain, attached, viewer, tearVars>>

\* _rollback_post_prepare has closed the lease, or raised while at it.
RolledBack(r) ==
  /\ spawner[r] = "rolling"
  /\ Refuse(r)
  /\ UNCHANGED <<closed, known, state, pty, lease, starter, failing, drain, attached,
                 viewer, tearVars>>

-----------------------------------------------------------------------------
(* attach, and the start of the PTY                                        *)

Attachable(r) == r \in known /\ state[r] \in Startable /\ pty[r] # "closed"

Refused(v) == viewer' = [viewer EXCEPT ![v] = "refused"]

AttachRefused(v) ==
  LET r == RunOf[v]
  IN /\ viewer[v] = "idle"
     /\ ~Attachable(r) \/ (pty[r] = None /\ starter[r] = None /\ closed)
     /\ Refused(v)
     /\ UNCHANGED <<closed, spawnVars, known, state, pty, lease, starter, failing,
                    drain, attached, tearVars>>

\* The viewer is in the fan-out before the PTY exists, so that it misses no
\* output; the first one to find no PTY takes the start_lock and spawns it.
Attach(v) ==
  LET r == RunOf[v]
  IN /\ viewer[v] = "idle"
     /\ Attachable(r)
     /\ attached' = [attached EXCEPT ![r] = @ \cup {v}]
     /\ \/ /\ pty[r] = "live"
           /\ viewer' = [viewer EXCEPT ![v] = "attached"]
           /\ UNCHANGED starter
        \/ /\ pty[r] = None /\ starter[r] = None /\ ~closed
           /\ viewer' = [viewer EXCEPT ![v] = "starting"]
           /\ starter' = [starter EXCEPT ![r] = v]
        \/ /\ pty[r] = None /\ starter[r] # None
           /\ viewer' = [viewer EXCEPT ![v] = "waiting"]
           /\ UNCHANGED starter
     /\ UNCHANGED <<closed, spawnVars, known, state, pty, lease, failing, drain,
                    tearVars>>

\* Mutant: the PTY is not looked for again under the lock.
TakeStartLockBlindly(v) ==
  LET r == RunOf[v]
  IN /\ viewer[v] = "waiting"
     /\ starter[r] = None
     /\ viewer' = [viewer EXCEPT ![v] = "starting"]
     /\ starter' = [starter EXCEPT ![r] = v]
     /\ UNCHANGED <<closed, spawnVars, known, state, pty, lease, failing, drain,
                    attached, tearVars>>

\* A waiting viewer obtains the start_lock and looks at everything again.
TakeStartLock(v) ==
  LET r == RunOf[v]
  IN /\ viewer[v] = "waiting"
     /\ starter[r] = None
     /\ \/ /\ pty[r] # None
           /\ viewer' = [viewer EXCEPT ![v] = "attached"]
           /\ UNCHANGED <<starter, attached>>
        \/ /\ pty[r] = None
           /\ closed \/ state[r] \notin Startable
           /\ Refused(v)
           /\ attached' = [attached EXCEPT ![r] = @ \ {v}]
           /\ UNCHANGED starter
        \/ /\ pty[r] = None /\ ~closed /\ state[r] \in Startable
           /\ viewer' = [viewer EXCEPT ![v] = "starting"]
           /\ starter' = [starter EXCEPT ![r] = v]
           /\ UNCHANGED attached
     /\ UNCHANGED <<closed, spawnVars, known, state, pty, lease, failing, drain,
                    tearVars>>

\* spawn_pty returned.  Neither the run's state nor the manager's is looked
\* at again: whatever happened meanwhile, the run is RUNNING now.
StartSucceeds(r) ==
  /\ starter[r] # None /\ r \notin failing
  /\ pty' = [pty EXCEPT ![r] = "live"]
  /\ drain' = [drain EXCEPT ![r] = "reading"]
  /\ state' = [state EXCEPT ![r] = "RUNNING"]
  /\ starter' = [starter EXCEPT ![r] = None]
  /\ IF starter[r] = r
     THEN Return(r) /\ UNCHANGED viewer
     ELSE /\ viewer' = [viewer EXCEPT ![starter[r]] = "attached"]
          /\ UNCHANGED spawnVars
  /\ UNCHANGED <<closed, known, lease, failing, attached, tearVars>>

StartFails(r) ==
  /\ starter[r] # None /\ r \notin failing
  /\ state' = [state EXCEPT ![r] = "FAILED"]
  /\ attached' = [attached EXCEPT ![r] = {}]
  /\ lease' = [lease EXCEPT ![r] = "closed"]
  /\ failing' = failing \cup {r}
  /\ UNCHANGED <<closed, spawnVars, known, pty, starter, drain, viewer, tearVars>>

\* The lease is closed, or raised; a spawn call forgets the run it made.
FailureReported(r) ==
  /\ r \in failing
  /\ failing' = failing \ {r}
  /\ starter' = [starter EXCEPT ![r] = None]
  /\ IF starter[r] = r
     THEN Refuse(r) /\ known' = known \ {r} /\ UNCHANGED viewer
     ELSE Refused(starter[r]) /\ UNCHANGED <<spawnVars, known>>
  /\ UNCHANGED <<closed, state, pty, lease, drain, attached, tearVars>>

Detach(v) ==
  /\ viewer[v] = "attached"
  /\ viewer' = [viewer EXCEPT ![v] = "left"]
  /\ attached' = [attached EXCEPT ![RunOf[v]] = @ \ {v}]
  /\ UNCHANGED <<closed, spawnVars, known, state, pty, lease, starter, failing, drain,
                 tearVars>>

-----------------------------------------------------------------------------
(* The ends of a run                                                       *)

Call(who, by, r, to) == [who |-> who, by |-> by, run |-> r, to |-> to]

\* The child exited or reading from the PTY failed: the drain task itself
\* asks for the teardown.
DrainLeaves(r) ==
  /\ drain[r] = "reading"
  /\ drain' = [drain EXCEPT ![r] = "leaving"]
  /\ \E to \in {"EXITED", "FAILED"} : calls' = calls \cup {Call("drain", None, r, to)}
  /\ UNCHANGED <<closed, spawnVars, known, state, pty, lease, starter, failing,
                 attached, viewer, closer, toClose, kill, tear, overtaken>>

Terminate(k, r) ==
  /\ kill[k] = "idle"
  /\ r \in known
  /\ kill' = [kill EXCEPT ![k] = "calling"]
  /\ calls' = calls \cup {Call("kill", k, r, "TERMINATING")}
  /\ UNCHANGED <<closed, spawnVars, known, state, pty, lease, starter, failing, drain,
                 attached, viewer, closer, toClose, tear, overtaken>>

Close ==
  /\ ~closed
  /\ closed' = TRUE
  /\ closer' = "closing"
  /\ toClose' = {r \in known : state[r] \notin Ended}
  /\ UNCHANGED <<spawnVars, known, state, pty, lease, starter, failing, drain,
                 attached, viewer, kill, calls, tear, overtaken>>

\* close() tears the runs of its snapshot down one by one, in any order.
CloseNext ==
  /\ closer = "closing"
  /\ IF toClose = {}
     THEN closer' = "done" /\ UNCHANGED <<toClose, calls>>
     ELSE \E r \in toClose :
            /\ closer' = "waiting"
            /\ toClose' = toClose \ {r}
            /\ calls' = calls \cup {Call("close", None, r, "TERMINATING")}
  /\ UNCHANGED <<closed, spawnVars, known, state, pty, lease, starter, failing, drain,
                 attached, viewer, kill, tear, overtaken>>

\* The caller of a teardown goes on; an exception ends close() altogether.
CallerResumes(c, raised) ==
  /\ kill' = IF c.who = "kill" THEN [kill EXCEPT ![c.by] = "over"] ELSE kill
  /\ closer' = IF c.who = "close" THEN IF raised THEN "done" ELSE "closing" ELSE closer
  /\ drain' = IF c.who = "drain" THEN [drain EXCEPT ![c.run] = "done"] ELSE drain

Settled(r) == state[r] \in Ended /\ pty[r] # "live"

TeardownNothing(c) ==
  /\ tear = None
  /\ c \in calls
  /\ Settled(c.run)
  /\ calls' = calls \ {c}
  /\ CallerResumes(c, FALSE)
  /\ UNCHANGED <<closed, spawnVars, known, state, pty, lease, starter, failing,
                 attached, viewer, toClose, tear, overtaken>>

\* What a teardown awaits first, and whether the lease is its to close.
Opening(c) ==
  LET r == c.run
  IN IF c.who # "drain" /\ drain[r] \in {"reading", "leaving"}
     THEN [call |-> c, at |-> "drain", fresh |-> FALSE]
     ELSE IF pty[r] # None
     THEN [call |-> c, at |-> "pty", fresh |-> FALSE]
     ELSE [call |-> c, at |-> "lease", fresh |-> lease[r] = "open"]

LeaseAt(r, at) == IF at = "lease" THEN [lease EXCEPT ![r] = "closed"] ELSE lease

\* The teardown takes its lock, sets the state, closes every attachment and
\* cancels the drain task.  It does not take start_lock: a PTY that is being
\* spawned meanwhile is not in run.terminal yet.
TeardownBegins(c) ==
  LET r == c.run
  IN /\ tear = None
     /\ c \in calls
     /\ ~Settled(r)
     /\ calls' = calls \ {c}
     /\ state' = [state EXCEPT ![r] = c.to]
     /\ attached' = [attached EXCEPT ![r] = {}]
     /\ tear' = Opening(c)
     /\ lease' = LeaseAt(r, Opening(c).at)
     /\ overtaken' = IF starter[r] # None THEN overtaken \cup {r} ELSE overtaken
     /\ UNCHANGED <<closed, spawnVars, known, pty, starter, failing, drain, viewer,
                    closer, toClose, kill>>

\* The cancelled drain task ends, and gives up a teardown it was itself
\* waiting for.
DrainCancelled ==
  /\ tear # None /\ tear.at = "drain"
  /\ LET r == tear.call.run
     IN /\ drain' = [drain EXCEPT ![r] = "done"]
        /\ calls' = {c \in calls : ~(c.who = "drain" /\ c.run = r)}
  /\ tear' = [tear EXCEPT !.at = "pty"]
  /\ UNCHANGED <<closed, spawnVars, known, state, pty, lease, starter, failing,
                 attached, viewer, closer, toClose, kill, overtaken>>

\* Mutant: the lease is given up while the client still runs.
PtyClosedAfterLease ==
  /\ tear # None /\ tear.at = "pty"
  /\ tear' = [tear EXCEPT !.at = "lease", !.fresh = lease[tear.call.run] = "open"]
  /\ lease' = [lease EXCEPT ![tear.call.run] = "closed"]
  /\ UNCHANGED <<closed, spawnVars, known, state, pty, starter, failing, drain,
                 attached, viewer, closer, toClose, kill, calls, overtaken>>

\* The PTY is closed, its child terminated or hung up; then comes the lease.
PtyClosed ==
  /\ tear # None /\ tear.at = "pty"
  /\ LET r == tear.call.run
     IN /\ pty' = [pty EXCEPT ![r] = "closed"]
        /\ tear' = [tear EXCEPT !.at = "lease", !.fresh = lease[r] = "open"]
        /\ lease' = [lease EXCEPT ![r] = "closed"]
  /\ UNCHANGED <<closed, spawnVars, known, state, starter, failing, drain, attached,
                 viewer, closer, toClose, kill, calls, overtaken>>

\* TERMINATED is set only if nothing has replaced TERMINATING.
TeardownEnds ==
  /\ tear # None /\ tear.at = "lease"
  /\ state' = IF state[tear.call.run] = "TERMINATING"
              THEN [state EXCEPT ![tear.call.run] = "TERMINATED"] ELSE state
  /\ tear' = None
  /\ CallerResumes(tear.call, FALSE)
  /\ UNCHANGED <<closed, spawnVars, known, pty, lease, starter, failing, attached,
                 viewer, toClose, calls, overtaken>>

\* The shared proxy could not deregister the run: the local resources are
\* released all the same, the exception goes to the caller.
TeardownRaises ==
  /\ tear # None /\ tear.at = "lease" /\ tear.fresh
  /\ tear.call.run \in Shared
  /\ tear' = None
  /\ CallerResumes(tear.call, TRUE)
  /\ UNCHANGED <<closed, spawnVars, known, state, pty, lease, starter, failing,
                 attached, viewer, toClose, calls, overtaken>>

-----------------------------------------------------------------------------
SpawnStep(r) ==
  \/ Spawn(r) \/ TakeKey(r) \/ Admit(r) \/ PrepareFails(r) \/ Prepared(r)
  \/ RolledBack(r)

StartStep(r) == StartSucceeds(r) \/ StartFails(r) \/ FailureReported(r)

TearStep ==
  \/ DrainCancelled \/ PtyClosed \/ TeardownEnds \/ TeardownRaises

ViewerStep(v) == AttachRefused(v) \/ Attach(v) \/ TakeStartLock(v) \/ Detach(v)

Next ==
  \/ \E r \in Runs : SpawnStep(r) \/ StartStep(r) \/ DrainLeaves(r)
  \/ \E v \in Viewers : ViewerStep(v)
  \/ \E k \in Kills, r \in Runs : Terminate(k, r)
  \/ \E c \in calls : TeardownNothing(c) \/ TeardownBegins(c)
  \/ TearStep
  \/ Close \/ CloseNext

Spec == Init /\ [][Next]_vars

\* Threads and requests to the proxy end (every one of them has a timeout),
\* locks are handed on, cancelled tasks end.  Nothing is assumed of the
\* client, the viewers or the callers.
TakeTeardownLock(c) == TeardownNothing(c) \/ TeardownBegins(c)

Fairness ==
  /\ WF_vars(TearStep)
  /\ WF_vars(CloseNext)
  /\ \A c \in Calls : WF_vars(TakeTeardownLock(c))
  /\ \A r \in Runs : /\ WF_vars(StartStep(r))
                     /\ WF_vars(TakeKey(r) \/ Admit(r) \/ PrepareFails(r)
                                  \/ Prepared(r) \/ RolledBack(r))
  /\ \A v \in Viewers : WF_vars(TakeStartLock(v))

-----------------------------------------------------------------------------
(* Properties                                                              *)

\* A PTY is spawned at most once per run, however many viewers ask for the
\* first one at the same time (_start_run_terminal looks again under its lock).
NoSecondPty == [][\A r \in Runs : pty[r] # None => starter'[r] = None]_vars

\* Nobody is left attached to a run that has ended or is ending, though
\* viewers join before the PTY exists and wait for one another's start.
NoViewerOfEndedRun ==
  \A r \in Runs : state[r] \notin Startable => attached[r] = {}

\* A run gives up its proxy listener and its workspace lock only after its
\* client's terminal is gone, and an ended run holds neither; unless the
\* teardown overtook the spawn of the PTY.
EndedHoldsNothing ==
  \A r \in Runs \ overtaken :
    /\ lease[r] = "closed" => pty[r] # "live"
    /\ state[r] \in Ended /\ (tear = None \/ tear.call.run # r)
         => pty[r] # "live" /\ lease[r] = "closed"

\* An ended run stays ended, whoever tears it down again; unless a PTY that
\* was being spawned arrives late.
EndIsFinal ==
  [][\A r \in Runs : state[r] \in Ended /\ starter[r] = None
                       => state'[r] = state[r]]_vars

\* Spawn calls with the same key are answered with the same run.
KeyNamesOneRun ==
  \A r, s \in Runs : KeyOf[r] # None /\ KeyOf[r] = KeyOf[s]
                       /\ answer[r] # None /\ answer[s] # None
                       => answer[r] = answer[s]

\* Once close() has got through its runs, and the spawns and teardowns it found
\* in flight are over, no lease is open, whenever the spawns were admitted.
NothingLeaks ==
  closer = "done" /\ toClose = {} /\ Admitted = {} /\ tear = None /\ calls = {}
    => \A r \in Runs : lease[r] # "open"

\* close() returns, too, and so does every spawn it finds in flight.
CloseReturns ==
  closed ~> closer = "done" /\ \A r \in Runs : spawner[r] \in {"idle", "returned", "refused"}

-----------------------------------------------------------------------------
(* What the tests say of the run manager and it does not do                *)

\* test_run_manager_lifecycle.py, test_explicit_terminate_terminates_pty_
\* before_lease_close: the client's terminal is gone before its lease.
LeaseOutlivesPty == \A r \in Runs : lease[r] = "closed" => pty[r] # "live"
=============================================================================
