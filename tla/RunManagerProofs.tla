-------------------------- MODULE RunManagerProofs --------------------------
(* Proofs about RunManager, for any number of runs, keys, viewers and calls, *)
(* and about the shared proxy with requests that are given up.               *)
EXTENDS MCRunManager, TLAPS

\* The proofs about the shared proxy, of the instance that runs beside this one.
P == INSTANCE SharedProxyProofs WITH
       Runs <- Bindings, PortOf <- [r \in Bindings |-> p], DialOf <- [f \in Flows |-> p], Late <- Handlers

\* Only a keyed spawn waits for the lock of the keys.
KeyingIsKeyed == \A r \in Runs : spawner[r] = "keying" => KeyOf[r] # None

Typed == TypeOK /\ KeyingIsKeyed

-----------------------------------------------------------------------------
(* Types of what the actions build                                         *)

LEMMA CallTypes ==
  ASSUME NEW r \in Runs
  PROVE  /\ \A k \in Kills : Call("kill", k, r, "TERMINATING") \in Calls
         /\ Call("close", None, r, "TERMINATING") \in Calls
         /\ \A to \in {"EXITED", "FAILED"} : Call("drain", None, r, to) \in Calls
BY DEF Call, Calls

LEMMA CallRuns ==
  ASSUME NEW r, NEW k, NEW who, NEW to
  PROVE  Call(who, k, r, to).run = r
BY DEF Call

LEMMA CallFields ==
  ASSUME NEW c \in Calls
  PROVE  /\ c.run \in Runs
         /\ c.to \in {"TERMINATING", "EXITED", "FAILED"}
         /\ c.who = "kill" => c.by \in Kills
BY DEF Calls

LEMMA TearFields ==
  ASSUME NEW t \in Tears
  PROVE  /\ t.call \in Calls
         /\ t.at \in {"drain", "pty", "lease"}
         /\ [t EXCEPT !.at = "pty"] \in Tears
         /\ [t EXCEPT !.at = "pty"].at = "pty"
         /\ [t EXCEPT !.at = "pty"].call = t.call
         /\ \A b \in BOOLEAN : /\ [t EXCEPT !.at = "lease", !.fresh = b] \in Tears
                               /\ [t EXCEPT !.at = "lease", !.fresh = b].at = "lease"
                               /\ [t EXCEPT !.at = "lease", !.fresh = b].call = t.call
BY DEF Tears

LEMMA OpeningFields ==
  ASSUME NEW c \in Calls
  PROVE  /\ Opening(c) \in Tears
         /\ Opening(c).call = c
         /\ Opening(c).at = "drain" => drain[c.run] \in {"reading", "leaving"}
         /\ Opening(c).at = "pty" => pty[c.run] # None
         /\ Opening(c).at = "lease" => pty[c.run] = None
BY DEF Opening, Tears

-----------------------------------------------------------------------------
(* Typed is inductive                                                      *)

LEMMA TypedInit == Init => Typed
<1> SUFFICES ASSUME Init PROVE Typed
  OBVIOUS
<1> USE RunConstants DEF RunConstants, Init, Maybe
<1>1. /\ spawner \in [Runs -> {"idle", "keying", "admitting", "preparing", "starting",
                               "rolling", "returned", "refused"}]
      /\ answer \in [Runs -> Maybe(Runs)]
      /\ byKey \in [Keys -> Maybe(Runs)]
      /\ keyLock \in Maybe(Runs)
  OBVIOUS
<1>2. /\ state \in [Runs -> Maybe(RunStates)]
      /\ pty \in [Runs -> Maybe({"live", "closed"})]
      /\ lease \in [Runs -> Maybe({"open", "closed"})]
      /\ starter \in [Runs -> Maybe(Runs \cup Viewers)]
      /\ drain \in [Runs -> {"none", "reading", "leaving", "done"}]
      /\ attached \in [Runs -> SUBSET Viewers]
  OBVIOUS
<1>3. /\ viewer \in [Viewers -> {"idle", "waiting", "starting", "attached", "left",
                                 "refused"}]
      /\ kill \in [Kills -> {"idle", "calling", "over"}]
      /\ tear \in Maybe(Tears)
  OBVIOUS
<1> QED BY <1>1, <1>2, <1>3 DEF Typed, TypeOK, KeyingIsKeyed

\* What Refuse, Return and Register leave of the spawn's variables.
SpawnTyped ==
  /\ spawner' \in [Runs -> {"idle", "keying", "admitting", "preparing", "starting",
                            "rolling", "returned", "refused"}]
  /\ answer' \in [Runs -> Maybe(Runs)]
  /\ keyLock' \in Maybe(Runs)
  /\ byKey' \in [Keys -> Maybe(Runs)]
  /\ KeyingIsKeyed'

LEMMA RefuseTyped ==
  ASSUME Typed, NEW r \in Runs, Refuse(r)
  PROVE  SpawnTyped
BY DEF Refuse, Unlocked, SpawnTyped, Typed, TypeOK, KeyingIsKeyed, Maybe

LEMMA ReturnTyped ==
  ASSUME Typed, NEW r \in Runs, Return(r)
  PROVE  SpawnTyped
BY RunConstants DEF RunConstants, Return, Unlocked, SpawnTyped, Typed, TypeOK,
   KeyingIsKeyed, Maybe

LEMMA RegisterTyped ==
  ASSUME Typed, NEW r \in Runs, Register(r)
  PROVE  /\ SpawnTyped
         /\ known' \in SUBSET Runs
         /\ state' \in [Runs -> Maybe(RunStates)]
         /\ lease' \in [Runs -> Maybe({"open", "closed"})]
         /\ starter' \in [Runs -> Maybe(Runs \cup Viewers)]
<1>1. SpawnTyped
  <2>1. CASE r \in OnAttach
    BY <2>1, ReturnTyped DEF Register
  <2>2. CASE r \notin OnAttach
    BY <2>2 DEF Register, SpawnTyped, Typed, TypeOK, KeyingIsKeyed
  <2> QED BY <2>1, <2>2
<1>2. starter' \in [Runs -> Maybe(Runs \cup Viewers)]
  BY DEF Register, Typed, TypeOK, Maybe
<1>3. known' \in SUBSET Runs /\ state' \in [Runs -> Maybe(RunStates)]
  BY DEF Register, Typed, TypeOK, Maybe, RunStates, Startable
<1>4. lease' \in [Runs -> Maybe({"open", "closed"})]
  BY DEF Register, Typed, TypeOK, Maybe
<1> QED BY <1>1, <1>2, <1>3, <1>4

LEMMA SpawnStepTyped ==
  ASSUME Typed, NEW r \in Runs, SpawnStep(r)
  PROVE  Typed'
<1> USE DEF Typed, TypeOK, tearVars
<1>1. CASE Spawn(r)
  BY <1>1 DEF Spawn, KeyingIsKeyed
<1>2. CASE TakeKey(r)
  <2>1. SpawnTyped
    BY <1>2, RunConstants DEF RunConstants, TakeKey, SpawnTyped, KeyingIsKeyed, Maybe
  <2> QED BY <1>2, <2>1 DEF TakeKey, SpawnTyped
<1>3. CASE Admit(r)
  <2>1. SpawnTyped
    BY <1>3, RefuseTyped DEF Admit, SpawnTyped, KeyingIsKeyed
  <2> QED BY <1>3, <2>1 DEF Admit, SpawnTyped
<1>4. CASE PrepareFails(r)
  BY <1>4, RefuseTyped DEF PrepareFails, SpawnTyped
<1>5. CASE Prepared(r)
  <2>1. CASE Register(r)
    BY <1>5, <2>1, RegisterTyped DEF Prepared, SpawnTyped
  <2>2. CASE /\ lease' = [lease EXCEPT ![r] = "closed"]
             /\ spawner' = [spawner EXCEPT ![r] = "rolling"]
             /\ UNCHANGED <<answer, keyLock, byKey, known, state, starter>>
    BY <1>5, <2>2 DEF Prepared, KeyingIsKeyed, Maybe
  <2> QED BY <1>5, <2>1, <2>2 DEF Prepared
<1>6. CASE RolledBack(r)
  BY <1>6, RefuseTyped DEF RolledBack, SpawnTyped
<1> QED BY <1>1, <1>2, <1>3, <1>4, <1>5, <1>6 DEF SpawnStep

LEMMA ViewerStepTyped ==
  ASSUME Typed, NEW v \in Viewers, ViewerStep(v)
  PROVE  Typed'
<1> USE RunConstants DEF RunConstants, Typed, TypeOK, KeyingIsKeyed, spawnVars, tearVars,
        Maybe
<1>1. CASE AttachRefused(v)
  BY <1>1 DEF AttachRefused, Refused
<1>2. CASE Attach(v)
  BY <1>2 DEF Attach
<1>3. CASE TakeStartLock(v)
  BY <1>3 DEF TakeStartLock, Refused
<1>4. CASE Detach(v)
  BY <1>4 DEF Detach
<1> QED BY <1>1, <1>2, <1>3, <1>4 DEF ViewerStep

LEMMA StartStepTyped ==
  ASSUME Typed, NEW r \in Runs, StartStep(r)
  PROVE  Typed'
<1>0. ASSUME UNCHANGED spawnVars PROVE SpawnTyped
  <2>1. UNCHANGED spawner /\ UNCHANGED answer /\ UNCHANGED keyLock /\ UNCHANGED byKey
    BY <1>0 DEF spawnVars
  <2> QED BY <2>1 DEF Typed, TypeOK, SpawnTyped, KeyingIsKeyed
<1> USE DEF Typed, TypeOK, tearVars
<1>1. CASE StartSucceeds(r)
  <2>1. SpawnTyped
    BY <1>0, <1>1, ReturnTyped DEF StartSucceeds
  <2>2. viewer' \in [Viewers -> {"idle", "waiting", "starting", "attached", "left",
                                 "refused"}]
    BY <1>1 DEF StartSucceeds
  <2>3. /\ pty' \in [Runs -> Maybe({"live", "closed"})]
        /\ state' \in [Runs -> Maybe(RunStates)]
        /\ starter' \in [Runs -> Maybe(Runs \cup Viewers)]
        /\ drain' \in [Runs -> {"none", "reading", "leaving", "done"}]
    BY <1>1 DEF StartSucceeds, Maybe, RunStates, Startable
  <2> QED BY <1>1, <2>1, <2>2, <2>3 DEF StartSucceeds, SpawnTyped
<1>2. CASE StartFails(r)
  <2>1. /\ state' \in [Runs -> Maybe(RunStates)]
        /\ lease' \in [Runs -> Maybe({"open", "closed"})]
        /\ attached' \in [Runs -> SUBSET Viewers]
    BY <1>2 DEF StartFails, Maybe, RunStates, Ended
  <2> QED BY <1>0, <1>2, <2>1 DEF StartFails, SpawnTyped
<1>3. CASE FailureReported(r)
  <2>1. SpawnTyped
    BY <1>0, <1>3, RefuseTyped DEF FailureReported
  <2>2. viewer' \in [Viewers -> {"idle", "waiting", "starting", "attached", "left",
                                 "refused"}]
    BY <1>3 DEF FailureReported, Refused
  <2>3. starter' \in [Runs -> Maybe(Runs \cup Viewers)]
    BY <1>3 DEF FailureReported, Maybe
  <2> QED BY <1>3, <2>1, <2>2, <2>3 DEF FailureReported, SpawnTyped
<1> QED BY <1>1, <1>2, <1>3 DEF StartStep

LEMMA ResumeTyped ==
  ASSUME Typed, NEW c \in Calls, NEW raised \in BOOLEAN, CallerResumes(c, raised)
  PROVE  /\ kill' \in [Kills -> {"idle", "calling", "over"}]
         /\ closer' \in {"open", "closing", "waiting", "done"}
         /\ drain' \in [Runs -> {"none", "reading", "leaving", "done"}]
BY CallFields DEF CallerResumes, Typed, TypeOK

LEMMA EndsTyped ==
  ASSUME Typed,
         \/ \E r \in Runs : DrainLeaves(r) \/ \E k \in Kills : Terminate(k, r)
         \/ Close \/ CloseNext
         \/ \E c \in calls : TeardownNothing(c) \/ TeardownBegins(c)
         \/ TearStep
  PROVE  Typed'
<1> USE DEF Typed, TypeOK, KeyingIsKeyed, spawnVars
<1>0. /\ \A c \in calls : c \in Calls
      /\ tear # None => tear \in Tears /\ tear.call \in Calls /\ tear.call.run \in Runs
  BY TearFields, CallFields DEF Maybe
<1>1. ASSUME NEW r \in Runs, DrainLeaves(r) PROVE Typed'
  BY <1>1, CallTypes DEF DrainLeaves
<1>2. ASSUME NEW r \in Runs, NEW k \in Kills, Terminate(k, r) PROVE Typed'
  BY <1>2, CallTypes DEF Terminate
<1>3. CASE Close
  BY <1>3 DEF Close
<1>4. CASE CloseNext
  <2>1. CASE toClose = {}
    BY <1>4, <2>1 DEF CloseNext
  <2>2. CASE toClose # {}
    <3>1. PICK r \in toClose : /\ closer' = "waiting"
                               /\ toClose' = toClose \ {r}
                               /\ calls' = calls \cup {Call("close", None, r, "TERMINATING")}
      BY <1>4, <2>2 DEF CloseNext
    <3> QED BY <1>4, <3>1, CallTypes DEF CloseNext
  <2> QED BY <2>1, <2>2
<1>5. ASSUME NEW c \in calls, TeardownNothing(c) PROVE Typed'
  <2>1. /\ kill' \in [Kills -> {"idle", "calling", "over"}]
        /\ closer' \in {"open", "closing", "waiting", "done"}
        /\ drain' \in [Runs -> {"none", "reading", "leaving", "done"}]
    BY <1>0, <1>5, ResumeTyped DEF TeardownNothing
  <2> QED BY <1>5, <2>1 DEF TeardownNothing
<1>6. ASSUME NEW c \in calls, TeardownBegins(c) PROVE Typed'
  <2>1. c.run \in Runs /\ c.to \in RunStates /\ Opening(c) \in Tears
    BY <1>0, CallFields, OpeningFields DEF RunStates, Ended
  <2>2. state' \in [Runs -> Maybe(RunStates)] /\ attached' \in [Runs -> SUBSET Viewers]
    BY <1>6, <2>1 DEF TeardownBegins, Maybe
  <2>3. lease' \in [Runs -> Maybe({"open", "closed"})] /\ tear' \in Maybe(Tears)
    BY <1>6, <2>1 DEF TeardownBegins, LeaseAt, Maybe
  <2>4. overtaken' \in SUBSET Runs
    BY <1>6, <2>1 DEF TeardownBegins
  <2> QED BY <1>6, <2>2, <2>3, <2>4 DEF TeardownBegins
<1>7. CASE DrainCancelled
  <2>1. tear' \in Maybe(Tears)
    BY <1>0, <1>7, TearFields DEF DrainCancelled, Maybe
  <2>2. drain' \in [Runs -> {"none", "reading", "leaving", "done"}] /\ calls' \in SUBSET Calls
    BY <1>0, <1>7 DEF DrainCancelled
  <2> QED BY <1>7, <2>1, <2>2 DEF DrainCancelled
<1>8. CASE PtyClosed
  <2>1. tear' \in Maybe(Tears)
    BY <1>0, <1>8, TearFields DEF PtyClosed, Maybe
  <2>2. /\ pty' \in [Runs -> Maybe({"live", "closed"})]
        /\ lease' \in [Runs -> Maybe({"open", "closed"})]
    BY <1>0, <1>8 DEF PtyClosed, Maybe
  <2> QED BY <1>8, <2>1, <2>2 DEF PtyClosed
<1>9. CASE TeardownEnds
  <2>1. state' \in [Runs -> Maybe(RunStates)]
    BY <1>0, <1>9 DEF TeardownEnds, Maybe, RunStates, Ended
  <2> QED BY <1>0, <1>9, <2>1, ResumeTyped DEF TeardownEnds, Maybe
<1>10. CASE TeardownRaises
  BY <1>0, <1>10, ResumeTyped DEF TeardownRaises, Maybe
<1> QED BY <1>1, <1>2, <1>3, <1>4, <1>5, <1>6, <1>7, <1>8, <1>9, <1>10 DEF TearStep

LEMMA TypedStep == Typed /\ [Next]_vars => Typed'
<1>1. ASSUME Typed, UNCHANGED vars PROVE Typed'
  BY <1>1 DEF vars, Typed, TypeOK, KeyingIsKeyed
<1> QED BY <1>1, SpawnStepTyped, StartStepTyped, ViewerStepTyped, EndsTyped DEF Next

\* The types, for every instance.
THEOREM TypeTheorem == Spec => []TypeOK
<1>1. Spec => []Typed
  BY TypedInit, TypedStep, PTL DEF Spec
<1>2. Typed => TypeOK
  BY DEF Typed
<1> QED BY <1>1, <1>2, PTL

-----------------------------------------------------------------------------
LEMMA TypedFacts ==
  ASSUME Typed
  PROVE  /\ state \in [Runs -> Maybe(RunStates)] /\ attached \in [Runs -> SUBSET Viewers]
         /\ pty \in [Runs -> Maybe({"live", "closed"})]
         /\ lease \in [Runs -> Maybe({"open", "closed"})]
         /\ starter \in [Runs -> Maybe(Runs \cup Viewers)]
         /\ drain \in [Runs -> {"none", "reading", "leaving", "done"}]
         /\ \A c \in calls : c \in Calls /\ c.run \in Runs /\ c.to \in {"TERMINATING", "EXITED", "FAILED"}
         /\ \A c \in calls : c.to \notin Startable
         /\ tear # None => /\ tear \in Tears /\ tear.call \in Calls
                          /\ tear.call.run \in Runs
         /\ \A v \in Viewers : RunOf[v] \in Runs /\ v \notin Runs /\ v # None
         /\ \A r \in Runs : r # None
<1>1. \A c \in calls : c \in Calls
  BY DEF Typed, TypeOK
<1>2. \A c \in calls : c.run \in Runs /\ c.to \in {"TERMINATING", "EXITED", "FAILED"}
  BY <1>1, CallFields
<1>3. \A c \in calls : c.to \notin Startable
  BY <1>2 DEF Startable
<1>4. tear # None => tear \in Tears /\ tear.call \in Calls /\ tear.call.run \in Runs
  BY TearFields, CallFields DEF Typed, TypeOK, Maybe
<1>5. /\ \A v \in Viewers : RunOf[v] \in Runs /\ v \notin Runs /\ v # None
      /\ \A r \in Runs : r # None
  BY RunConstants DEF RunConstants
<1> QED BY <1>1, <1>2, <1>3, <1>4, <1>5 DEF Typed, TypeOK

-----------------------------------------------------------------------------
(* Viewers of runs that have ended                                         *)

LEMMA ViewersInit == Init => NoViewerOfEndedRun
BY DEF Init, NoViewerOfEndedRun

LEMMA ViewersStep == Typed /\ NoViewerOfEndedRun /\ [Next]_vars => NoViewerOfEndedRun'
<1> SUFFICES ASSUME Typed, NoViewerOfEndedRun, [Next]_vars PROVE NoViewerOfEndedRun'
  OBVIOUS
<1>0. /\ state \in [Runs -> Maybe(RunStates)] /\ attached \in [Runs -> SUBSET Viewers]
      /\ \A c \in calls : c.run \in Runs /\ c.to \notin Startable
      /\ tear # None => tear.call.run \in Runs
      /\ \A v \in Viewers : RunOf[v] \in Runs
  BY TypedFacts
<1> USE DEF NoViewerOfEndedRun
<1>1. CASE UNCHANGED <<state, attached>>
  BY <1>1
<1>2. ASSUME NEW r \in Runs, Prepared(r) PROVE NoViewerOfEndedRun'
  BY <1>0, <1>1, <1>2 DEF Prepared, Register, Startable
<1>3. ASSUME NEW r \in Runs, StartSucceeds(r) PROVE NoViewerOfEndedRun'
  BY <1>0, <1>3 DEF StartSucceeds, Startable
<1>4. ASSUME NEW r \in Runs, StartFails(r) PROVE NoViewerOfEndedRun'
  BY <1>0, <1>4 DEF StartFails
<1>5. ASSUME NEW v \in Viewers, Attach(v) PROVE NoViewerOfEndedRun'
  BY <1>0, <1>5 DEF Attach, Attachable
<1>6. ASSUME NEW v \in Viewers, TakeStartLock(v) \/ Detach(v) PROVE NoViewerOfEndedRun'
  BY <1>0, <1>6 DEF TakeStartLock, Detach
<1>7. ASSUME NEW c \in calls, TeardownBegins(c) PROVE NoViewerOfEndedRun'
  BY <1>0, <1>7 DEF TeardownBegins
<1>8. CASE TeardownEnds
  BY <1>0, <1>8 DEF TeardownEnds, Startable
<1> QED
  <2>1. CASE Next
    BY <1>1, <1>2, <1>3, <1>4, <1>5, <1>6, <1>7, <1>8, <2>1
       DEF Next, SpawnStep, Spawn, TakeKey, Admit, PrepareFails, RolledBack, StartStep,
           FailureReported, DrainLeaves, ViewerStep, AttachRefused, Terminate,
           TeardownNothing, TearStep, DrainCancelled, PtyClosed, TeardownRaises, Close,
           CloseNext
  <2>2. CASE UNCHANGED vars
    BY <1>1, <2>2 DEF vars
  <2> QED BY <2>1, <2>2

\* However attach calls interleave with the start and the ends of their run,
\* none stays attached to a run that ends.
THEOREM ViewerTheorem == Spec => []NoViewerOfEndedRun
<1>1. Spec => [](Typed /\ NoViewerOfEndedRun)
  BY TypedInit, TypedStep, ViewersInit, ViewersStep, PTL DEF Spec
<1> QED BY <1>1, PTL

-----------------------------------------------------------------------------
(* One PTY per run                                                         *)

\* Spawn calls that have made no run yet.
Early == {"idle", "keying", "admitting", "preparing"}

Unmade(r) ==
  /\ state[r] = None /\ pty[r] = None /\ starter[r] = None
  /\ r \notin known \cup toClose

\* Before its spawn is prepared nothing of a run exists and nobody can name it.
EarlyIsUnmade ==
  /\ \A r \in Runs : spawner[r] \in Early => Unmade(r)
  /\ \A c \in calls : spawner[c.run] \notin Early
  /\ tear # None => spawner[tear.call.run] \notin Early

\* Who spawns a PTY finds none; who reads from one or closes one has one.
PtyRules ==
  /\ \A r \in Runs : /\ pty[r] # None => starter[r] = None
                     /\ drain[r] # "none" => pty[r] # None
                     /\ r \in failing => starter[r] # None
  /\ tear # None /\ tear.at \in {"drain", "pty"} => pty[tear.call.run] # None

\* A drain task that asks for a teardown has been started.
DrainCalls ==
  /\ \A c \in calls : c.who = "drain" => drain[c.run] # "none"
  /\ tear # None /\ tear.call.who = "drain" => drain[tear.call.run] # "none"

StartInv == Typed /\ DrainCalls /\ EarlyIsUnmade /\ PtyRules

LEMMA DrainCallsStep == Typed /\ DrainCalls /\ [Next]_vars => DrainCalls'
<1> SUFFICES ASSUME Typed, DrainCalls, [Next]_vars PROVE DrainCalls'
  OBVIOUS
<1>f. /\ drain \in [Runs -> {"none", "reading", "leaving", "done"}]
      /\ \A c \in calls : c \in Calls /\ c.run \in Runs
      /\ tear # None => tear \in Tears /\ tear.call.run \in Runs
  BY TypedFacts
<1> USE DEF DrainCalls
<1>1. CASE UNCHANGED <<calls, tear>> /\ \A r \in Runs : drain[r] # "none" => drain'[r] # "none"
  BY <1>f, <1>1
<1>2. ASSUME NEW r \in Runs, StartSucceeds(r) PROVE DrainCalls'
  BY <1>f, <1>1, <1>2 DEF StartSucceeds, tearVars
<1>3. ASSUME NEW r \in Runs, DrainLeaves(r) PROVE DrainCalls'
  <2>1. \A c \in calls' : c \in calls \/ c.run = r
    BY <1>3, CallRuns DEF DrainLeaves
  <2> QED BY <1>f, <1>3, <2>1 DEF DrainLeaves
<1>4. ASSUME NEW r \in Runs, NEW k \in Kills, Terminate(k, r) PROVE DrainCalls'
  BY <1>4 DEF Terminate, Call
<1>5. CASE CloseNext
  <2>1. \A c \in calls' : c \in calls \/ c.who = "close"
    BY <1>5 DEF CloseNext, Call
  <2> QED BY <1>5, <2>1 DEF CloseNext
<1>6. ASSUME NEW c \in calls, TeardownNothing(c) PROVE DrainCalls'
  BY <1>f, <1>6 DEF TeardownNothing, CallerResumes
<1>7. ASSUME NEW c \in calls, TeardownBegins(c) PROVE DrainCalls'
  <2>1. tear'.call = c
    BY <1>f, <1>7, OpeningFields DEF TeardownBegins
  <2> QED BY <1>7, <2>1 DEF TeardownBegins
<1>8. CASE DrainCancelled
  <2>1. tear'.call = tear.call
    BY <1>f, <1>8, TearFields DEF DrainCancelled
  <2> QED BY <1>f, <1>8, <2>1 DEF DrainCancelled
<1>9. CASE PtyClosed
  <2>0. PICK b \in BOOLEAN : tear' = [tear EXCEPT !.at = "lease", !.fresh = b]
    BY <1>9 DEF PtyClosed
  <2>t. tear \in Tears
    BY <1>f, <1>9 DEF PtyClosed
  <2>1. tear'.call = tear.call
    BY <2>0, <2>t DEF Tears
  <2> QED BY <1>9, <2>1 DEF PtyClosed
<1>10. CASE TeardownEnds \/ TeardownRaises
  BY <1>f, <1>10 DEF TeardownEnds, TeardownRaises, CallerResumes
<1> QED
  <2>1. CASE Next
    BY <1>1, <1>2, <1>3, <1>4, <1>5, <1>6, <1>7, <1>8, <1>9, <1>10, <2>1
       DEF Next, SpawnStep, Spawn, TakeKey, Admit, PrepareFails, Prepared, RolledBack,
           StartStep, StartFails, FailureReported, ViewerStep, AttachRefused, Attach,
           TakeStartLock, Detach, TearStep, Close, tearVars
  <2>2. CASE UNCHANGED vars
    BY <1>1, <2>2 DEF vars
  <2> QED BY <2>1, <2>2

LEMMA StartInvInit == Init => StartInv
<1> SUFFICES ASSUME Init PROVE StartInv
  OBVIOUS
<1>1. DrainCalls /\ EarlyIsUnmade /\ PtyRules
  BY DEF Init, DrainCalls, EarlyIsUnmade, Unmade, PtyRules
<1> QED BY <1>1, TypedInit DEF StartInv

\* Steps that make no run, PTY, starter or teardown keep all of it.
LEMMA StartFrame ==
  ASSUME StartInv, Typed', DrainCalls', UNCHANGED <<pty, starter, state, failing>>,
         \A r \in Runs : spawner'[r] \in Early => spawner[r] \in Early,
         known' \subseteq known, toClose' \subseteq toClose \cup known,
         \A c \in calls' : c \in calls \/ c.run \in known \cup toClose \/ drain[c.run] # "none",
         \A r \in Runs : drain'[r] # "none" => drain[r] # "none",
         tear' \in {tear, None}
  PROVE  StartInv'
<1>1. /\ \A c \in calls' : c.run \in Runs
      /\ tear # None => tear.call.run \in Runs
  BY CallFields, TypedFacts DEF StartInv, Typed, TypeOK
<1>2. EarlyIsUnmade'
  BY <1>1 DEF StartInv, EarlyIsUnmade, Unmade, PtyRules
<1>3. PtyRules'
  BY DEF StartInv, PtyRules
<1> QED BY <1>2, <1>3 DEF StartInv

LEMMA StartInvStep == StartInv /\ [Next]_vars => StartInv'
<1> SUFFICES ASSUME StartInv, [Next]_vars PROVE StartInv'
  OBVIOUS
<1>0. Typed /\ Typed' /\ DrainCalls'
  BY TypedStep, DrainCallsStep DEF StartInv
<1>f. /\ state \in [Runs -> Maybe(RunStates)]
      /\ pty \in [Runs -> Maybe({"live", "closed"})]
      /\ starter \in [Runs -> Maybe(Runs \cup Viewers)]
      /\ drain \in [Runs -> {"none", "reading", "leaving", "done"}]
      /\ \A c \in calls : c \in Calls /\ c.run \in Runs
      /\ tear # None => tear \in Tears /\ tear.call \in Calls /\ tear.call.run \in Runs
      /\ \A v \in Viewers : RunOf[v] \in Runs /\ v # None
      /\ \A r \in Runs : r # None
      /\ spawner \in [Runs -> {"idle", "keying", "admitting", "preparing", "starting",
                               "rolling", "returned", "refused"}]
  BY <1>0, TypedFacts DEF Typed, TypeOK
<1>l. "live" # None /\ "closed" # None /\ \A x \in RunStates : x # None
  BY NoneIsNoValue DEF NoneIsNoValue
<1> USE DEF EarlyIsUnmade, Unmade, PtyRules
<1>1. ASSUME NEW r \in Runs, SpawnStep(r) PROVE StartInv'
  <2>1. CASE Prepared(r) /\ Register(r)
    <3>1. /\ starter' \in {starter, [starter EXCEPT ![r] = r]} /\ pty[r] = None
          /\ spawner' \in [Runs -> {"idle", "keying", "admitting", "preparing", "starting",
                                    "rolling", "returned", "refused"}]
          /\ spawner'[r] \notin Early
          /\ \A q \in Runs \ {r} : spawner'[q] = spawner[q]
          /\ state' = [state EXCEPT ![r] = "STARTING"] /\ known' = known \cup {r}
          /\ UNCHANGED <<pty, drain, tear, calls, toClose, failing>>
      BY <1>0, <1>f, <2>1
         DEF Prepared, Register, Return, Early, tearVars, StartInv, Typed, TypeOK
    <3>2. EarlyIsUnmade'
      BY <1>f, <3>1 DEF StartInv
    <3>3. PtyRules'
      BY <1>f, <3>1 DEF StartInv
    <3> QED BY <1>0, <3>2, <3>3 DEF StartInv
  <2>2. CASE ~(Prepared(r) /\ Register(r))
    <3>1. /\ UNCHANGED <<pty, starter, state, known, toClose, calls, drain, tear, failing>>
          /\ \A q \in Runs : spawner'[q] \in Early => spawner[q] \in Early
      BY <1>f, <1>1, <2>2
         DEF SpawnStep, Spawn, TakeKey, Admit, PrepareFails, Prepared, RolledBack, Refuse,
             Return, Early, tearVars
    <3> QED BY <1>0, <3>1, StartFrame
  <2> QED BY <2>1, <2>2
<1>2. ASSUME NEW r \in Runs, StartStep(r) PROVE StartInv'
  <2>1. starter[r] # None /\ spawner[r] \notin Early /\ pty[r] = None
    BY <1>2 DEF StartStep, StartSucceeds, StartFails, FailureReported, StartInv
  <2>2. /\ \A q \in Runs : spawner'[q] \in Early => spawner[q] \in Early
        /\ known' \subseteq known
        /\ UNCHANGED <<toClose, calls, tear>>
    BY <1>f, <1>2 DEF StartStep, StartSucceeds, StartFails, FailureReported, Return, Refuse,
       Early, spawnVars, tearVars
  <2>3. EarlyIsUnmade'
    <3>1. \A q \in Runs \ {r} : /\ state'[q] = state[q] /\ pty'[q] = pty[q]
                                /\ starter'[q] = starter[q]
      BY <1>f, <1>2 DEF StartStep, StartSucceeds, StartFails, FailureReported
    <3> QED BY <1>f, <2>1, <2>2, <3>1 DEF StartInv
  <2>4. PtyRules'
    BY <1>f, <1>l, <1>2, <2>1, <2>2 DEF StartStep, StartSucceeds, StartFails, FailureReported,
       StartInv
  <2> QED BY <1>0, <2>3, <2>4 DEF StartInv
<1>3. ASSUME NEW v \in Viewers, ViewerStep(v) PROVE StartInv'
  <2>1. CASE UNCHANGED starter
    BY <1>0, <1>3, <2>1, StartFrame DEF ViewerStep, AttachRefused, Attach, TakeStartLock,
       Detach, spawnVars, tearVars
  <2>2. CASE /\ starter' = [starter EXCEPT ![RunOf[v]] = v]
             /\ pty[RunOf[v]] = None /\ state[RunOf[v]] \in Startable
    <3>1. state[RunOf[v]] # None
      BY <1>l, <2>2 DEF RunStates, Startable
    <3>2. UNCHANGED <<pty, state, known, toClose, calls, drain, tear, failing, spawner>>
      BY <1>3 DEF ViewerStep, AttachRefused, Attach, TakeStartLock, Detach, spawnVars, tearVars
    <3>3. EarlyIsUnmade' /\ PtyRules'
      BY <1>f, <2>2, <3>1, <3>2 DEF StartInv
    <3> QED BY <1>0, <3>3 DEF StartInv
  <2> QED BY <1>3, <2>1, <2>2 DEF ViewerStep, AttachRefused, Attach, Attachable,
          TakeStartLock, Detach
<1>4. CASE \/ \E r \in Runs : DrainLeaves(r) \/ \E k \in Kills : Terminate(k, r)
           \/ Close \/ CloseNext
           \/ \E c \in calls : TeardownNothing(c)
  <2>1. ASSUME NEW r \in Runs, DrainLeaves(r) PROVE StartInv'
    <3>1. /\ drain' = [drain EXCEPT ![r] = "leaving"] /\ drain[r] = "reading"
          /\ \A c \in calls' : c \in calls \/ c.run = r
      BY <2>1, CallRuns DEF DrainLeaves
    <3> QED BY <1>0, <1>f, <2>1, <3>1, StartFrame DEF DrainLeaves, spawnVars
  <2>2. ASSUME NEW r \in Runs, NEW k \in Kills, Terminate(k, r) PROVE StartInv'
    <3>1. \A c \in calls' : c \in calls \/ c.run \in known
      BY <2>2, CallRuns DEF Terminate
    <3> QED BY <1>0, <2>2, <3>1, StartFrame DEF Terminate, spawnVars
  <2>3. CASE Close
    BY <1>0, <2>3, StartFrame DEF Close, spawnVars
  <2>4. CASE CloseNext
    <3>1. /\ toClose' \subseteq toClose
          /\ \A c \in calls' : c \in calls \/ c.run \in toClose
      BY <2>4, CallRuns DEF CloseNext
    <3> QED BY <1>0, <2>4, <3>1, StartFrame DEF CloseNext, spawnVars
  <2>5. ASSUME NEW c \in calls, TeardownNothing(c) PROVE StartInv'
    <3>1. \A r \in Runs : drain'[r] # "none" => drain[r] # "none"
      BY <1>f, <2>5 DEF TeardownNothing, CallerResumes, StartInv, DrainCalls
    <3> QED BY <1>0, <2>5, <3>1, StartFrame DEF TeardownNothing, spawnVars
  <2> QED BY <1>4, <2>1, <2>2, <2>3, <2>4, <2>5
<1>5. ASSUME NEW c \in calls, TeardownBegins(c) PROVE StartInv'
  <2>1. /\ state' = [state EXCEPT ![c.run] = c.to] /\ calls' = calls \ {c}
        /\ tear' = Opening(c)
        /\ UNCHANGED <<pty, starter, known, toClose, drain, failing, spawner>>
    BY <1>5 DEF TeardownBegins, spawnVars
  <2>2. tear'.call = c /\ (tear'.at \in {"drain", "pty"} => pty[c.run] # None)
    BY <1>f, <2>1, OpeningFields DEF StartInv
  <2>3. EarlyIsUnmade' /\ PtyRules'
    BY <1>f, <2>1, <2>2 DEF StartInv
  <2> QED BY <1>0, <2>3 DEF StartInv
<1>6. CASE TearStep
  <2>1. CASE DrainCancelled
    <3> DEFINE r == tear.call.run
    <3>1. /\ r \in Runs /\ pty[r] # None
          /\ drain' = [drain EXCEPT ![r] = "done"] /\ calls' \subseteq calls
          /\ tear'.call = tear.call
          /\ UNCHANGED <<pty, starter, state, known, toClose, failing, spawner>>
      BY <1>f, <2>1, TearFields DEF DrainCancelled, StartInv, spawnVars
    <3>2. EarlyIsUnmade' /\ PtyRules'
      BY <1>f, <3>1 DEF StartInv
    <3> QED BY <1>0, <3>2 DEF StartInv
  <2>2. CASE PtyClosed
    <3> DEFINE r == tear.call.run
    <3>1. /\ r \in Runs /\ pty[r] # None
          /\ pty' = [pty EXCEPT ![r] = "closed"]
          /\ \E b \in BOOLEAN : tear' = [tear EXCEPT !.at = "lease", !.fresh = b]
          /\ UNCHANGED <<starter, state, known, toClose, failing, spawner, drain, calls>>
      BY <1>f, <2>2 DEF PtyClosed, StartInv, spawnVars
    <3>t. tear # None /\ tear \in Tears
      BY <1>f, <2>2 DEF PtyClosed
    <3>3. tear'.at = "lease" /\ tear'.call = tear.call
      BY <3>1, <3>t DEF Tears
    <3>2. EarlyIsUnmade' /\ PtyRules'
      BY <1>f, <1>l, <3>1, <3>3, <3>t DEF StartInv
    <3> QED BY <1>0, <3>2 DEF StartInv
  <2>3. CASE TeardownEnds
    <3> DEFINE r == tear.call.run
    <3>1. /\ r \in Runs
          /\ \A q \in Runs : state[q] = None => state'[q] = None
          /\ \A q \in Runs : drain'[q] # "none" => drain[q] # "none" \/ pty[q] # None
          /\ tear' = None
          /\ UNCHANGED <<pty, starter, known, toClose, failing, spawner, calls>>
      BY <1>f, <1>l, <2>3 DEF TeardownEnds, CallerResumes, spawnVars, RunStates, Ended, StartInv, DrainCalls
    <3>2. EarlyIsUnmade' /\ PtyRules'
      BY <1>f, <3>1 DEF StartInv
    <3> QED BY <1>0, <3>2 DEF StartInv
  <2>4. CASE TeardownRaises
    <3>1. \A r \in Runs : drain'[r] # "none" => drain[r] # "none"
      BY <1>f, <2>4 DEF TeardownRaises, CallerResumes, StartInv, DrainCalls
    <3> QED BY <1>0, <2>4, <3>1, StartFrame DEF TeardownRaises, spawnVars
  <2> QED BY <1>6, <2>1, <2>2, <2>3, <2>4 DEF TearStep
<1>7. CASE UNCHANGED vars
  BY <1>0, <1>7, StartFrame DEF vars
<1> QED BY <1>1, <1>2, <1>3, <1>4, <1>5, <1>6, <1>7 DEF Next

\* Of all the viewers that find no PTY, and the spawn call itself, one spawns it.
THEOREM PtyTheorem == Spec => NoSecondPty
<1>1. StartInv /\ StartInv' /\ [Next]_vars => [\A r \in Runs : pty[r] # None => starter'[r] = None]_vars
  <2> SUFFICES ASSUME StartInv, StartInv', Next, NEW r \in Runs, pty[r] # None
               PROVE  starter'[r] = None
    OBVIOUS
  <2>1. pty'[r] # None
    <3>1. CASE UNCHANGED pty
      BY <3>1
    <3>2. ASSUME NEW q \in Runs, pty' \in {[pty EXCEPT ![q] = "live"], [pty EXCEPT ![q] = "closed"]}
          PROVE  pty'[r] # None
      BY <3>2, NoneIsNoValue DEF NoneIsNoValue, StartInv, Typed, TypeOK
    <3>3. tear # None => tear.call.run \in Runs
      BY TypedFacts DEF StartInv
    <3> QED BY <3>1, <3>2, <3>3
            DEF Next, SpawnStep, Spawn, TakeKey, Admit, PrepareFails, Prepared, RolledBack,
                StartStep, StartSucceeds, StartFails, FailureReported, ViewerStep,
                AttachRefused, Attach, TakeStartLock, Detach, DrainLeaves, Terminate,
                Close, CloseNext, TeardownNothing, TeardownBegins, TearStep,
                DrainCancelled, PtyClosed, TeardownEnds, TeardownRaises
  <2> QED BY <2>1 DEF StartInv, PtyRules
<1>2. Spec => []StartInv
  BY StartInvInit, StartInvStep, PTL DEF Spec
<1> QED BY <1>1, <1>2, PTL DEF Spec, NoSecondPty

-----------------------------------------------------------------------------
(* Ends                                                                    *)

\* A run that has ended, or is ending, has a live PTY only while its teardown
\* is on the way to closing it.
FinalRule ==
  \A r \in Runs : state[r] \notin Startable /\ pty[r] = "live"
                    => tear # None /\ tear.call.run = r /\ tear.at \in {"drain", "pty"}

\* The lease follows the state, unless the teardown overtook the start.
LeaseRules ==
  /\ \A r \in Runs \ overtaken :
       /\ state[r] \in Startable => lease[r] = "open"
       /\ starter[r] # None /\ r \notin failing => state[r] \in Startable
       /\ lease[r] = "closed" => pty[r] # "live"
       /\ state[r] \in Ended => \/ lease[r] = "closed"
                                \/ tear # None /\ tear.call.run = r
  /\ tear # None /\ tear.at = "lease" => lease[tear.call.run] = "closed"
  /\ tear # None /\ tear.at # "lease" => state[tear.call.run] \notin Startable

EndInv == StartInv /\ FinalRule /\ LeaseRules

LEMMA EndInvInit == Init => EndInv
<1> SUFFICES ASSUME Init PROVE EndInv
  OBVIOUS
<1>1. FinalRule /\ LeaseRules
  BY NoneIsNoValue DEF NoneIsNoValue, RunStates, Startable, Ended, Init, FinalRule, LeaseRules
<1> QED BY <1>1, StartInvInit DEF EndInv

LEMMA EndInvStep == EndInv /\ [Next]_vars => EndInv'
<1> SUFFICES ASSUME EndInv, [Next]_vars PROVE FinalRule' /\ LeaseRules'
  BY StartInvStep DEF EndInv
<1>0. Typed
  BY DEF EndInv, StartInv
<1>f. /\ state \in [Runs -> Maybe(RunStates)]
      /\ pty \in [Runs -> Maybe({"live", "closed"})]
      /\ lease \in [Runs -> Maybe({"open", "closed"})]
      /\ starter \in [Runs -> Maybe(Runs \cup Viewers)]
      /\ \A c \in calls : /\ c \in Calls /\ c.run \in Runs
                          /\ c.to \notin Startable
      /\ tear # None => tear \in Tears /\ tear.call.run \in Runs /\ tear.at \in {"drain", "pty", "lease"}
      /\ \A v \in Viewers : RunOf[v] \in Runs
  BY <1>0, TypedFacts, TearFields
<1>l. "live" # None /\ "closed" # None /\ "open" # None /\ \A x \in RunStates : x # None
  BY NoneIsNoValue DEF NoneIsNoValue
<1> USE DEF FinalRule, LeaseRules
<1>1. CASE UNCHANGED <<state, pty, lease, starter, failing, overtaken, tear>>
  BY <1>1 DEF EndInv
<1>2. ASSUME NEW r \in Runs, Prepared(r) PROVE FinalRule' /\ LeaseRules'
  <2>1. state[r] = None /\ pty[r] = None /\ starter[r] = None
    BY <1>2 DEF Prepared, EndInv, StartInv, EarlyIsUnmade, Unmade, Early
  <2>2. tear # None => tear.at = "lease" \/ tear.call.run # r
    BY <1>f, <2>1 DEF EndInv, StartInv, PtyRules
  <2>3. tear # None => tear.call.run # r
    BY <1>2 DEF Prepared, EndInv, StartInv, EarlyIsUnmade, Early
  <2> QED BY <1>f, <1>l, <1>2, <2>1, <2>3
          DEF Prepared, Register, Startable, Ended, RunStates, tearVars, EndInv
<1>3. ASSUME NEW r \in Runs, StartStep(r) PROVE FinalRule' /\ LeaseRules'
  <2>1. pty[r] = None /\ starter[r] # None
    BY <1>3 DEF StartStep, StartSucceeds, StartFails, FailureReported, EndInv, StartInv, PtyRules
  <2>2. tear # None /\ tear.at # "lease" => tear.call.run # r
    BY <1>f, <2>1 DEF EndInv, StartInv, PtyRules
  <2>3. CASE StartSucceeds(r)
    BY <1>f, <2>1, <2>2, <2>3 DEF StartSucceeds, Startable, Ended, tearVars, EndInv
  <2>4. CASE StartFails(r)
    BY <1>f, <1>l, <2>1, <2>2, <2>4 DEF StartFails, Startable, Ended, tearVars, EndInv
  <2>5. CASE FailureReported(r)
    BY <1>f, <2>5 DEF FailureReported, tearVars, EndInv
  <2> QED BY <1>3, <2>3, <2>4, <2>5 DEF StartStep
<1>4. ASSUME NEW v \in Viewers, ViewerStep(v) PROVE FinalRule' /\ LeaseRules'
  <2>1. \/ UNCHANGED starter
        \/ starter' = [starter EXCEPT ![RunOf[v]] = v] /\ state[RunOf[v]] \in Startable
    BY <1>4 DEF ViewerStep, AttachRefused, Attach, Attachable, TakeStartLock, Detach
  <2>2. UNCHANGED <<state, pty, lease, failing, overtaken, tear>>
    BY <1>4 DEF ViewerStep, AttachRefused, Attach, TakeStartLock, Detach, tearVars
  <2> QED BY <1>f, <2>1, <2>2 DEF EndInv
<1>5. ASSUME NEW c \in calls, TeardownBegins(c) PROVE FinalRule' /\ LeaseRules'
  <2> DEFINE r == c.run
  <2>1. /\ tear = None /\ r \in Runs /\ c.to \notin Startable
        /\ state' = [state EXCEPT ![r] = c.to]
        /\ tear' = Opening(c)
        /\ lease' = IF tear'.at = "lease" THEN [lease EXCEPT ![r] = "closed"] ELSE lease
        /\ overtaken' = IF starter[r] # None THEN overtaken \cup {r} ELSE overtaken
        /\ UNCHANGED <<pty, starter, failing>>
    BY <1>f, <1>5 DEF TeardownBegins, LeaseAt
  <2>2. /\ tear' # None /\ tear'.call = c
        /\ tear'.at \in {"drain", "pty", "lease"}
        /\ tear'.at = "lease" => pty[r] = None
    <3>1. /\ Opening(c) \in Tears /\ Opening(c).call = c
          /\ Opening(c).at = "lease" => pty[r] = None
      BY <1>f, OpeningFields
    <3>2. Opening(c) # None /\ Opening(c).at \in {"drain", "pty", "lease"}
      BY <3>1, TearFields, NoneIsNoValue DEF NoneIsNoValue
    <3> QED BY <2>1, <3>1, <3>2
  <2>3. FinalRule'
    BY <1>f, <1>l, <2>1, <2>2 DEF EndInv
  <2>4. LeaseRules'
    BY <1>f, <1>l, <2>1, <2>2 DEF EndInv
  <2> QED BY <2>3, <2>4
<1>6. CASE DrainCancelled
  <2>1. tear'.call = tear.call /\ tear'.at = "pty" /\ tear.at = "drain" /\ tear # None
    BY <1>f, <1>6, TearFields DEF DrainCancelled
  <2>t. tear' # None
    <3>1. tear \in Tears /\ tear' = [tear EXCEPT !.at = "pty"]
      BY <1>f, <1>6 DEF DrainCancelled
    <3>2. tear' \in Tears
      BY <3>1, TearFields
    <3> QED BY <3>2, NoneIsNoValue DEF NoneIsNoValue
  <2>2. UNCHANGED <<state, pty, lease, starter, failing, overtaken>>
    BY <1>6 DEF DrainCancelled
  <2>3. FinalRule'
    BY <1>f, <2>1, <2>2, <2>t DEF EndInv
  <2>4. LeaseRules'
    BY <1>f, <2>1, <2>2, <2>t DEF EndInv
  <2> QED BY <2>3, <2>4
<1>7. CASE PtyClosed
  <2> DEFINE r == tear.call.run
  <2>1. /\ r \in Runs /\ tear # None /\ tear \in Tears /\ tear.at = "pty"
        /\ pty' = [pty EXCEPT ![r] = "closed"] /\ lease' = [lease EXCEPT ![r] = "closed"]
        /\ \E b \in BOOLEAN : tear' = [tear EXCEPT !.at = "lease", !.fresh = b]
        /\ UNCHANGED <<starter, state, failing, overtaken>>
    BY <1>f, <1>7 DEF PtyClosed, spawnVars
  <2>2. tear'.call = tear.call /\ tear'.at = "lease"
    BY <2>1 DEF Tears
  <2>3. FinalRule'
    BY <1>f, <2>1, <2>2 DEF EndInv
  <2>4. LeaseRules'
    BY <1>f, <1>l, <2>1, <2>2 DEF EndInv
  <2> QED BY <2>3, <2>4
<1>8. CASE TeardownEnds \/ TeardownRaises
  <2> DEFINE r == tear.call.run
  <2>1. /\ r \in Runs /\ tear # None /\ tear.at = "lease" /\ tear' = None
        /\ UNCHANGED <<pty, lease, starter, failing, overtaken>>
        /\ \A q \in Runs : \/ state'[q] = state[q]
                           \/ q = r /\ state[q] = "TERMINATING" /\ state'[q] = "TERMINATED"
    BY <1>f, <1>8 DEF TeardownEnds, TeardownRaises, spawnVars
  <2>2. lease[r] = "closed"
    BY <2>1 DEF EndInv
  <2>3. FinalRule'
    BY <1>f, <2>1 DEF EndInv, Startable
  <2>4. LeaseRules'
    BY <1>f, <2>1, <2>2 DEF EndInv, Startable, Ended
  <2> QED BY <2>3, <2>4
<1> QED
  <2>1. CASE Next
    BY <1>1, <1>2, <1>3, <1>4, <1>5, <1>6, <1>7, <1>8, <2>1
       DEF Next, SpawnStep, Spawn, TakeKey, Admit, PrepareFails, RolledBack, DrainLeaves,
           Terminate, Close, CloseNext, TeardownNothing, TearStep, spawnVars, tearVars
  <2>2. CASE UNCHANGED vars
    BY <1>1, <2>2 DEF vars
  <2> QED BY <2>1, <2>2

LEMMA EndInvariant == Spec => []EndInv
BY EndInvInit, EndInvStep, PTL DEF Spec

\* The listener and the workspace lock of a run are given up only after its
\* terminal is closed, and by its end; unless the teardown overtook the start.
THEOREM HoldingTheorem == Spec => []EndedHoldsNothing
<1>1. EndInv => EndedHoldsNothing
  <2> SUFFICES ASSUME EndInv, NEW r \in Runs \ overtaken
               PROVE  /\ lease[r] = "closed" => pty[r] # "live"
                      /\ state[r] \in Ended /\ (tear = None \/ tear.call.run # r)
                           => pty[r] # "live" /\ lease[r] = "closed"
    BY DEF EndedHoldsNothing
  <2>1. state[r] \in Ended => state[r] \notin Startable
    BY DEF Ended, Startable
  <2> QED BY <2>1 DEF EndInv, FinalRule, LeaseRules
<1> QED BY <1>1, EndInvariant, PTL

\* An ended run never changes its state again, unless its PTY arrives late.
THEOREM EndTheorem == Spec => EndIsFinal
<1> DEFINE Stays == \A r \in Runs : state[r] \in Ended /\ starter[r] = None
                                      => state'[r] = state[r]
<1>1. EndInv /\ [Next]_vars => [Stays]_vars
  <2> SUFFICES ASSUME EndInv, Next, NEW r \in Runs, state[r] \in Ended, starter[r] = None
               PROVE  state'[r] = state[r]
    OBVIOUS
  <2>f. /\ state \in [Runs -> Maybe(RunStates)]
        /\ \A c \in calls : c.run \in Runs
    BY TypedFacts DEF EndInv, StartInv
  <2>1. CASE UNCHANGED state
    BY <2>1
  <2>2. ASSUME NEW q \in Runs, Prepared(q) PROVE state'[r] = state[r]
    <3>1. state[q] = None
      BY <2>2 DEF Prepared, EndInv, StartInv, EarlyIsUnmade, Unmade, Early
    <3>2. q # r
      BY <3>1, NoneIsNoValue DEF NoneIsNoValue, RunStates
    <3> QED BY <2>f, <2>2, <3>2 DEF Prepared, Register
  <2>3. ASSUME NEW q \in Runs, StartStep(q) PROVE state'[r] = state[r]
    <3>1. starter[q] # None \/ UNCHANGED state
      BY <2>3 DEF StartStep, StartSucceeds, StartFails, FailureReported
    <3> QED BY <2>f, <2>3, <3>1 DEF StartStep, StartSucceeds, StartFails, FailureReported
  <2>4. ASSUME NEW c \in calls, TeardownBegins(c) PROVE state'[r] = state[r]
    <3>1. pty[r] # "live"
      BY <2>4 DEF TeardownBegins, EndInv, FinalRule, Ended, Startable
    <3> QED BY <2>f, <2>4, <3>1 DEF TeardownBegins, Settled
  <2>5. CASE TeardownEnds
    BY <2>f, <2>5 DEF TeardownEnds, Ended
  <2> QED BY <2>1, <2>2, <2>3, <2>4, <2>5
          DEF Next, SpawnStep, Spawn, TakeKey, Admit, PrepareFails, RolledBack, DrainLeaves,
              ViewerStep, AttachRefused, Attach, TakeStartLock, Detach, Terminate, Close,
              CloseNext, TeardownNothing, TearStep, DrainCancelled, PtyClosed,
              TeardownRaises
<1> QED BY <1>1, EndInvariant, PTL DEF Spec, EndIsFinal

-----------------------------------------------------------------------------
(* Keys                                                                    *)

\* A keyed spawn holds the lock from the look-up of its key until it ends, and
\* a key that answered a call keeps its answer.
KeyRules ==
  \A r \in Runs :
    /\ starter[r] = r => spawner[r] = "starting"
    /\ KeyOf[r] # None =>
         /\ spawner[r] \in {"admitting", "preparing", "starting", "rolling"}
              => keyLock = r /\ byKey[KeyOf[r]] = None
         /\ answer[r] # None => byKey[KeyOf[r]] = answer[r]

LEMMA KeyInit == Init => KeyRules
BY RunConstants DEF RunConstants, Init, KeyRules

LEMMA KeyStep == Typed /\ KeyRules /\ [Next]_vars => KeyRules'
<1> SUFFICES ASSUME Typed, KeyRules, [Next]_vars PROVE KeyRules'
  OBVIOUS
<1>f. /\ spawner \in [Runs -> {"idle", "keying", "admitting", "preparing", "starting",
                               "rolling", "returned", "refused"}]
      /\ answer \in [Runs -> Maybe(Runs)]
      /\ byKey \in [Keys -> Maybe(Runs)]
      /\ starter \in [Runs -> Maybe(Runs \cup Viewers)]
      /\ \A r \in Runs : r # None /\ (KeyOf[r] # None => KeyOf[r] \in Keys)
      /\ \A v \in Viewers : RunOf[v] \in Runs /\ v \notin Runs
  BY RunConstants DEF RunConstants, Typed, TypeOK
<1>k. \A r \in Runs : KeyOf[r] # None =>
         /\ spawner[r] \in {"admitting", "preparing", "starting", "rolling"}
              => keyLock = r /\ byKey[KeyOf[r]] = None
         /\ answer[r] # None => byKey[KeyOf[r]] = answer[r]
  BY DEF KeyRules
<1>1. CASE UNCHANGED <<spawner, answer, keyLock, byKey>> /\ \A r \in Runs : starter'[r] = r => starter[r] = r
  BY <1>1 DEF KeyRules
<1>2. ASSUME NEW r \in Runs, Refuse(r), \A q \in Runs : starter'[q] = q => q # r /\ starter[q] = q
      PROVE  KeyRules'
  BY <1>f, <1>2 DEF Refuse, Unlocked, KeyRules
<1>3. ASSUME NEW r \in Runs, Return(r), spawner[r] \in {"preparing", "starting"},
             \A q \in Runs : starter'[q] = q => q # r /\ starter[q] = q
      PROVE  KeyRules'
  <2>1. CASE KeyOf[r] = None
    BY <1>f, <1>3, <2>1 DEF Return, Unlocked, KeyRules
  <2>2. CASE KeyOf[r] # None
    <3>1. keyLock = r /\ byKey[KeyOf[r]] = None
      BY <1>3, <1>k, <2>2
    <3>2. /\ spawner' = [spawner EXCEPT ![r] = "returned"] /\ answer' = [answer EXCEPT ![r] = r]
          /\ keyLock' = None /\ byKey' = [byKey EXCEPT ![KeyOf[r]] = r]
      BY <1>3, <2>2, <3>1 DEF Return, Unlocked
    <3> QED BY <1>f, <1>3, <3>1, <3>2 DEF KeyRules
  <2> QED BY <2>1, <2>2
<1>4. ASSUME NEW r \in Runs, SpawnStep(r) PROVE KeyRules'
  <2>1. CASE Spawn(r)
    BY <1>f, <2>1 DEF Spawn, KeyRules
  <2>2. CASE TakeKey(r)
    BY <1>f, <2>2 DEF TakeKey, KeyRules, Typed, KeyingIsKeyed
  <2>3. CASE Refuse(r) /\ UNCHANGED starter /\ spawner[r] # "starting"
    BY <1>2, <2>3 DEF KeyRules
  <2>4. CASE Admit(r) /\ ~Refuse(r)
    BY <1>f, <2>4 DEF Admit, KeyRules
  <2>5. CASE Prepared(r)
    <3>1. CASE Register(r) /\ r \in OnAttach
      <4>1. \A q \in Runs : starter'[q] = q => q # r /\ starter[q] = q
        BY <2>5, <3>1 DEF Prepared, Register, KeyRules
      <4> QED BY <1>3, <2>5, <3>1, <4>1 DEF Prepared, Register
    <3>2. CASE Register(r) /\ r \notin OnAttach
      BY <1>f, <2>5, <3>2 DEF Prepared, Register, KeyRules
    <3>3. CASE ~Register(r)
      BY <1>f, <2>5, <3>3 DEF Prepared, KeyRules
    <3> QED BY <3>1, <3>2, <3>3
  <2> QED BY <1>4, <2>1, <2>2, <2>3, <2>4, <2>5 DEF SpawnStep, Admit, PrepareFails, RolledBack
<1>5. ASSUME NEW r \in Runs, StartStep(r) PROVE KeyRules'
  <2>1. CASE StartFails(r)
    BY <1>1, <2>1 DEF StartFails, spawnVars
  <2>2. CASE ~StartFails(r) /\ starter[r] = r
    <3>1. spawner[r] = "starting"
      BY <2>2 DEF KeyRules
    <3>2. starter' = [starter EXCEPT ![r] = None]
      BY <1>5, <2>2 DEF StartStep, StartSucceeds, FailureReported
    <3>3. \A q \in Runs : starter'[q] = q => q # r /\ starter[q] = q
      BY <1>f, <3>2
    <3> QED BY <1>2, <1>3, <1>5, <2>2, <3>1, <3>3 DEF StartStep, StartSucceeds, FailureReported
  <2>3. CASE ~StartFails(r) /\ starter[r] # r
    BY <1>f, <1>1, <1>5, <2>3 DEF StartStep, StartSucceeds, FailureReported, spawnVars
  <2> QED BY <2>1, <2>2, <2>3
<1>6. ASSUME NEW v \in Viewers, ViewerStep(v) PROVE KeyRules'
  <2>1. starter' \in {starter, [starter EXCEPT ![RunOf[v]] = v]}
    BY <1>6 DEF ViewerStep, AttachRefused, Attach, TakeStartLock, Detach
  <2>2. UNCHANGED <<spawner, answer, keyLock, byKey>>
    BY <1>6 DEF ViewerStep, AttachRefused, Attach, TakeStartLock, Detach, spawnVars
  <2> QED BY <1>f, <1>1, <2>1, <2>2
<1> QED
  <2>1. CASE Next
    BY <1>1, <1>4, <1>5, <1>6, <2>1
       DEF Next, DrainLeaves, Terminate, Close, CloseNext, TeardownNothing, TeardownBegins,
           TearStep, DrainCancelled, PtyClosed, TeardownEnds, TeardownRaises, spawnVars
  <2>2. CASE UNCHANGED vars
    BY <1>1, <2>2 DEF vars
  <2> QED BY <2>1, <2>2

\* Spawn calls that repeat a key get one run, whenever they come.
THEOREM KeyTheorem == Spec => []KeyNamesOneRun
<1>1. Spec => [](Typed /\ KeyRules)
  BY TypedInit, TypedStep, KeyInit, KeyStep, PTL DEF Spec
<1>2. KeyRules => KeyNamesOneRun
  BY DEF KeyRules, KeyNamesOneRun
<1> QED BY <1>1, <1>2, PTL
-----------------------------------------------------------------------------
(* Leases                                                                  *)

\* Some teardown is going to close the lease of r.
Awaited(r) ==
  \/ r \in toClose
  \/ \E c \in calls : c.run = r
  \/ tear # None /\ tear.call.run = r

\* A run with an open lease is known and has not ended, but for a teardown at work;
\* once the manager is closed somebody is going to close it.
LeakRules ==
  /\ \A r \in failing : lease[r] = "closed"
  /\ \A r \in Runs : lease[r] = "open" =>
       /\ r \in known
       /\ state[r] \in Ended => tear # None /\ tear.call.run = r
       /\ closed => Awaited(r)

\* Who closes has closed the manager first.
CloseRules ==
  /\ closer # "open" => closed
  /\ \A c \in calls : c.who = "close" => closed
  /\ tear # None /\ tear.call.who = "close" => closed

LEMMA CloseStep == Typed /\ CloseRules /\ [Next]_vars => CloseRules'
<1> SUFFICES ASSUME Typed, CloseRules, [Next]_vars PROVE CloseRules'
  OBVIOUS
<1>f. /\ \A c \in calls : c \in Calls
      /\ tear # None => tear \in Tears
      /\ \A c \in Calls : Opening(c).call = c
      /\ \A who, by, r, to : Call(who, by, r, to).who = who
  BY TypedFacts, OpeningFields DEF Call
<1> USE DEF CloseRules
<1>1. CASE UNCHANGED <<closed, closer, calls, tear>>
  BY <1>1
<1>2. ASSUME NEW r \in Runs, DrainLeaves(r) PROVE CloseRules'
  BY <1>f, <1>2 DEF DrainLeaves
<1>3. ASSUME NEW k \in Kills, NEW r \in Runs, Terminate(k, r) PROVE CloseRules'
  BY <1>f, <1>3 DEF Terminate
<1>4. CASE Close
  BY <1>4 DEF Close
<1>5. CASE CloseNext
  <2>1. closed /\ closed' = closed
    BY <1>5 DEF CloseNext
  <2> QED BY <2>1
<1>6. ASSUME NEW c \in calls, TeardownNothing(c) \/ TeardownBegins(c) PROVE CloseRules'
  BY <1>f, <1>6 DEF TeardownNothing, TeardownBegins, CallerResumes
<1>7. CASE DrainCancelled \/ PtyClosed
  <2>1. tear # None /\ tear'.call = tear.call
    <3>1. tear # None /\ tear \in Tears
      BY <1>f, <1>7 DEF DrainCancelled, PtyClosed
    <3> QED BY <1>7, <3>1 DEF DrainCancelled, PtyClosed, Tears
  <2>2. calls' \subseteq calls /\ UNCHANGED <<closed, closer>>
    BY <1>7 DEF DrainCancelled, PtyClosed, spawnVars
  <2> QED BY <2>1, <2>2
<1>8. CASE TeardownEnds \/ TeardownRaises
  BY <1>8 DEF TeardownEnds, TeardownRaises, CallerResumes
<1> QED
  <2>1. CASE Next
    BY <1>1, <1>2, <1>3, <1>4, <1>5, <1>6, <1>7, <1>8, <2>1
       DEF Next, SpawnStep, Spawn, TakeKey, Admit, PrepareFails, Prepared, RolledBack,
           StartStep, StartSucceeds, StartFails, FailureReported,
           ViewerStep, AttachRefused, Attach, TakeStartLock, Detach, TearStep, tearVars
  <2>2. CASE UNCHANGED vars
    BY <1>1, <2>2 DEF vars
  <2> QED BY <2>1, <2>2

LEMMA LeakInit == Init => LeakRules
BY NoneIsNoValue DEF NoneIsNoValue, Init, LeakRules

LEMMA LeakStep == EndInv /\ LeakRules /\ [Next]_vars => LeakRules'
<1> SUFFICES ASSUME EndInv, LeakRules, [Next]_vars PROVE LeakRules'
  OBVIOUS
<1>f. /\ state \in [Runs -> Maybe(RunStates)]
      /\ lease \in [Runs -> Maybe({"open", "closed"})]
      /\ \A c \in calls : c \in Calls /\ c.run \in Runs
      /\ tear # None => tear \in Tears /\ tear.call.run \in Runs
      /\ \A c \in Calls : Opening(c) # None /\ Opening(c).call = c
      /\ failing \subseteq Runs
  <2>1. \A c \in Calls : Opening(c) \in Tears /\ Opening(c).call = c
    BY OpeningFields
  <2>2. failing \subseteq Runs
    BY DEF EndInv, StartInv, Typed, TypeOK
  <2> QED BY <2>1, <2>2, TypedFacts, NoneIsNoValue DEF NoneIsNoValue, EndInv, StartInv
<1>d. tear # None /\ tear.at = "lease" => lease[tear.call.run] = "closed"
  BY DEF EndInv, LeaseRules
<1> USE DEF LeakRules, Awaited
<1>1. CASE /\ UNCHANGED <<closed, toClose, known, state, lease, failing, tear>>
           /\ calls \subseteq calls'
  BY <1>1
<1>2. ASSUME NEW r \in Runs, Prepared(r) PROVE LeakRules'
  <2>1. UNCHANGED <<closed, toClose, calls, tear, failing>>
    BY <1>2 DEF Prepared, tearVars
  <2>2. CASE ~closed /\ Register(r)
    <3>1. known \subseteq known' /\ r \in known' /\ state' = [state EXCEPT ![r] = "STARTING"]
          /\ lease' = [lease EXCEPT ![r] = "open"]
      BY <2>2 DEF Register
    <3>2. r \notin failing
      BY <1>2 DEF Prepared, EndInv, StartInv, PtyRules, EarlyIsUnmade, Unmade, Early
    <3> QED BY <1>f, <2>1, <2>2, <3>1, <3>2 DEF Ended
  <2>3. CASE lease' = [lease EXCEPT ![r] = "closed"] /\ UNCHANGED <<known, state>>
    BY <1>f, <2>1, <2>3
  <2> QED BY <1>2, <2>2, <2>3 DEF Prepared
<1>3. ASSUME NEW r \in Runs, StartStep(r) PROVE LeakRules'
  <2>1. UNCHANGED <<closed, toClose, calls, tear>>
    BY <1>3 DEF StartStep, StartSucceeds, StartFails, FailureReported, tearVars
  <2>2. CASE StartSucceeds(r)
    BY <1>f, <2>1, <2>2 DEF StartSucceeds, Ended
  <2>3. CASE StartFails(r)
    BY <1>f, <2>1, <2>3 DEF StartFails
  <2>4. CASE FailureReported(r)
    BY <1>f, <2>1, <2>4 DEF FailureReported
  <2> QED BY <1>3, <2>2, <2>3, <2>4 DEF StartStep
<1>4. CASE Close
  BY <1>4 DEF Close
<1>5. CASE CloseNext
  <2>1. \A r \in toClose : r \in toClose' \/ \E c \in calls' : c.run = r
    BY <1>5, CallRuns DEF CloseNext
  <2>2. UNCHANGED <<closed, known, state, lease, failing, tear>> /\ calls \subseteq calls'
    BY <1>5 DEF CloseNext, spawnVars
  <2> QED BY <2>1, <2>2
<1>6. ASSUME NEW c \in calls, TeardownNothing(c) PROVE LeakRules'
  BY <1>6 DEF TeardownNothing, Settled
<1>7. ASSUME NEW c \in calls, TeardownBegins(c) PROVE LeakRules'
  <2>1. /\ tear = None /\ tear' # None /\ tear'.call = c /\ c.run \in Runs
        /\ calls' = calls \ {c} /\ state' = [state EXCEPT ![c.run] = c.to]
        /\ lease' = lease \/ lease' = [lease EXCEPT ![c.run] = "closed"]
        /\ UNCHANGED <<closed, toClose, known, failing>>
    BY <1>f, <1>7 DEF TeardownBegins, LeaseAt
  <2> QED BY <1>f, <2>1
<1>8. CASE DrainCancelled \/ PtyClosed
  <2>1. tear # None /\ tear' # None /\ tear'.call = tear.call
    <3>1. tear # None /\ tear \in Tears
      BY <1>f, <1>8 DEF DrainCancelled, PtyClosed
    <3>2. tear' \in Tears /\ tear'.call = tear.call
      BY <1>8, <3>1 DEF DrainCancelled, PtyClosed, Tears
    <3> QED BY <3>1, <3>2, NoneIsNoValue DEF NoneIsNoValue
  <2>2. /\ \A c \in calls : c \in calls' \/ c.run = tear.call.run
        /\ lease' = lease \/ lease' = [lease EXCEPT ![tear.call.run] = "closed"]
        /\ UNCHANGED <<closed, toClose, known, state, failing>>
    BY <1>8 DEF DrainCancelled, PtyClosed, spawnVars
  <2> QED BY <1>f, <2>1, <2>2
<1>9. CASE TeardownEnds \/ TeardownRaises
  <2>1. /\ tear # None /\ tear.at = "lease"
        /\ \A r \in Runs : r # tear.call.run => state'[r] = state[r]
        /\ UNCHANGED <<closed, toClose, known, lease, failing, calls>>
    BY <1>f, <1>9 DEF TeardownEnds, TeardownRaises, spawnVars
  <2> QED BY <1>d, <1>f, <2>1
<1> QED
  <2>1. CASE Next
    BY <1>1, <1>2, <1>3, <1>4, <1>5, <1>6, <1>7, <1>8, <1>9, <2>1
       DEF Next, SpawnStep, Spawn, TakeKey, Admit, PrepareFails, RolledBack, DrainLeaves,
           Terminate, ViewerStep, AttachRefused, Attach, TakeStartLock, Detach, TearStep,
           spawnVars, tearVars
  <2>2. CASE UNCHANGED vars
    BY <1>1, <2>2 DEF vars
  <2> QED BY <2>1, <2>2

\* Once close() and what it found in flight are over no lease is open, for any
\* number of runs and of calls, and whatever their order was.
THEOREM LeakTheorem == Spec => []NothingLeaks
<1>1. LeakRules /\ CloseRules => NothingLeaks
  BY DEF LeakRules, CloseRules, Awaited, NothingLeaks
<1>2. Init => CloseRules
  BY DEF Init, CloseRules
<1>3. Spec => [](EndInv /\ LeakRules)
  BY LeakInit, LeakStep, EndInvInit, EndInvStep, PTL DEF Spec
<1>4. Spec => []CloseRules
  BY <1>2, CloseStep, TypedInit, TypedStep, PTL DEF Spec
<1> QED BY <1>1, <1>3, <1>4, PTL

-----------------------------------------------------------------------------
(* The shared proxy whose control requests may all be given up             *)

\* However late the proxy answers and whoever gets the port next, a flow is
\* captured for one run at most.
THEOREM GivenUpFlowTheorem == P!Spec => []OneRunPerFlow
<1>1. P!ProxyConstants
  BY ProxyAssumption DEF P!ProxyConstants
<1>2. P!NoneIsNoValue
  BY ProxyAssumption
     DEF P!NoneIsNoValue, P!Requests, P!Ops, P!Tasks, P!Maybe,
         Proxy!Requests, Proxy!Ops, Proxy!Tasks, Proxy!Maybe
<1>3. P!OneRunPerFlow => OneRunPerFlow
  BY DEF P!OneRunPerFlow, Proxy!OneRunPerFlow, OneRunPerFlow
<1> QED BY <1>1, <1>2, <1>3, P!FlowTheorem, PTL
=============================================================================
