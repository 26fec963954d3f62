----------------------------- MODULE DesktopProofs -----------------------------
(***************************************************************************)
(* What is proved of Desktop for any number of commands, apps, backends    *)
(* and crashes: a backend that listens on the channel's port is known to   *)
(* a later launch, and an app's backend is told to stop; of Launch: what   *)
(* is over has left nothing behind; of Canvas: no run is lost from sight.  *)
(***************************************************************************)
EXTENDS MCDesktop, Sequences, FiniteSetTheorems, WellFoundedInduction, TLAPS

ProcessRecord ==
  [kind : {"detached", "foreground", "app"}, dir : Dirs \cup {1}, state : {"starting", "up", "gone"},
   health : {"ok", "hung", "failing"}, termed : BOOLEAN, killed : BOOLEAN, parent : Launchers]

Phases == {"idle", "read", "pid", "probe", "stop", "wait", "spawn", "record", "ready",
           "hosted", "watching", "owned"}

LaunchRecord ==
  [kind : Kinds, dir : Dirs \cup {1}, force : BOOLEAN, phase : Phases,
   round : 1..3, seen : Nat, victim : Nat, fails : Nat]

TypeOK ==
  /\ \E n \in Nat : procs \in [1..n -> ProcessRecord]
  /\ launch \in [Launchers -> LaunchRecord]
  /\ record \in Nat /\ port \in Nat /\ alone \in BOOLEAN

\* Whatever is named was started, and the port belongs to a backend that is up.
Names ==
  /\ record # None => record \in DOMAIN procs
  /\ port # None => port \in DOMAIN procs /\ procs[port].state = "up"
  /\ \A l \in Launchers : launch[l].phase \in {"wait", "record", "ready", "owned"} => launch[l].victim \in DOMAIN procs
  /\ \A l \in Launchers : launch[l].phase \in {"record", "ready"} => procs[launch[l].victim].kind = launch[l].kind
  /\ \A l \in Launchers : launch[l].phase \in {"pid", "probe"} => launch[l].seen \in DOMAIN procs
  /\ \A l \in Launchers : launch[l].phase = "spawn" => launch[l].kind # "stop"

OneAtATime == \A k, l \in Launchers : Busy(k) /\ Busy(l) => k = l

\* The record is the one the launch under way has seen, and gone when it starts a backend.
RecordIsSeen ==
  \A l \in Launchers :
    /\ launch[l].phase \in {"pid", "probe"} => record = launch[l].seen
    /\ launch[l].phase = "wait" => record = launch[l].victim
    /\ launch[l].phase = "record" \/ (launch[l].phase = "spawn" /\ launch[l].kind # "app") => record = None

Recording(p) == \E l \in Launchers : Is(l, "record") /\ launch[l].victim = p

DetachedIsKnown ==
  \A p \in DOMAIN procs : procs[p].kind = "detached" =>
    Gone(p) \/ record = p \/ procs[p].killed \/ Recording(p)

OwnedIsKnown ==
  \A p \in DOMAIN procs : procs[p].kind = "app" =>
    \/ Gone(p) \/ procs[p].termed
    \/ launch[procs[p].parent].phase \in {"ready", "owned"} /\ launch[procs[p].parent].victim = p

Tracked == OneAtATime /\ RecordIsSeen /\ DetachedIsKnown /\ OwnedIsKnown

Inv == TypeOK /\ Names /\ (alone => Tracked)

-----------------------------------------------------------------------------
(* What a launch decides.                                                  *)

States == {"absent", "stale", "not-serving", "wedged", "unhealthy", "live"}

LEMMA Phasing == /\ {"idle", "read", "stop", "spawn", "hosted", "owned"} \subseteq Phases
                 /\ None \in Nat /\ 2 \in 1..3 /\ 3 \in 1..3
BY DEF Phases, None

LEMMA Idling == Idle \in LaunchRecord /\ Idle.phase = "idle"
BY DEF Idle, LaunchRecord, Phases, Kinds, None

LEMMA PreparedFacts ==
  ASSUME NEW x \in LaunchRecord
  PROVE  /\ Prepared(x) \in LaunchRecord
         /\ Prepared(x).phase \in {"idle", "read", "spawn"}
         /\ Prepared(x).phase = "spawn" => Prepared(x).kind \notin {"stop", "app"}
<1>1. /\ [x EXCEPT !.phase = "read", !.round = 3, !.seen = None, !.victim = None] \in LaunchRecord
      /\ [x EXCEPT !.phase = "read", !.round = 3, !.seen = None, !.victim = None].phase = "read"
  BY Phasing DEF LaunchRecord
<1>2. /\ [x EXCEPT !.phase = "spawn", !.seen = None, !.victim = None] \in LaunchRecord
      /\ [x EXCEPT !.phase = "spawn", !.seen = None, !.victim = None].phase = "spawn"
      /\ [x EXCEPT !.phase = "spawn", !.seen = None, !.victim = None].kind = x.kind
  BY Phasing DEF LaunchRecord
<1> QED
  BY <1>1, <1>2, Idling DEF Prepared

LEMMA OpenFacts ==
  ASSUME NEW x \in LaunchRecord, NEW how \in {"hosted", "owned"}
  PROVE  /\ Open(x, how) \in LaunchRecord
         /\ Open(x, how).phase = how
         /\ how = "owned" => Open(x, how).victim = x.victim
<1> DEFINE v == IF how = "owned" THEN x.victim ELSE None
<1>1. v \in Nat /\ x.kind \in Kinds /\ how \in Phases
  BY Phasing DEF LaunchRecord
<1>2. how = "owned" => v = x.victim
  OBVIOUS
<1>3. Open(x, how) = [Idle EXCEPT !.kind = x.kind, !.phase = how, !.victim = v]
  BY DEF Open
<1> HIDE DEF v
<1>4. [Idle EXCEPT !.kind = x.kind, !.phase = how, !.victim = v] \in LaunchRecord
  BY <1>1, Idling DEF LaunchRecord
<1>5. /\ [Idle EXCEPT !.kind = x.kind, !.phase = how, !.victim = v].phase = how
      /\ [Idle EXCEPT !.kind = x.kind, !.phase = how, !.victim = v].victim = v
  BY <1>1, Idling DEF LaunchRecord
<1> QED
  BY <1>2, <1>3, <1>4, <1>5

Settled(y, state) ==
  /\ y \in LaunchRecord
  /\ y.phase \in {"idle", "hosted", "read", "stop", "spawn"}
  /\ y.phase = "spawn" => y.kind # "stop" /\ (y.kind = "app" \/ state = "absent")

LEMMA CommandDecidedFacts ==
  ASSUME NEW x \in LaunchRecord, NEW state \in States, NEW dir
  PROVE  Settled(CommandDecided(x, state, dir), state)
<1>1. /\ Prepared(x) \in LaunchRecord /\ Prepared(x).phase \in {"idle", "read", "spawn"}
      /\ Prepared(x).phase = "spawn" => Prepared(x).kind \notin {"stop", "app"}
  BY PreparedFacts
<1>2. x.kind = "app" => Prepared(x).phase = "read"
  BY DEF Prepared, LaunchRecord
<1>3. Open(x, "hosted") \in LaunchRecord /\ Open(x, "hosted").phase = "hosted"
  BY OpenFacts
<1>4. /\ [x EXCEPT !.phase = "stop"] \in LaunchRecord
      /\ [x EXCEPT !.phase = "stop"].phase = "stop"
  BY Phasing DEF LaunchRecord
<1>5. Idle \in LaunchRecord /\ Idle.phase = "idle"
  BY Idling
<1>6. x.force \in BOOLEAN
  BY DEF LaunchRecord
<1> QED
  BY <1>1, <1>2, <1>3, <1>4, <1>5, <1>6 DEF CommandDecided, Settled, States

LEMMA DecidedFacts ==
  ASSUME NEW x \in LaunchRecord, NEW state \in States, NEW dir
  PROVE  Settled(Decided(x, state, dir), state)
<1>1. Settled(CommandDecided(x, state, dir), state)
  BY CommandDecidedFacts
<1>2. Open(x, "hosted") \in LaunchRecord /\ Open(x, "hosted").phase = "hosted"
  BY OpenFacts
<1>3. /\ [x EXCEPT !.phase = "read", !.round = 2, !.seen = None] \in LaunchRecord
      /\ [x EXCEPT !.phase = "read", !.round = 2, !.seen = None].phase = "read"
  BY Phasing DEF LaunchRecord
<1>4. /\ [x EXCEPT !.phase = "spawn", !.seen = None] \in LaunchRecord
      /\ [x EXCEPT !.phase = "spawn", !.seen = None].phase = "spawn"
      /\ [x EXCEPT !.phase = "spawn", !.seen = None].kind = x.kind
  BY Phasing DEF LaunchRecord
<1>5. x.round \in 1..3
  BY DEF LaunchRecord
<1> QED
  BY <1>1, <1>2, <1>3, <1>4, <1>5 DEF Decided, Settled

-----------------------------------------------------------------------------
(* Steps that leave every backend what it is.                              *)

\* Who is gone stays so, as does what a backend was told.
Kept ==
  /\ \E n \in Nat : procs' \in [1..n -> ProcessRecord]
  /\ DOMAIN procs' = DOMAIN procs
  /\ \A p \in DOMAIN procs :
       /\ procs'[p].kind = procs[p].kind /\ procs'[p].parent = procs[p].parent
       /\ Gone(p) => procs'[p].state = "gone"
       /\ procs[p].termed => procs'[p].termed
       /\ procs[p].killed => procs'[p].killed

PortIsUp == port' # None => port' \in DOMAIN procs /\ procs'[port'].state = "up"

LEMMA RecordTypes ==
  ASSUME TypeOK
  PROVE  /\ \A p \in DOMAIN procs : procs[p] \in ProcessRecord /\ p # None /\ p \in Nat
         /\ \A l \in Launchers : launch[l] \in LaunchRecord
BY DEF TypeOK, None

LEMMA KeptUnchanged ==
  ASSUME Inv, UNCHANGED <<procs, port>>
  PROVE  Kept /\ PortIsUp
BY DEF Inv, TypeOK, Names, Kept, Gone, PortIsUp

LEMMA KeptMarked ==
  ASSUME Inv, port' = port, NEW p \in DOMAIN procs,
         \/ procs' = [procs EXCEPT ![p].termed = TRUE]
         \/ procs' = [procs EXCEPT ![p].killed = TRUE]
         \/ \E h \in {"ok", "hung", "failing"} : procs' = [procs EXCEPT ![p].health = h]
  PROVE  Kept /\ PortIsUp
<1>1. PICK n \in Nat : procs \in [1..n -> ProcessRecord]
  BY DEF Inv, TypeOK
<1>2. procs[p] \in ProcessRecord
  BY <1>1
<1> DEFINE Marked(y) == /\ procs' = [procs EXCEPT ![p] = y]
                        /\ y.kind = procs[p].kind /\ y.parent = procs[p].parent /\ y.state = procs[p].state
                        /\ procs[p].termed => y.termed
                        /\ procs[p].killed => y.killed
<1>3. \E y \in ProcessRecord : Marked(y)
  <2>1. CASE procs' = [procs EXCEPT ![p].termed = TRUE]
    <3>1. /\ [procs[p] EXCEPT !.termed = TRUE] \in ProcessRecord
          /\ procs' = [procs EXCEPT ![p] = [procs[p] EXCEPT !.termed = TRUE]]
      BY <1>2, <2>1 DEF ProcessRecord
    <3> QED
      BY <1>2, <3>1 DEF ProcessRecord
  <2>2. CASE procs' = [procs EXCEPT ![p].killed = TRUE]
    <3>1. /\ [procs[p] EXCEPT !.killed = TRUE] \in ProcessRecord
          /\ procs' = [procs EXCEPT ![p] = [procs[p] EXCEPT !.killed = TRUE]]
      BY <1>2, <2>2 DEF ProcessRecord
    <3> QED
      BY <1>2, <3>1 DEF ProcessRecord
  <2>3. ASSUME NEW h \in {"ok", "hung", "failing"}, procs' = [procs EXCEPT ![p].health = h]
        PROVE  \E y \in ProcessRecord : Marked(y)
    <3>1. /\ [procs[p] EXCEPT !.health = h] \in ProcessRecord
          /\ procs' = [procs EXCEPT ![p] = [procs[p] EXCEPT !.health = h]]
      BY <1>2, <2>3 DEF ProcessRecord
    <3> QED
      BY <1>2, <3>1 DEF ProcessRecord
  <2> QED
    BY <2>1, <2>2, <2>3
<1>4. PICK y \in ProcessRecord : Marked(y)
  BY <1>3
<1>5. procs' \in [1..n -> ProcessRecord] /\ DOMAIN procs' = DOMAIN procs
  BY <1>1, <1>4
<1> QED
  BY <1>1, <1>4, <1>5 DEF Inv, Names, Kept, Gone, PortIsUp

LEMMA BackendStep ==
  ASSUME Inv, Kept, PortIsUp, port' \in Nat, UNCHANGED <<record, launch>>, alone' = alone
  PROVE  Inv'
<1>1. TypeOK' /\ Names'
  BY DEF Inv, TypeOK, Names, Kept, PortIsUp
<1>2. ASSUME alone PROVE Tracked'
  <2>1. OneAtATime' /\ RecordIsSeen'
    BY <1>2 DEF Inv, Tracked, OneAtATime, RecordIsSeen, Busy
  <2>2. DetachedIsKnown'
    BY <1>2 DEF Inv, Tracked, DetachedIsKnown, Recording, Is, Kept, Gone
  <2>3. OwnedIsKnown'
    BY <1>2 DEF Inv, Tracked, OwnedIsKnown, Kept, Gone
  <2> QED
    BY <2>1, <2>2, <2>3 DEF Tracked
<1> QED
  BY <1>1, <1>2 DEF Inv

\* A launch goes on, or is over: what it has found and what it had started is settled.
LEMMA LaunchStep ==
  ASSUME Inv, Kept, PortIsUp, UNCHANGED <<port, alone>>,
         NEW l \in Launchers, NEW y \in LaunchRecord, Becomes(l, y),
         y.phase \in {"idle", "hosted", "watching", "read", "stop", "spawn"},
         y.phase \in {"read", "stop", "spawn"} => Busy(l),
         y.phase = "spawn" => y.kind # "stop" /\ (y.kind = "app" \/ record' = None),
         launch[l].phase # "record",
         launch[l].phase \in {"ready", "owned"} /\ procs[launch[l].victim].kind = "app" => procs'[launch[l].victim].termed,
         record' \in {record, None},
         alone /\ record' # record => Busy(l) /\ (Gone(record) \/ procs'[record].killed)
  PROVE  Inv'
<1>1. /\ launch' \in [Launchers -> LaunchRecord] /\ launch'[l] = y
      /\ \A k \in Launchers \ {l} : launch'[k] = launch[k]
  BY DEF Inv, TypeOK, Becomes
<1>2. TypeOK'
  BY <1>1 DEF Inv, TypeOK, Kept, None
<1>3. Names'
  BY <1>1 DEF Inv, Names, Kept, PortIsUp
<1>4. ASSUME alone PROVE Tracked'
  <2>1. OneAtATime'
    BY <1>1, <1>4 DEF Inv, Tracked, OneAtATime, Busy
  <2>2. RecordIsSeen'
    <3>1. \A k \in Launchers \ {l} : Busy(k) => record' = record
      BY <1>4 DEF Inv, Tracked, OneAtATime
    <3> QED
      BY <1>1, <1>4, <3>1 DEF Inv, Tracked, RecordIsSeen, Busy
  <2>3. DetachedIsKnown'
    BY <1>1, <1>4 DEF Inv, Tracked, DetachedIsKnown, Recording, Is, Kept, Gone
  <2>4. OwnedIsKnown'
    <3>1. \A p \in DOMAIN procs : procs[p].parent \in Launchers
      BY RecordTypes DEF Inv, ProcessRecord
    <3> QED
      BY <1>1, <1>4, <3>1 DEF Inv, Tracked, OwnedIsKnown, Kept, Gone
  <2> QED
    BY <2>1, <2>2, <2>3, <2>4 DEF Tracked
<1> QED
  BY <1>2, <1>3, <1>4 DEF Inv

-----------------------------------------------------------------------------
(* The steps of a launch.                                                  *)

LEMMA BeginStep ==
  ASSUME Inv, NEW l \in Launchers, NEW kind \in Kinds, NEW dir \in Dirs, NEW force \in BOOLEAN,
         Begin(l, kind, dir, force)
  PROVE  Inv'
<1> DEFINE first == IF kind = "stop" THEN "stop" ELSE "read"
           y == [Idle EXCEPT !.kind = kind, !.dir = dir, !.force = force, !.phase = first]
<1>1. first \in {"stop", "read"} /\ first \in Phases
  BY Phasing
<1>2. Becomes(l, y)
  BY DEF Begin
<1> HIDE DEF first
<1>3. y \in LaunchRecord /\ y.phase = first
  BY <1>1, Idling DEF LaunchRecord
<1> HIDE DEF y
<1>4. /\ launch' \in [Launchers -> LaunchRecord] /\ launch'[l] = y
      /\ \A k \in Launchers \ {l} : launch'[k] = launch[k]
  BY <1>2, <1>3 DEF Inv, TypeOK, Becomes
<1>5. TypeOK' /\ Names'
  BY <1>1, <1>3, <1>4 DEF Inv, TypeOK, Names, Begin
<1>6. ASSUME alone' PROVE Tracked'
  <2>1. alone /\ \A k \in Launchers : ~Busy(k)
    BY <1>6 DEF Begin, Inv, TypeOK
  <2>2. OneAtATime'
    BY <1>4, <2>1 DEF OneAtATime, Busy
  <2>3. RecordIsSeen'
    BY <1>1, <1>3, <1>4, <2>1 DEF RecordIsSeen, Busy
  <2>4. DetachedIsKnown'
    BY <1>4, <2>1 DEF Inv, Tracked, DetachedIsKnown, Recording, Is, Busy, Begin, Gone
  <2>5. OwnedIsKnown'
    <3>1. \A p \in DOMAIN procs : procs[p].parent \in Launchers
      BY RecordTypes DEF Inv, ProcessRecord
    <3>2. launch[l].phase = "idle"
      BY DEF Begin, Is
    <3> QED
      BY <1>4, <2>1, <3>1, <3>2 DEF Inv, Tracked, OwnedIsKnown, Begin, Gone
  <2> QED
    BY <2>2, <2>3, <2>4, <2>5 DEF Tracked
<1> QED
  BY <1>5, <1>6 DEF Inv

\* A launch has looked at the record: what it saw is a backend, and named as long as
\* no one else is at it.
LEMMA SeenStep ==
  ASSUME Inv, Kept, PortIsUp, UNCHANGED <<record, port, alone>>,
         NEW l \in Launchers, NEW y \in LaunchRecord, Becomes(l, y), Busy(l),
         y.phase \in {"pid", "probe", "wait"},
         launch[l].phase \in {"read", "pid", "stop"},
         y.phase \in {"pid", "probe"} => y.seen \in DOMAIN procs /\ (alone => y.seen = record),
         y.phase = "wait" => y.victim \in DOMAIN procs /\ y.victim = record
  PROVE  Inv'
<1>1. /\ launch' \in [Launchers -> LaunchRecord] /\ launch'[l] = y
      /\ \A k \in Launchers \ {l} : launch'[k] = launch[k]
  BY DEF Inv, TypeOK, Becomes
<1>2. TypeOK'
  BY <1>1 DEF Inv, TypeOK, Kept
<1>3. Names'
  BY <1>1 DEF Inv, Names, Kept, PortIsUp
<1>4. ASSUME alone PROVE Tracked'
  <2>1. OneAtATime'
    BY <1>1, <1>4 DEF Inv, Tracked, OneAtATime, Busy
  <2>2. RecordIsSeen'
    BY <1>1, <1>4 DEF Inv, Tracked, RecordIsSeen
  <2>3. DetachedIsKnown'
    BY <1>1, <1>4 DEF Inv, Tracked, DetachedIsKnown, Recording, Is, Kept, Gone
  <2>4. OwnedIsKnown'
    <3>1. \A p \in DOMAIN procs : procs[p].parent \in Launchers
      BY RecordTypes DEF Inv, ProcessRecord
    <3> QED
      BY <1>1, <1>4, <3>1 DEF Inv, Tracked, OwnedIsKnown, Kept, Gone
  <2> QED
    BY <2>1, <2>2, <2>3, <2>4 DEF Tracked
<1> QED
  BY <1>2, <1>3, <1>4 DEF Inv

LEMMA ReadRecordStep ==
  ASSUME Inv, NEW l \in Launchers, ReadRecord(l)
  PROVE  Inv'
<1>1. launch[l] \in LaunchRecord /\ launch[l].phase = "read" /\ Busy(l) /\ Kept /\ PortIsUp
  BY RecordTypes, KeptUnchanged DEF Inv, ReadRecord, Is, Busy
<1>2. CASE record = None
  <2>1. Settled(Decided(launch[l], "absent", None), "absent")
    BY <1>1, DecidedFacts DEF States
  <2> QED
    BY <1>1, <1>2, <2>1, LaunchStep DEF ReadRecord, Settled
<1>3. CASE record # None
  <2> DEFINE y == [launch[l] EXCEPT !.seen = record, !.phase = "pid"]
  <2>1. "pid" \in Phases /\ record \in Nat
    BY DEF Phases, Inv, TypeOK
  <2>2. y \in LaunchRecord /\ y.phase = "pid" /\ y.seen = record
    BY <1>1, <2>1 DEF LaunchRecord
  <2> HIDE DEF y
  <2>3. Becomes(l, y)
    BY <1>3 DEF ReadRecord, y
  <2> QED
    BY <1>1, <1>3, <2>2, <2>3, SeenStep DEF Inv, Names, ReadRecord
<1> QED
  BY <1>2, <1>3

LEMMA CheckPidStep ==
  ASSUME Inv, NEW l \in Launchers, CheckPid(l)
  PROVE  Inv'
<1>1. launch[l] \in LaunchRecord /\ launch[l].phase = "pid" /\ Busy(l) /\ Kept /\ PortIsUp
  BY RecordTypes, KeptUnchanged DEF Inv, CheckPid, Is, Busy
<1>2. CASE Gone(launch[l].seen)
  <2>1. Settled(Decided(launch[l], "stale", None), "stale")
    BY <1>1, DecidedFacts DEF States
  <2>2. alone => Gone(record)
    BY <1>1, <1>2 DEF Inv, Tracked, RecordIsSeen
  <2> QED
    BY <1>1, <1>2, <2>1, <2>2, LaunchStep DEF CheckPid, Settled
<1>3. CASE ~Gone(launch[l].seen)
  <2> DEFINE y == [launch[l] EXCEPT !.phase = "probe"]
  <2>1. "probe" \in Phases
    BY DEF Phases
  <2>2. y \in LaunchRecord /\ y.phase = "probe" /\ y.seen = launch[l].seen
    BY <1>1, <2>1 DEF LaunchRecord
  <2>3. Becomes(l, y)
    BY <1>3 DEF CheckPid
  <2> HIDE DEF y
  <2>4. y.seen \in DOMAIN procs /\ (alone => y.seen = record)
    BY <1>1, <2>2 DEF Inv, Names, Tracked, RecordIsSeen
  <2> QED
    BY <1>1, <1>3, <2>2, <2>3, <2>4, SeenStep DEF CheckPid
<1> QED
  BY <1>2, <1>3

LEMMA ProbeStates == ProbeState \in States \ {"absent"}
BY DEF ProbeState, States

LEMMA ProbeStep ==
  ASSUME Inv, NEW l \in Launchers, Probe(l)
  PROVE  Inv'
<1>1. launch[l] \in LaunchRecord /\ launch[l].phase = "probe" /\ Busy(l) /\ Kept /\ PortIsUp
  BY RecordTypes, KeptUnchanged DEF Inv, Probe, Is, Busy
<1>2. Settled(Decided(launch[l], ProbeState, AnsweringDir), ProbeState)
  BY <1>1, DecidedFacts, ProbeStates
<1> QED
  BY <1>1, <1>2, ProbeStates, LaunchStep DEF Probe, Settled

LEMMA StopStep ==
  ASSUME Inv, NEW l \in Launchers, Stop(l)
  PROVE  Inv'
<1>1. launch[l] \in LaunchRecord /\ launch[l].phase = "stop" /\ Busy(l)
  BY RecordTypes DEF Inv, Stop, Is, Busy
<1>2. CASE record = None \/ Gone(record)
  <2>1. Kept /\ PortIsUp
    BY <1>2, KeptUnchanged DEF Stop
  <2> QED
    BY <1>1, <1>2, <2>1, PreparedFacts, LaunchStep DEF Stop
<1>3. CASE ~(record = None \/ Gone(record))
  <2> DEFINE y == [launch[l] EXCEPT !.phase = "wait", !.victim = record]
  <2>1. "wait" \in Phases /\ record \in Nat /\ record \in DOMAIN procs
    BY <1>3 DEF Phases, Inv, TypeOK, Names
  <2>2. y \in LaunchRecord /\ y.phase = "wait" /\ y.victim = record
    BY <1>1, <2>1 DEF LaunchRecord
  <2>3. Becomes(l, y)
    BY <1>3 DEF Stop
  <2> HIDE DEF y
  <2>4. Kept /\ PortIsUp
    BY <1>3, <2>1, KeptMarked DEF Stop
  <2> QED
    BY <1>1, <1>3, <2>1, <2>2, <2>3, <2>4, SeenStep DEF Stop
<1> QED
  BY <1>2, <1>3

LEMMA StopEndsStep ==
  ASSUME Inv, NEW l \in Launchers, StopEnds(l)
  PROVE  Inv'
<1>1. launch[l] \in LaunchRecord /\ launch[l].phase = "wait" /\ Busy(l)
  BY RecordTypes DEF Inv, StopEnds, Is, Busy
<1>2. launch[l].victim \in DOMAIN procs
  BY <1>1 DEF Inv, Names
<1>3. Kept /\ PortIsUp
  BY <1>2, KeptUnchanged, KeptMarked DEF StopEnds
<1>4. Gone(launch[l].victim) \/ procs'[launch[l].victim].killed
  <2>1. procs[launch[l].victim] \in ProcessRecord
    BY <1>2, RecordTypes DEF Inv
  <2> QED
    BY <1>2, <2>1 DEF StopEnds, ProcessRecord, Inv, TypeOK
<1>5. alone => record = launch[l].victim
  BY <1>1 DEF Inv, Tracked, RecordIsSeen
<1> QED
  BY <1>1, <1>3, <1>4, <1>5, PreparedFacts, LaunchStep DEF StopEnds

\* A backend is started, by a launch that is alone at it and knows of no other.
LEMMA StartedStep ==
  ASSUME Inv, NEW l \in Launchers, Is(l, "spawn"), NEW phase \in {"record", "ready"},
         Started(l, phase), UNCHANGED <<record, port, alone>>,
         launch[l].kind = "detached" <=> phase = "record"
  PROVE  Inv'
<1>1. PICK n \in Nat : procs \in [1..n -> ProcessRecord]
  BY DEF Inv, TypeOK
<1> DEFINE p == n + 1
           q == [kind |-> launch[l].kind, dir |-> launch[l].dir, state |-> "starting", health |-> "ok",
                 termed |-> FALSE, killed |-> FALSE, parent |-> l]
           y == [launch[l] EXCEPT !.phase = phase, !.victim = p]
<1>2. Cardinality(DOMAIN procs) + 1 = p
  <2>1. DOMAIN procs = 1..n
    BY <1>1
  <2>2. Cardinality(1..n) = n
    BY FS_Interval
  <2> QED
    BY <2>1, <2>2
<1>3. launch[l] \in LaunchRecord /\ launch[l].kind # "stop"
  BY RecordTypes DEF Inv, Names, Is
<1>4. q \in ProcessRecord
  BY <1>3 DEF ProcessRecord, LaunchRecord, Kinds
<1>5. y \in LaunchRecord /\ y.phase = phase /\ y.victim = p /\ y.kind = launch[l].kind
  <2>1. phase \in Phases /\ p \in Nat
    BY DEF Phases
  <2> HIDE DEF p
  <2> QED
    BY <1>3, <2>1 DEF LaunchRecord
<1>6. Becomes(l, y) /\ procs' = [r \in DOMAIN procs \cup {p} |-> IF r # p THEN procs[r] ELSE q]
  BY <1>2 DEF Started
<1>7. q.kind = launch[l].kind /\ q.parent = l /\ q.state = "starting"
  OBVIOUS
<1> HIDE DEF q, y
<1>8. /\ DOMAIN procs = 1..n /\ DOMAIN procs' = 1..p /\ p \in Nat /\ p \notin DOMAIN procs
      /\ procs' \in [1..p -> ProcessRecord]
      /\ procs'[p] = q
      /\ \A r \in DOMAIN procs : procs'[r] = procs[r]
  <2>1. DOMAIN procs = 1..n
    BY <1>1
  <2>2. 1..p = 1..n \cup {p} /\ p \in Nat /\ p \notin 1..n
    OBVIOUS
  <2> HIDE DEF p
  <2> QED
    BY <1>1, <1>4, <1>6, <2>1, <2>2
<1> HIDE DEF p
<1>9. /\ launch' \in [Launchers -> LaunchRecord] /\ launch'[l] = y
      /\ \A k \in Launchers \ {l} : launch'[k] = launch[k]
  BY <1>5, <1>6 DEF Inv, TypeOK, Becomes
<1>10. TypeOK'
  BY <1>8, <1>9 DEF Inv, TypeOK
<1>11. DOMAIN procs \subseteq DOMAIN procs' /\ p \in DOMAIN procs' /\ DOMAIN procs' = DOMAIN procs \cup {p}
  BY <1>6, <1>8
<1>12. Names'
  BY <1>5, <1>7, <1>8, <1>9, <1>11 DEF Inv, Names
<1>13. ASSUME alone PROVE Tracked'
  <2>1. OneAtATime'
    BY <1>5, <1>9, <1>13 DEF Inv, Tracked, OneAtATime, Busy, Is
  <2>2. RecordIsSeen'
    BY <1>5, <1>9, <1>13 DEF Inv, Tracked, RecordIsSeen, Is
  <2>3. DetachedIsKnown'
    <3>1. launch[l].kind = "detached" => Recording(p)'
      BY <1>5, <1>9 DEF Recording, Is
    <3>2. \A r \in DOMAIN procs : Recording(r) => Recording(r)'
      BY <1>9 DEF Recording, Is
    <3> QED
      BY <1>7, <1>8, <1>11, <1>13, <3>1, <3>2 DEF Inv, Tracked, DetachedIsKnown, Gone
  <2>4. OwnedIsKnown'
    <3>1. \A r \in DOMAIN procs : procs[r].parent \in Launchers
      BY RecordTypes DEF Inv, ProcessRecord
    <3>2. launch[l].kind = "app" => launch'[l].phase = "ready" /\ launch'[l].victim = p
      BY <1>5, <1>9
    <3> QED
      BY <1>7, <1>8, <1>9, <1>11, <1>13, <3>1, <3>2 DEF Inv, Tracked, OwnedIsKnown, Gone, Is
  <2> QED
    BY <2>1, <2>2, <2>3, <2>4 DEF Tracked
<1> QED
  BY <1>10, <1>12, <1>13 DEF Inv

LEMMA SpawnStep ==
  ASSUME Inv, NEW l \in Launchers, Spawn(l)
  PROVE  Inv'
<1>1. launch[l] \in LaunchRecord /\ launch[l].phase = "spawn"
  BY RecordTypes DEF Inv, Spawn, Is
<1>2. CASE PortInUse
  <2>1. Kept /\ PortIsUp
    BY <1>2, KeptUnchanged DEF Spawn
  <2> QED
    BY <1>1, <1>2, <2>1, Idling, LaunchStep DEF Spawn
<1>3. CASE ~PortInUse
  <2>1. CASE launch[l].kind = "detached"
    BY <1>3, <2>1, StartedStep DEF Spawn
  <2>2. CASE launch[l].kind # "detached"
    BY <1>3, <2>2, StartedStep DEF Spawn
  <2> QED
    BY <2>1, <2>2
<1> QED
  BY <1>2, <1>3

LEMMA SpawnOwnedStep ==
  ASSUME Inv, NEW l \in Launchers, SpawnOwned(l)
  PROVE  Inv'
BY StartedStep DEF SpawnOwned

LEMMA WriteRecordStep ==
  ASSUME Inv, NEW l \in Launchers, WriteRecord(l)
  PROVE  Inv'
<1> DEFINE y == [launch[l] EXCEPT !.phase = "ready"]
<1>1. launch[l] \in LaunchRecord /\ launch[l].phase = "record"
  BY RecordTypes DEF Inv, WriteRecord, Is
<1>2. "ready" \in Phases
  BY DEF Phases
<1>3. y \in LaunchRecord /\ y.phase = "ready" /\ y.victim = launch[l].victim /\ y.kind = launch[l].kind
  BY <1>1, <1>2 DEF LaunchRecord
<1>4. Becomes(l, y)
  BY DEF WriteRecord
<1> HIDE DEF y
<1>5. /\ launch' \in [Launchers -> LaunchRecord] /\ launch'[l] = y
      /\ \A k \in Launchers \ {l} : launch'[k] = launch[k]
  BY <1>3, <1>4 DEF Inv, TypeOK, Becomes
<1>6. record' = launch[l].victim /\ record' \in DOMAIN procs /\ record' \in Nat
  BY <1>1 DEF WriteRecord, Inv, Names, LaunchRecord
<1>7. TypeOK' /\ Names'
  BY <1>1, <1>3, <1>5, <1>6 DEF WriteRecord, Inv, TypeOK, Names
<1>8. ASSUME alone PROVE Tracked'
  <2>1. \A k \in Launchers : Busy(k) => k = l
    BY <1>1, <1>8 DEF Inv, Tracked, OneAtATime, Busy
  <2>2. OneAtATime'
    BY <1>5, <2>1 DEF OneAtATime, Busy
  <2>3. RecordIsSeen'
    BY <1>3, <1>5, <2>1 DEF RecordIsSeen, Busy
  <2>4. DetachedIsKnown'
    <3>1. record \notin DOMAIN procs
      BY <1>1, <1>8, RecordTypes DEF Inv, Tracked, RecordIsSeen
    <3>2. \A p \in DOMAIN procs : Recording(p) => p = record'
      BY <1>6, <2>1 DEF Recording, Is, Busy
    <3> QED
      BY <1>8, <3>1, <3>2 DEF WriteRecord, Inv, Tracked, DetachedIsKnown, Gone
  <2>5. OwnedIsKnown'
    <3>1. \A p \in DOMAIN procs : procs[p].parent \in Launchers
      BY RecordTypes DEF Inv, ProcessRecord
    <3> QED
      BY <1>1, <1>5, <1>8, <3>1 DEF WriteRecord, Inv, Tracked, OwnedIsKnown, Gone
  <2> QED
    BY <2>2, <2>3, <2>4, <2>5 DEF Tracked
<1> QED
  BY <1>7, <1>8 DEF Inv, WriteRecord

LEMMA ReadyStep ==
  ASSUME Inv, NEW l \in Launchers, Ready(l)
  PROVE  Inv'
<1>1. launch[l] \in LaunchRecord /\ launch[l].phase = "ready" /\ Kept /\ PortIsUp
  BY RecordTypes, KeptUnchanged DEF Inv, Ready, Is
<1>2. procs[launch[l].victim].kind # "app"
  BY <1>1 DEF Inv, Names, Ready
<1> QED
  BY <1>1, <1>2, OpenFacts, LaunchStep DEF Ready

LEMMA ReadyOwnedStep ==
  ASSUME Inv, NEW l \in Launchers, ReadyOwned(l)
  PROVE  Inv'
<1> DEFINE y == Open(launch[l], "owned")
<1>1. launch[l] \in LaunchRecord /\ launch[l].phase = "ready"
  BY RecordTypes DEF Inv, ReadyOwned, Is
<1>2. y \in LaunchRecord /\ y.phase = "owned" /\ y.victim = launch[l].victim
  BY <1>1, OpenFacts
<1>3. Becomes(l, y)
  BY DEF ReadyOwned
<1> HIDE DEF y
<1>4. /\ launch' \in [Launchers -> LaunchRecord] /\ launch'[l] = y
      /\ \A k \in Launchers \ {l} : launch'[k] = launch[k]
  BY <1>2, <1>3 DEF Inv, TypeOK, Becomes
<1>5. TypeOK' /\ Names'
  BY <1>1, <1>2, <1>4 DEF ReadyOwned, Inv, TypeOK, Names
<1>6. ASSUME alone PROVE Tracked'
  <2>1. OneAtATime' /\ RecordIsSeen'
    BY <1>2, <1>4, <1>6 DEF ReadyOwned, Inv, Tracked, OneAtATime, RecordIsSeen, Busy
  <2>2. DetachedIsKnown'
    BY <1>1, <1>4, <1>6 DEF ReadyOwned, Inv, Tracked, DetachedIsKnown, Recording, Is, Gone
  <2>3. OwnedIsKnown'
    <3>1. \A p \in DOMAIN procs : procs[p].parent \in Launchers
      BY RecordTypes DEF Inv, ProcessRecord
    <3> QED
      BY <1>2, <1>4, <1>6, <3>1 DEF ReadyOwned, Inv, Tracked, OwnedIsKnown, Gone
  <2> QED
    BY <2>1, <2>2, <2>3 DEF Tracked
<1> QED
  BY <1>5, <1>6 DEF Inv, ReadyOwned

LEMMA NotReadyStep ==
  ASSUME Inv, NEW l \in Launchers, NotReady(l)
  PROVE  Inv'
<1>1. launch[l] \in LaunchRecord /\ launch[l].phase = "ready"
  BY RecordTypes DEF Inv, NotReady, Is
<1>2. /\ launch[l].victim \in DOMAIN procs
      /\ procs[launch[l].victim].kind = launch[l].kind
  BY <1>1 DEF Inv, Names
<1>3. Kept /\ PortIsUp
  BY <1>2, KeptUnchanged, KeptMarked DEF NotReady
<1>4. procs[launch[l].victim].kind = "app" => procs'[launch[l].victim].termed
  <2>1. procs[launch[l].victim] \in ProcessRecord
    BY <1>2, RecordTypes DEF Inv
  <2> QED
    BY <1>2, <2>1 DEF NotReady, ProcessRecord, Inv, TypeOK
<1> QED
  BY <1>1, <1>3, <1>4, Idling, LaunchStep DEF NotReady

-----------------------------------------------------------------------------
(* The steps of windows.                                                   *)

LEMMA LoadStep ==
  ASSUME Inv, NEW l \in Launchers, Load(l)
  PROVE  Inv'
<1>1. launch[l] \in LaunchRecord /\ launch[l].phase = "hosted" /\ Kept /\ PortIsUp
  BY RecordTypes, KeptUnchanged DEF Inv, Load, Is
<1>2. "watching" \in Phases
  BY DEF Phases
<1>3. /\ [launch[l] EXCEPT !.phase = "watching"] \in LaunchRecord
      /\ [launch[l] EXCEPT !.phase = "watching"].phase = "watching"
  BY <1>1, <1>2 DEF LaunchRecord
<1> QED
  BY <1>1, <1>3, LaunchStep DEF Load

LEMMA PollStep ==
  ASSUME Inv, NEW l \in Launchers, Poll(l)
  PROVE  Inv'
<1>1. launch[l] \in LaunchRecord /\ launch[l].phase = "watching" /\ Kept /\ PortIsUp
  BY RecordTypes, KeptUnchanged DEF Inv, Poll, Is
<1>2. /\ [launch[l] EXCEPT !.fails = 0] \in LaunchRecord
      /\ [launch[l] EXCEPT !.fails = 0].phase = "watching"
  BY <1>1 DEF LaunchRecord
<1>3. /\ [launch[l] EXCEPT !.fails = @ + 1] \in LaunchRecord
      /\ [launch[l] EXCEPT !.fails = @ + 1].phase = "watching"
  BY <1>1 DEF LaunchRecord
<1>4. PICK y \in LaunchRecord : Becomes(l, y) /\ y.phase \in {"idle", "watching"}
  BY <1>1, <1>2, <1>3, Idling DEF Poll
<1> QED
  BY <1>1, <1>4, LaunchStep DEF Poll

LEMMA CloseStep ==
  ASSUME Inv, NEW l \in Launchers, Close(l)
  PROVE  Inv'
<1>1. launch[l] \in LaunchRecord /\ launch[l].phase \in {"hosted", "watching", "owned"}
  BY RecordTypes DEF Inv, Close
<1>2. launch[l].phase = "owned" => launch[l].victim \in DOMAIN procs
  BY DEF Inv, Names
<1>3. Kept /\ PortIsUp
  BY <1>2, KeptUnchanged, KeptMarked DEF Close, Is
<1>4. launch[l].phase = "owned" => procs'[launch[l].victim].termed
  <2>1. launch[l].phase = "owned" => procs[launch[l].victim] \in ProcessRecord
    BY <1>2, RecordTypes DEF Inv
  <2> QED
    BY <1>2, <2>1 DEF Close, Is, ProcessRecord, Inv, TypeOK
<1> QED
  BY <1>1, <1>3, <1>4, Idling, LaunchStep DEF Close

LEMMA DieStep ==
  ASSUME Inv, NEW l \in Launchers, Die(l)
  PROVE  Inv'
<1> DEFINE taken(p) == procs[p].kind = "foreground" /\ procs[p].parent = l /\ Is(l, "ready")
<1>1. PICK n \in Nat : procs \in [1..n -> ProcessRecord]
  BY DEF Inv, TypeOK
<1>2. procs' = [p \in DOMAIN procs |-> IF taken(p) THEN [procs[p] EXCEPT !.killed = TRUE] ELSE procs[p]]
  BY DEF Die
<1>3. \A p \in DOMAIN procs : /\ [procs[p] EXCEPT !.killed = TRUE] \in ProcessRecord
                              /\ [procs[p] EXCEPT !.killed = TRUE].kind = procs[p].kind
                              /\ [procs[p] EXCEPT !.killed = TRUE].state = procs[p].state
  <2> SUFFICES ASSUME NEW p \in DOMAIN procs
               PROVE  LET q == [procs[p] EXCEPT !.killed = TRUE] IN
                      q \in ProcessRecord /\ q.kind = procs[p].kind /\ q.state = procs[p].state
    OBVIOUS
  <2>1. procs[p] \in ProcessRecord
    BY <1>1
  <2> QED
    BY <2>1 DEF ProcessRecord
<1> HIDE DEF taken
<1>4. /\ procs' \in [1..n -> ProcessRecord] /\ DOMAIN procs' = DOMAIN procs
      /\ \A p \in DOMAIN procs : procs'[p].kind = procs[p].kind /\ procs'[p].state = procs[p].state
  BY <1>1, <1>2, <1>3
<1>5. /\ launch' \in [Launchers -> LaunchRecord] /\ launch'[l] = Idle
      /\ \A k \in Launchers \ {l} : launch'[k] = launch[k]
  BY Idling DEF Die, Becomes, Inv, TypeOK
<1>6. TypeOK'
  BY <1>4, <1>5 DEF Die, Inv, TypeOK
<1>7. Names'
  BY <1>4, <1>5, Idling DEF Die, Inv, Names
<1> QED
  BY <1>6, <1>7 DEF Die, Inv

-----------------------------------------------------------------------------
(* The steps of backends.                                                  *)

\* A backend moves on to a state it has not had, and never comes back from gone.
LEMMA StateStep ==
  ASSUME Inv, NEW p \in DOMAIN procs, NEW to \in {"up", "gone"}, Gone(p) => to = "gone",
         procs' = [procs EXCEPT ![p].state = to],
         port' = IF to = "up" THEN p ELSE IF port = p THEN None ELSE port,
         UNCHANGED <<record, launch>>, alone' = alone
  PROVE  Inv'
<1>1. PICK n \in Nat : procs \in [1..n -> ProcessRecord]
  BY DEF Inv, TypeOK
<1> DEFINE q == [procs[p] EXCEPT !.state = to]
<1>2. /\ q \in ProcessRecord /\ q.kind = procs[p].kind /\ q.parent = procs[p].parent /\ q.state = to
      /\ q.termed = procs[p].termed /\ q.killed = procs[p].killed
  <2>1. procs[p] \in ProcessRecord
    BY <1>1
  <2> QED
    BY <2>1 DEF ProcessRecord
<1>3. procs' = [procs EXCEPT ![p] = q]
  OBVIOUS
<1> HIDE DEF q
<1>4. /\ procs' \in [1..n -> ProcessRecord] /\ DOMAIN procs' = DOMAIN procs /\ procs'[p] = q
      /\ \A r \in DOMAIN procs \ {p} : procs'[r] = procs[r]
  BY <1>1, <1>2, <1>3
<1>5. Kept
  BY <1>2, <1>4 DEF Kept, Gone
<1>6. PortIsUp /\ port' \in Nat
  BY <1>2, <1>4, RecordTypes DEF PortIsUp, Inv, TypeOK, Names, None
<1> QED
  BY <1>5, <1>6, BackendStep

LEMMA LeaveStep ==
  ASSUME Inv, NEW p \in DOMAIN procs, Leave(p), alone' = alone
  PROVE  Inv'
BY StateStep DEF Leave

LEMMA BindStep ==
  ASSUME Inv, NEW p \in DOMAIN procs, Bind(p)
  PROVE  Inv'
<1>1. ~Gone(p) /\ port # p
  BY RecordTypes DEF Bind, Gone, Inv, Names
<1>2. CASE port = None
  BY <1>1, <1>2, StateStep DEF Bind
<1>3. CASE port # None
  BY <1>1, <1>3, StateStep DEF Bind
<1> QED
  BY <1>2, <1>3

LEMMA AilStep ==
  ASSUME Inv, NEW p \in DOMAIN procs, NEW health \in {"ok", "hung", "failing"}, Ail(p, health)
  PROVE  Inv'
<1>1. Kept /\ PortIsUp
  BY KeptMarked DEF Ail
<1> QED
  BY <1>1, BackendStep DEF Ail, Inv, TypeOK

-----------------------------------------------------------------------------
LEMMA InitHolds ==
  ASSUME Init
  PROVE  Inv
<1>1. 0 \in Nat /\ 1..0 = {} /\ procs \in [1..0 -> ProcessRecord]
  BY DEF Init
<1>2. TypeOK /\ Names
  BY <1>1, Idling DEF Init, TypeOK, Names, None
<1>3. OneAtATime /\ RecordIsSeen /\ DetachedIsKnown /\ OwnedIsKnown
  BY Idling DEF Init, OneAtATime, RecordIsSeen, DetachedIsKnown, OwnedIsKnown, Busy
<1> QED
  BY <1>2, <1>3 DEF Inv, Tracked

LEMMA Inductive ==
  ASSUME Inv, [Next]_vars
  PROVE  Inv'
<1>1. ASSUME NEW l \in Launchers, NEW kind \in Kinds, NEW dir \in Dirs, NEW force \in BOOLEAN,
             Begin(l, kind, dir, force)
      PROVE  Inv'
  BY <1>1, BeginStep
<1>2. ASSUME NEW l \in Launchers, ReadRecord(l) \/ CheckPid(l) \/ Probe(l) \/ Stop(l) \/ StopEnds(l)
      PROVE  Inv'
  BY <1>2, ReadRecordStep, CheckPidStep, ProbeStep, StopStep, StopEndsStep
<1>3. ASSUME NEW l \in Launchers, Spawn(l) \/ SpawnOwned(l) \/ WriteRecord(l) \/ Ready(l) \/ ReadyOwned(l) \/ NotReady(l)
      PROVE  Inv'
  BY <1>3, SpawnStep, SpawnOwnedStep, WriteRecordStep, ReadyStep, ReadyOwnedStep, NotReadyStep
<1>4. ASSUME NEW l \in Launchers, Load(l) \/ Poll(l) \/ Close(l) \/ Die(l)
      PROVE  Inv'
  BY <1>4, LoadStep, PollStep, CloseStep, DieStep
<1>5. ASSUME NEW p \in DOMAIN procs, Bind(p) \/ Exit(p) \/ Crash(p)
      PROVE  Inv'
  BY <1>5, BindStep, LeaveStep DEF Exit, Crash
<1>6. ASSUME NEW p \in DOMAIN procs, NEW health \in {"ok", "hung", "failing"}, Ail(p, health)
      PROVE  Inv'
  BY <1>6, AilStep
<1>7. CASE UNCHANGED vars
  <2>1. Kept /\ PortIsUp
    BY <1>7, KeptUnchanged DEF vars
  <2> QED
    BY <1>7, <2>1, BackendStep DEF vars, Inv, TypeOK
<1> QED
  BY <1>1, <1>2, <1>3, <1>4, <1>5, <1>6, <1>7 DEF Next

LEMMA InvHolds == Spec => []Inv
<1>1. Init => Inv
  BY InitHolds
<1>2. Inv /\ [Next]_vars => Inv'
  BY Inductive
<1> QED
  BY <1>1, <1>2, PTL DEF Spec

\* The variables keep their types, whatever runs at the same time.
THEOREM TypeTheorem == Spec => []TypeOK
<1>1. Inv => TypeOK
  BY DEF Inv
<1> QED
  BY <1>1, InvHolds, PTL

\* However many commands and apps come and go one after the other, recover records, take
\* directories over, give up on slow starts and have to kill what they stop: a backend
\* that holds the channel's port is in the record (or about to be), or was killed, and
\* one an app started is told to stop before its app is gone.
THEOREM DesktopTheorem == Spec => []DesktopKeepsTrack
<1>1. Inv => DesktopKeepsTrack
  <2> SUFFICES ASSUME Inv
               PROVE  DesktopKeepsTrack
    OBVIOUS
  <2>1. PortIsReclaimable
    BY DEF Inv, Names, Tracked, DetachedIsKnown, Recording, PortIsReclaimable, Gone
  <2>2. OwnedIsStopped
    BY DEF Inv, Tracked, OwnedIsKnown, OwnedIsStopped
  <2> QED
    BY <2>1, <2>2 DEF DesktopKeepsTrack
<1> QED
  BY <1>1, InvHolds, PTL
-----------------------------------------------------------------------------
(* Launch: any number of launches and ports.                               *)

LaunchPhases == {"new", "planned", "home", "context", "attempt", "waiting", "ready", "running",
                 "alone", "leased", "over", "killed"}
Hows == L!Commands \cup {"managed", "shared"}
Ends == {"none", "no home", "failed", "stopped", "unspawned"}

CapturedRecord ==
  [how : Hows, phase : LaunchPhases, attempt : Nat, port : Ports, log : BOOLEAN,
   signal : BOOLEAN, end : Ends]

LaunchTypeOK ==
  /\ captured \in [Launches -> CapturedRecord]
  /\ left \in [Launches -> SUBSET {"home", "lock", "manifest", "handlers", "cbreak", "registration"}]
  /\ proxy \in [Launches -> {"none", "starting", "up", "lost", "dead"}]
  /\ at \in [Ports -> Launches \cup {"nobody", "listener", "holder"}]
  /\ listing \subseteq Launches

HasProxy(l) == proxy[l] \in {"starting", "up"}

\* What there is of a launch at each of its phases: a preparation has at most its home, what
\* follows it holds the lock, and what is over has nothing.
LeftByPhase(l) ==
  /\ captured[l].phase \in {"new", "planned"} => left[l] = {}
  /\ captured[l].phase \in {"home", "context"} => left[l] \subseteq {"home"}
  /\ captured[l].phase \in {"attempt", "waiting", "ready", "running", "alone", "leased"} => "lock" \in left[l]
  /\ L!Is(l, "over") => left[l] \subseteq IF captured[l].end = "no home" THEN {"home"} ELSE {}

\* Only a launch between its attempt and its end, or one whose client could not be spawned
\* or that was killed, has a proxy.
ProxyByPhase(l) ==
  /\ captured[l].phase \in {"new", "planned", "home", "context", "attempt"} => ~HasProxy(l)
  /\ L!Is(l, "over") /\ captured[l].end # "unspawned" => ~HasProxy(l)

\* A port names a launch as its listener only while that launch's proxy is up, on it.
ListensAt(l) == \A p \in Ports : at[p] = l => proxy[l] = "up" /\ captured[l].port = p

LaunchRules == \A l \in Launches : LeftByPhase(l) /\ ProxyByPhase(l) /\ ListensAt(l)
LaunchInv == LaunchTypeOK /\ LaunchRules
LEMMA LaunchInitHolds == L!Init => LaunchInv
BY LaunchAssumption DEF L!Init, L!Commands, LaunchInv, LaunchTypeOK, LaunchRules, LeftByPhase, ProxyByPhase,
     ListensAt, HasProxy, CapturedRecord, Hows, LaunchPhases, Ends, L!Is

\* A step of one launch l: what it makes of l is fine, the others keep what is theirs, and a
\* port changes hands only to or from l, or between those who are no launches.
LEMMA OneLaunchSteps ==
  ASSUME LaunchInv, NEW l \in Launches, LaunchTypeOK',
         \A k \in Launches \ {l} : captured'[k] = captured[k] /\ left'[k] = left[k] /\ proxy'[k] = proxy[k],
         \A p \in Ports : at'[p] \in Launches \ {l} => at'[p] = at[p],
         LeftByPhase(l)', ProxyByPhase(l)', ListensAt(l)'
  PROVE  LaunchInv'
<1> SUFFICES ASSUME NEW k \in Launches, k # l
             PROVE  (LeftByPhase(k) /\ ProxyByPhase(k) /\ ListensAt(k))'
  BY DEF LaunchInv, LaunchRules
<1>1. LeftByPhase(k)' /\ ProxyByPhase(k)'
  BY DEF LaunchInv, LaunchRules, LeftByPhase, ProxyByPhase, HasProxy, L!Is
<1>2. ListensAt(k)'
  BY DEF LaunchInv, LaunchRules, ListensAt
<1> QED
  BY <1>1, <1>2

\* terminate_all: the proxy of l is no longer there, and no port is its own.
LEMMA TerminatedEnds ==
  ASSUME LaunchTypeOK, NEW l \in Launches, L!Terminated(l)
  PROVE  /\ proxy' \in [Launches -> {"none", "starting", "up", "lost", "dead"}]
         /\ at' \in [Ports -> Launches \cup {"nobody", "listener", "holder"}]
         /\ ~HasProxy(l)'
         /\ \A k \in Launches \ {l} : proxy'[k] = proxy[k]
         /\ \A p \in Ports : at'[p] # l /\ (at'[p] \in Launches \ {l} => at'[p] = at[p])
BY LaunchAssumption DEF LaunchTypeOK, L!Terminated, HasProxy

LEMMA CapturedTypes ==
  ASSUME NEW x \in CapturedRecord
  PROVE  /\ \A phase \in LaunchPhases : [x EXCEPT !.phase = phase] \in CapturedRecord
         /\ \A phase \in LaunchPhases, end \in Ends : [x EXCEPT !.phase = phase, !.end = end] \in CapturedRecord
         /\ \A phase \in LaunchPhases : [x EXCEPT !.phase = phase, !.attempt = @ + 1] \in CapturedRecord
         /\ \A phase \in LaunchPhases, p \in Ports : [x EXCEPT !.phase = phase, !.port = p] \in CapturedRecord
         /\ \A how \in Hows, p \in Ports, phase \in LaunchPhases :
              [x EXCEPT !.how = how, !.port = p, !.phase = phase] \in CapturedRecord
         /\ [x EXCEPT !.log = TRUE] \in CapturedRecord
         /\ [x EXCEPT !.signal = TRUE] \in CapturedRecord
<1>1. \A phase \in LaunchPhases : [x EXCEPT !.phase = phase] \in CapturedRecord
  BY DEF CapturedRecord
<1>2. \A phase \in LaunchPhases, end \in Ends : [x EXCEPT !.phase = phase, !.end = end] \in CapturedRecord
  BY DEF CapturedRecord
<1>3. \A phase \in LaunchPhases : [x EXCEPT !.phase = phase, !.attempt = @ + 1] \in CapturedRecord
  <2>1. \A n \in Nat, phase \in LaunchPhases : [x EXCEPT !.phase = phase, !.attempt = n] \in CapturedRecord
    BY DEF CapturedRecord
  <2>2. x.attempt + 1 \in Nat
    BY DEF CapturedRecord
  <2> QED
    BY <2>1, <2>2
<1>4. \A phase \in LaunchPhases, p \in Ports : [x EXCEPT !.phase = phase, !.port = p] \in CapturedRecord
  BY DEF CapturedRecord
<1>5. \A how \in Hows, p \in Ports, phase \in LaunchPhases :
        [x EXCEPT !.how = how, !.port = p, !.phase = phase] \in CapturedRecord
  BY DEF CapturedRecord
<1>6. [x EXCEPT !.log = TRUE] \in CapturedRecord /\ [x EXCEPT !.signal = TRUE] \in CapturedRecord
  BY DEF CapturedRecord
<1> QED
  BY <1>1, <1>2, <1>3, <1>4, <1>5, <1>6

LEMMA OverKeeps ==
  ASSUME LaunchInv, NEW l \in Launches, NEW end \in {"failed", "stopped"}, L!Over(l, end)
  PROVE  LaunchInv'
<1>1. LaunchTypeOK'
  <2>1. captured[l] \in CapturedRecord /\ "over" \in LaunchPhases /\ end \in Ends
    BY DEF LaunchInv, LaunchTypeOK, LaunchPhases, Ends
  <2>2. captured' = [captured EXCEPT ![l] = [captured[l] EXCEPT !.phase = "over", !.end = end]]
    BY DEF L!Over
  <2>3. captured' \in [Launches -> CapturedRecord]
    BY <2>1, <2>2, CapturedTypes DEF LaunchInv, LaunchTypeOK
  <2> QED
    BY <2>3, TerminatedEnds DEF LaunchInv, LaunchTypeOK, L!Over
<1>2. (LeftByPhase(l) /\ ProxyByPhase(l) /\ ListensAt(l))'
  BY TerminatedEnds DEF LaunchInv, LaunchTypeOK, L!Over, LeftByPhase, ProxyByPhase, ListensAt, L!Is, CapturedRecord
<1>3. \A k \in Launches \ {l} : captured'[k] = captured[k] /\ left'[k] = left[k] /\ proxy'[k] = proxy[k]
  BY TerminatedEnds DEF LaunchInv, LaunchTypeOK, L!Over
<1>4. \A p \in Ports : at'[p] \in Launches \ {l} => at'[p] = at[p]
  BY TerminatedEnds DEF LaunchInv, L!Over
<1> QED
  BY <1>1, <1>2, <1>3, <1>4, OneLaunchSteps

\* The record of l changes, and perhaps what is left of it; no proxy and no port do.
LEMMA RecordGoes ==
  ASSUME LaunchInv, NEW l \in Launches, NEW x \in CapturedRecord, NEW S, UNCHANGED <<proxy, at, listing>>,
         captured' = [captured EXCEPT ![l] = x], left' = [left EXCEPT ![l] = S],
         x.port = captured[l].port \/ ~HasProxy(l),
         S \subseteq {"home", "lock", "manifest", "handlers", "cbreak", "registration"},
         LeftByPhase(l)', ProxyByPhase(l)'
  PROVE  LaunchInv'
<1>1. LaunchTypeOK'
  BY DEF LaunchInv, LaunchTypeOK
<1>2. \A k \in Launches \ {l} : captured'[k] = captured[k] /\ left'[k] = left[k] /\ proxy'[k] = proxy[k]
  BY DEF LaunchInv, LaunchTypeOK
<1>3. ListensAt(l)'
  BY DEF LaunchInv, LaunchTypeOK, LaunchRules, ListensAt, HasProxy
<1> QED
  BY <1>1, <1>2, <1>3, OneLaunchSteps

\* The phase of l, and how it ended, change, and perhaps what is left of it.
LEMMA PhaseGoes ==
  ASSUME LaunchInv, NEW l \in Launches, NEW phase \in LaunchPhases, NEW end \in Ends, NEW S,
         captured' = [captured EXCEPT ![l] = [captured[l] EXCEPT !.phase = phase, !.end = end]],
         left' = [left EXCEPT ![l] = S], UNCHANGED <<proxy, at, listing>>,
         S \subseteq {"home", "lock", "manifest", "handlers", "cbreak", "registration"},
         phase \in {"new", "planned"} => S = {},
         phase \in {"home", "context"} => S \subseteq {"home"},
         phase \in {"attempt", "waiting", "ready", "running", "alone", "leased"} => "lock" \in S,
         phase = "over" => S \subseteq IF end = "no home" THEN {"home"} ELSE {},
         \/ ~HasProxy(l)
         \/ phase \in {"waiting", "ready", "running", "alone", "leased", "killed"}
         \/ phase = "over" /\ end = "unspawned"
  PROVE  LaunchInv'
<1> DEFINE x == [captured[l] EXCEPT !.phase = phase, !.end = end]
<1>0. captured[l] \in CapturedRecord
  BY DEF LaunchInv, LaunchTypeOK
<1>1. x \in CapturedRecord /\ x.port = captured[l].port /\ x.phase = phase /\ x.end = end
  <2>1. x \in CapturedRecord
    BY <1>0, CapturedTypes
  <2> QED
    BY <1>0, <2>1 DEF CapturedRecord
<1> HIDE DEF x
<1>2. captured'[l] = x /\ left'[l] = S /\ proxy'[l] = proxy[l]
  BY DEF x, LaunchInv, LaunchTypeOK
<1>3. LeftByPhase(l)' /\ ProxyByPhase(l)'
  BY <1>1, <1>2 DEF LeftByPhase, ProxyByPhase, HasProxy, L!Is
<1>4. captured' = [captured EXCEPT ![l] = x]
  BY DEF x
<1> QED
  BY <1>1, <1>3, <1>4, RecordGoes

LEMMA LaunchFields ==
  ASSUME LaunchInv, NEW l \in Launches
  PROVE  /\ captured[l] \in CapturedRecord
         /\ captured[l].phase \in LaunchPhases /\ captured[l].end \in Ends
         /\ captured[l].port \in Ports
         /\ left[l] \subseteq {"home", "lock", "manifest", "handlers", "cbreak", "registration"}
         /\ left = [left EXCEPT ![l] = left[l]]
BY DEF LaunchInv, LaunchTypeOK, CapturedRecord

\* A step that sets the phase leaves the end as it is.
LEMMA EndStays ==
  ASSUME LaunchInv, NEW l \in Launches, NEW phase \in LaunchPhases, L!Goes(l, phase)
  PROVE  captured' = [captured EXCEPT ![l] = [captured[l] EXCEPT !.phase = phase, !.end = captured[l].end]]
<1>1. captured[l] \in CapturedRecord
  BY LaunchFields
<1>2. [captured[l] EXCEPT !.phase = phase] = [captured[l] EXCEPT !.phase = phase, !.end = captured[l].end]
  BY <1>1 DEF CapturedRecord
<1> QED
  BY <1>2 DEF L!Goes

LEMMA PreparationKeeps ==
  ASSUME LaunchInv, NEW l \in Launches,
         \/ \E how \in Hows, p \in Ports : L!Start(l, how, p)
         \/ L!PrepareHome(l) \/ L!HomeFails(l) \/ L!BuildContext(l) \/ L!Lock(l)
         \/ L!Interrupt(l) \/ L!Fail(l)
  PROVE  LaunchInv'
<1>0. LeftByPhase(l) /\ ProxyByPhase(l)
  BY DEF LaunchInv, LaunchRules
<1>h. L!Home(l) \subseteq {"home"}
  BY DEF L!Home
<1>1. ASSUME NEW how \in Hows, NEW p \in Ports, L!Start(l, how, p)
      PROVE  LaunchInv'
  <2>1. CASE L!Goes(l, "over")
    <3>1. captured' = [captured EXCEPT ![l] = [captured[l] EXCEPT !.phase = "over", !.end = captured[l].end]]
      BY <2>1, EndStays DEF LaunchPhases
    <3>2. left[l] = {} /\ ~HasProxy(l)
      BY <1>0, <1>1 DEF L!Start, L!Is, LeftByPhase, ProxyByPhase
    <3>3. left' = [left EXCEPT ![l] = left[l]] /\ captured[l].end \in Ends /\ UNCHANGED <<proxy, at, listing>>
      BY <1>1, LaunchFields DEF L!Start
    <3> QED
      BY <3>1, <3>2, <3>3, PhaseGoes DEF LaunchPhases
  <2>2. CASE captured' = [captured EXCEPT ![l].how = how, ![l].port = p, ![l].phase = "planned"]
    <3> DEFINE x == [captured[l] EXCEPT !.how = how, !.port = p, !.phase = "planned"]
    <3>1. captured' = [captured EXCEPT ![l] = x]
      BY <2>2
    <3>2. x \in CapturedRecord /\ x.phase = "planned"
      <4>1. captured[l] \in CapturedRecord /\ "planned" \in LaunchPhases
        BY LaunchFields DEF LaunchPhases
      <4>2. x \in CapturedRecord
        BY <4>1, CapturedTypes
      <4> QED
        BY <4>1 DEF CapturedRecord
    <3>3. left[l] = {} /\ ~HasProxy(l)
      BY <1>0, <1>1 DEF L!Start, L!Is, LeftByPhase, ProxyByPhase
    <3>4. captured'[l] = x
      BY <3>1 DEF LaunchInv, LaunchTypeOK
    <3>5. LeftByPhase(l)' /\ ProxyByPhase(l)'
      BY <1>1, <3>2, <3>3, <3>4 DEF L!Start, LeftByPhase, ProxyByPhase, HasProxy, L!Is
    <3> QED
      BY <1>1, <3>1, <3>2, <3>3, <3>5, LaunchFields, RecordGoes DEF L!Start
  <2> QED
    BY <1>1, <2>1, <2>2 DEF L!Start
<1>2. ASSUME L!PrepareHome(l)
      PROVE  LaunchInv'
  <2>1. captured' = [captured EXCEPT ![l] = [captured[l] EXCEPT !.phase = "home", !.end = captured[l].end]]
    BY <1>2, EndStays DEF L!PrepareHome, LaunchPhases
  <2>2. ~HasProxy(l)
    BY <1>0, <1>2 DEF L!PrepareHome, L!Is, ProxyByPhase
  <2> QED
    BY <1>2, <1>h, <2>1, <2>2, LaunchFields, PhaseGoes DEF L!PrepareHome, LaunchPhases
<1>3. ASSUME captured[l].phase \in {"planned", "home"},
             captured' = [captured EXCEPT ![l].phase = "over", ![l].end = "no home"],
             left' \in {left, [left EXCEPT ![l] = L!Home(l)]}, UNCHANGED <<proxy, at, listing>>
      PROVE  LaunchInv'
  <2>1. captured' = [captured EXCEPT ![l] = [captured[l] EXCEPT !.phase = "over", !.end = "no home"]]
    BY <1>3
  <2>2. left[l] \subseteq {"home"} /\ ~HasProxy(l)
    BY <1>0, <1>3 DEF LeftByPhase, ProxyByPhase
  <2>3. PICK S : S \subseteq {"home"} /\ left' = [left EXCEPT ![l] = S]
    BY <1>3, <1>h, <2>2, LaunchFields
  <2> QED
    BY <1>3, <2>1, <2>2, <2>3, PhaseGoes DEF LaunchPhases, Ends
<1>4. ASSUME L!BuildContext(l)
      PROVE  LaunchInv'
  <2>1. captured' = [captured EXCEPT ![l] = [captured[l] EXCEPT !.phase = "context", !.end = captured[l].end]]
    BY <1>4, EndStays DEF L!BuildContext, LaunchPhases
  <2>2. ~HasProxy(l) /\ left[l] \subseteq {"home"}
    BY <1>0, <1>4 DEF L!BuildContext, L!Is, ProxyByPhase, LeftByPhase
  <2>3. left' = [left EXCEPT ![l] = left[l]] /\ captured[l].end \in Ends /\ UNCHANGED <<proxy, at, listing>>
    BY <1>4, LaunchFields DEF L!BuildContext
  <2> QED
    BY <2>1, <2>2, <2>3, PhaseGoes DEF LaunchPhases
<1>5. ASSUME L!Lock(l)
      PROVE  LaunchInv'
  <2>1. captured' = [captured EXCEPT ![l] = [captured[l] EXCEPT !.phase = "attempt", !.end = captured[l].end]]
    BY <1>5, EndStays DEF L!Lock, LaunchPhases
  <2>2. ~HasProxy(l)
    BY <1>0, <1>5 DEF L!Lock, L!Is, ProxyByPhase
  <2> QED
    BY <1>5, <2>1, <2>2, LaunchFields, PhaseGoes DEF L!Lock, LaunchPhases
<1>6. L!HomeFails(l) => LaunchInv'
  BY <1>3 DEF L!HomeFails, L!Is
<1>7. L!Interrupt(l) => LaunchInv'
  BY <1>3, OverKeeps DEF L!Interrupt
<1>8. L!Fail(l) => LaunchInv'
  BY OverKeeps DEF L!Fail
<1> QED
  BY <1>1, <1>2, <1>4, <1>5, <1>6, <1>7, <1>8

\* IsReady, Retries and GivesUp, as what follows a start.
LEMMA StartKeeps ==
  ASSUME LaunchInv, NEW l \in Launches,
         L!Attempt(l) \/ (\E ok \in BOOLEAN : L!Register(l, ok)) \/ L!IsReady(l)
  PROVE  LaunchInv'
<1>0. LeftByPhase(l) /\ ProxyByPhase(l) /\ ListensAt(l)
  BY DEF LaunchInv, LaunchRules
<1>1. ASSUME L!Attempt(l)
      PROVE  LaunchInv'
  <2> DEFINE phase == IF captured[l].how = "proxy only" THEN "alone" ELSE "waiting"
             x == [captured[l] EXCEPT !.phase = phase, !.attempt = @ + 1]
             S == L!Announced(l) \cup IF captured[l].how \in L!Commands THEN {"handlers"} ELSE {}
  <2>1. captured' = [captured EXCEPT ![l] = x] /\ left' = [left EXCEPT ![l] = S]
        /\ proxy' = [proxy EXCEPT ![l] = "starting"] /\ UNCHANGED <<at, listing>>
    BY <1>1 DEF L!Attempt
  <2>2. S \subseteq {"home", "lock", "manifest", "handlers", "cbreak", "registration"} /\ "lock" \in S
    BY <1>0, <1>1, LaunchFields DEF L!Attempt, L!Is, L!Announced, LeftByPhase
  <2>3. x \in CapturedRecord /\ x.phase \in {"alone", "waiting"}
    <3>1. captured[l] \in CapturedRecord /\ phase \in LaunchPhases /\ phase \in {"alone", "waiting"}
      BY LaunchFields DEF LaunchPhases
    <3> HIDE DEF phase
    <3>2. x \in CapturedRecord
      BY <3>1, CapturedTypes
    <3>3. x.phase = phase
      BY <3>1 DEF CapturedRecord
    <3> QED
      BY <3>1, <3>2, <3>3
  <2>4. \A p \in Ports : at[p] # l
    BY <1>0, <1>1 DEF L!Attempt, L!Is, ProxyByPhase, ListensAt, HasProxy
  <2> HIDE DEF x, S
  <2>5. LaunchTypeOK'
    BY <2>1, <2>2, <2>3 DEF LaunchInv, LaunchTypeOK
  <2>6. captured'[l] = x /\ left'[l] = S
        /\ \A k \in Launches \ {l} : captured'[k] = captured[k] /\ left'[k] = left[k] /\ proxy'[k] = proxy[k]
    BY <2>1 DEF LaunchInv, LaunchTypeOK
  <2>7. LeftByPhase(l)' /\ ProxyByPhase(l)' /\ ListensAt(l)'
    BY <2>1, <2>2, <2>3, <2>4, <2>6 DEF LeftByPhase, ProxyByPhase, ListensAt, L!Is
  <2> QED
    BY <2>1, <2>5, <2>6, <2>7, OneLaunchSteps
<1>2. ASSUME NEW ok \in BOOLEAN, L!Register(l, ok)
      PROVE  LaunchInv'
  <2>1. CASE ok
    <3>1. captured' = [captured EXCEPT ![l] = [captured[l] EXCEPT !.phase = "leased", !.end = captured[l].end]]
      BY <1>2, <2>1, EndStays DEF L!Register, LaunchPhases
    <3>2. PICK S : /\ left' = [left EXCEPT ![l] = S] /\ "lock" \in S
                   /\ S \subseteq {"home", "lock", "manifest", "handlers", "cbreak", "registration"}
      BY <1>0, <1>2, <2>1, LaunchFields DEF L!Register, L!Is, L!Announced, LeftByPhase
    <3>3. captured[l].end \in Ends /\ UNCHANGED <<proxy, at, listing>>
      BY <1>2, <2>1, LaunchFields DEF L!Register
    <3> QED
      BY <3>1, <3>2, <3>3, PhaseGoes DEF LaunchPhases
  <2>2. CASE ~ok
    BY <1>2, <2>2, OverKeeps DEF L!Register
  <2> QED
    BY <2>1, <2>2
<1>3. ASSUME L!IsReady(l)
      PROVE  LaunchInv'
  <2>1. CASE captured[l].signal
    BY <1>3, <2>1, OverKeeps DEF L!IsReady
  <2>2. CASE ~captured[l].signal
    <3>1. PICK phase \in {"ready", "leased"} :
            captured' = [captured EXCEPT ![l] = [captured[l] EXCEPT !.phase = phase, !.end = captured[l].end]]
      BY <1>3, <2>2, EndStays DEF L!IsReady, LaunchPhases
    <3>2. /\ left' = [left EXCEPT ![l] = left[l]] /\ UNCHANGED <<proxy, at, listing>> /\ "lock" \in left[l]
          /\ captured[l].end \in Ends /\ phase \in LaunchPhases
          /\ left[l] \subseteq {"home", "lock", "manifest", "handlers", "cbreak", "registration"}
      BY <1>0, <1>3, <2>2, LaunchFields DEF L!IsReady, L!Is, LeftByPhase, LaunchPhases
    <3> QED
      BY <3>1, <3>2, PhaseGoes DEF LaunchPhases
  <2> QED
    BY <2>1, <2>2
<1> QED
  BY <1>1, <1>2, <1>3

\* A launch whose proxy nobody could reach tries again with another port, or is given up.
LEMMA NotReadyKeeps ==
  ASSUME LaunchInv, NEW l \in Launches, L!HandleBindFailure(l) \/ L!StartTimesOut(l)
  PROVE  LaunchInv'
<1>0. L!NotReady(l) /\ (L!Retries(l) \/ L!GivesUp(l))
  BY DEF L!HandleBindFailure, L!StartTimesOut
<1>1. L!GivesUp(l) => LaunchInv'
  BY OverKeeps DEF L!GivesUp
<1>2. ASSUME L!Retries(l)
      PROVE  LaunchInv'
  <2>1. PICK p \in Ports : captured' = [captured EXCEPT ![l] = [captured[l] EXCEPT !.phase = "attempt", !.port = p]]
    BY <1>2 DEF L!Retries, L!Free
  <2> DEFINE x == [captured[l] EXCEPT !.phase = "attempt", !.port = p]
  <2>2. x \in CapturedRecord /\ x.phase = "attempt"
    <3>1. captured[l] \in CapturedRecord /\ "attempt" \in LaunchPhases
      BY LaunchFields DEF LaunchPhases
    <3>2. x \in CapturedRecord
      BY <3>1, CapturedTypes
    <3> QED
      BY <3>1 DEF CapturedRecord
  <2>3. captured' = [captured EXCEPT ![l] = x]
    BY <2>1
  <2> HIDE DEF x
  <2>4. "lock" \in left[l] /\ UNCHANGED <<left, listing>> /\ L!Terminated(l)
    BY <1>0, <1>2 DEF LaunchInv, LaunchRules, LeftByPhase, L!NotReady, L!Is, L!Retries
  <2>5. LaunchTypeOK'
    BY <2>2, <2>3, <2>4, TerminatedEnds DEF LaunchInv, LaunchTypeOK
  <2>6. captured'[l] = x /\ \A k \in Launches \ {l} : captured'[k] = captured[k]
    BY <2>3 DEF LaunchInv, LaunchTypeOK
  <2>7. LeftByPhase(l)' /\ ProxyByPhase(l)' /\ ListensAt(l)'
    BY <2>2, <2>4, <2>6, TerminatedEnds DEF LaunchInv, LeftByPhase, ProxyByPhase, ListensAt, L!Is
  <2> QED
    BY <2>4, <2>5, <2>6, <2>7, TerminatedEnds, OneLaunchSteps DEF LaunchInv
<1> QED
  BY <1>0, <1>1, <1>2

\* What comes of a run: its client, its end, a signal, the end of its lease.
LEMMA RunKeeps ==
  ASSUME LaunchInv, NEW l \in Launches,
         \/ \E isatty \in BOOLEAN : L!SpawnClient(l, isatty)
         \/ L!SpawnFails(l) \/ L!ClientExits(l) \/ L!ProxyGone(l) \/ L!Stopped(l) \/ L!Signal(l)
         \/ L!Close(l)
  PROVE  LaunchInv'
<1>0. LeftByPhase(l) /\ ProxyByPhase(l)
  BY DEF LaunchInv, LaunchRules
<1>1. ASSUME NEW isatty \in BOOLEAN, L!SpawnClient(l, isatty)
      PROVE  LaunchInv'
  <2>1. captured' = [captured EXCEPT ![l] = [captured[l] EXCEPT !.phase = "running", !.end = captured[l].end]]
    BY <1>1, EndStays DEF L!SpawnClient, LaunchPhases
  <2> DEFINE S == left[l] \cup IF isatty THEN {"cbreak"} ELSE {}
  <2>2. /\ left' = [left EXCEPT ![l] = S] /\ "lock" \in S
        /\ S \subseteq {"home", "lock", "manifest", "handlers", "cbreak", "registration"}
    BY <1>0, <1>1, LaunchFields DEF L!SpawnClient, L!Is, LeftByPhase
  <2>3. captured[l].end \in Ends /\ UNCHANGED <<proxy, at, listing>>
    BY <1>1, LaunchFields DEF L!SpawnClient
  <2> QED
    BY <2>1, <2>2, <2>3, PhaseGoes DEF LaunchPhases
<1>2. ASSUME L!SpawnFails(l)
      PROVE  LaunchInv'
  <2>1. captured' = [captured EXCEPT ![l] = [captured[l] EXCEPT !.phase = "over", !.end = "unspawned"]]
    BY <1>2 DEF L!SpawnFails
  <2>2. left' = [left EXCEPT ![l] = {}] /\ UNCHANGED <<proxy, at, listing>>
    BY <1>2 DEF L!SpawnFails
  <2> QED
    BY <2>1, <2>2, PhaseGoes DEF LaunchPhases, Ends
<1>3. ASSUME L!ClientExits(l)
      PROVE  LaunchInv'
  <2>1. captured' = [captured EXCEPT ![l] = [captured[l] EXCEPT !.phase = "alone", !.end = captured[l].end]]
    BY <1>3, EndStays DEF L!ClientExits, LaunchPhases
  <2>2. /\ left' = [left EXCEPT ![l] = left[l]] /\ UNCHANGED <<proxy, at, listing>> /\ "lock" \in left[l]
        /\ captured[l].end \in Ends
        /\ left[l] \subseteq {"home", "lock", "manifest", "handlers", "cbreak", "registration"}
    BY <1>0, <1>3, LaunchFields DEF L!ClientExits, L!Is, LeftByPhase
  <2> QED
    BY <2>1, <2>2, PhaseGoes DEF LaunchPhases
<1>4. ASSUME L!Signal(l)
      PROVE  LaunchInv'
  <2> DEFINE x == [captured[l] EXCEPT !.signal = TRUE]
  <2>1. captured[l] \in CapturedRecord /\ left' = [left EXCEPT ![l] = left[l]] /\ UNCHANGED <<proxy, at, listing>>
        /\ left[l] \subseteq {"home", "lock", "manifest", "handlers", "cbreak", "registration"}
    BY <1>4, LaunchFields DEF L!Signal
  <2>2. x \in CapturedRecord
    BY <2>1, CapturedTypes
  <2>3. x.port = captured[l].port /\ x.phase = captured[l].phase /\ x.end = captured[l].end
    BY <2>1 DEF CapturedRecord
  <2>4. captured' = [captured EXCEPT ![l] = x] /\ captured'[l] = x
    BY <1>4 DEF L!Signal, LaunchInv, LaunchTypeOK
  <2> HIDE DEF x
  <2>5. LeftByPhase(l)' /\ ProxyByPhase(l)'
    BY <1>0, <1>4, <2>3, <2>4 DEF L!Signal, LeftByPhase, ProxyByPhase, HasProxy, L!Is
  <2> QED
    BY <2>1, <2>2, <2>3, <2>4, <2>5, RecordGoes
<1>5. L!ProxyGone(l) \/ L!Stopped(l) \/ L!Close(l) => LaunchInv'
  BY OverKeeps DEF L!ProxyGone, L!Stopped, L!Close
<1> QED
  BY <1>1, <1>2, <1>3, <1>4, <1>5

\* The steps of the proxy of l, of what kills l, and of a command that lists the instances.
LEMMA OthersKeep ==
  ASSUME LaunchInv, NEW l \in Launches,
         L!ProxyBinds(l) \/ L!ProxyDies(l) \/ L!Kill(l) \/ L!ListProbe(l)
  PROVE  LaunchInv'
<1>0. LeftByPhase(l) /\ ProxyByPhase(l) /\ ListensAt(l)
  BY DEF LaunchInv, LaunchRules
<1>1. ASSUME L!ProxyBinds(l)
      PROVE  LaunchInv'
  <2> DEFINE p == captured[l].port
  <2>1. p \in Ports /\ captured[l] \in CapturedRecord /\ proxy[l] = "starting" /\ UNCHANGED <<left, listing>>
    BY <1>1, LaunchFields DEF L!ProxyBinds
  <2>2. \A q \in Ports : at[q] # l
    BY <1>0, <2>1 DEF ListensAt
  <2>3. PICK x \in CapturedRecord :
          /\ captured' = [captured EXCEPT ![l] = x]
          /\ x.port = p /\ x.phase = captured[l].phase /\ x.end = captured[l].end
    <3>1. CASE captured' = captured
      BY <2>1, <3>1 DEF LaunchInv, LaunchTypeOK
    <3>2. CASE captured' = [captured EXCEPT ![l].log = TRUE]
      <4> DEFINE x == [captured[l] EXCEPT !.log = TRUE]
      <4>1. x \in CapturedRecord
        BY <2>1, CapturedTypes
      <4>2. x.port = p /\ x.phase = captured[l].phase /\ x.end = captured[l].end
        BY <2>1 DEF CapturedRecord
      <4>3. captured' = [captured EXCEPT ![l] = x]
        BY <3>2
      <4> QED
        BY <4>1, <4>2, <4>3
    <3> QED
      BY <1>1, <3>1, <3>2 DEF L!ProxyBinds
  <2>4. \/ at[p] = "nobody" /\ proxy' = [proxy EXCEPT ![l] = "up"] /\ at' = [at EXCEPT ![p] = l]
        \/ proxy' = [proxy EXCEPT ![l] = "lost"] /\ UNCHANGED at
    BY <1>1 DEF L!ProxyBinds
  <2>5. LaunchTypeOK'
    BY <2>1, <2>3, <2>4 DEF LaunchInv, LaunchTypeOK
  <2>6. captured'[l] = x /\ \A k \in Launches \ {l} : captured'[k] = captured[k] /\ left'[k] = left[k] /\ proxy'[k] = proxy[k]
    BY <2>1, <2>3, <2>4 DEF LaunchInv, LaunchTypeOK
  <2>7. LeftByPhase(l)'
    BY <1>0, <2>1, <2>3, <2>6 DEF LeftByPhase, L!Is
  <2>8. ProxyByPhase(l)'
    BY <1>0, <2>1, <2>3, <2>6 DEF ProxyByPhase, HasProxy, L!Is
  <2>9. ListensAt(l)' /\ \A q \in Ports : at'[q] \in Launches \ {l} => at'[q] = at[q]
    BY <2>1, <2>2, <2>3, <2>4, <2>6 DEF ListensAt, LaunchInv, LaunchTypeOK
  <2> QED
    BY <2>5, <2>6, <2>7, <2>8, <2>9, OneLaunchSteps
<1>2. ASSUME L!ProxyDies(l)
      PROVE  LaunchInv'
  <2>1. L!Terminated(l) /\ UNCHANGED <<captured, left, listing>>
    BY <1>2 DEF L!ProxyDies
  <2>2. LaunchTypeOK'
    BY <2>1, TerminatedEnds DEF LaunchInv, LaunchTypeOK
  <2>3. LeftByPhase(l)' /\ ProxyByPhase(l)' /\ ListensAt(l)'
    BY <1>0, <2>1, TerminatedEnds DEF LaunchInv, LeftByPhase, ProxyByPhase, ListensAt, L!Is
  <2> QED
    BY <2>1, <2>2, <2>3, TerminatedEnds, OneLaunchSteps DEF LaunchInv
<1>3. ASSUME L!Kill(l)
      PROVE  LaunchInv'
  <2> DEFINE S == left[l] \ {"lock", "handlers", "cbreak", "registration"}
  <2>1. captured' = [captured EXCEPT ![l] = [captured[l] EXCEPT !.phase = "killed", !.end = captured[l].end]]
    BY <1>3, EndStays DEF L!Kill, LaunchPhases
  <2>2. left' = [left EXCEPT ![l] = S] /\ UNCHANGED <<proxy, at, listing>>
    BY <1>3 DEF L!Kill
  <2>3. captured[l].end \in Ends /\ S \subseteq {"home", "lock", "manifest", "handlers", "cbreak", "registration"}
    BY LaunchFields
  <2> QED
    BY <2>1, <2>2, <2>3, PhaseGoes DEF LaunchPhases
<1>4. ASSUME L!ListProbe(l)
      PROVE  LaunchInv'
  <2>1. UNCHANGED <<captured, proxy, at>> /\ listing' \subseteq listing /\ left' \in {left, [left EXCEPT ![l] = left[l] \ {"manifest"}]}
    BY <1>4 DEF L!ListProbe
  <2>2. LaunchTypeOK'
    BY <2>1 DEF LaunchInv, LaunchTypeOK
  <2>3. ProxyByPhase(l)' /\ ListensAt(l)'
    BY <1>0, <2>1 DEF ProxyByPhase, ListensAt, HasProxy, L!Is
  <2>5. left'[l] \subseteq left[l] /\ ("lock" \in left[l] => "lock" \in left'[l])
    BY <2>1 DEF LaunchInv, LaunchTypeOK
  <2>6. LeftByPhase(l)'
    BY <1>0, <2>1, <2>5 DEF LeftByPhase, L!Is
  <2>4. \A k \in Launches \ {l} : left'[k] = left[k]
    BY <2>1 DEF LaunchInv, LaunchTypeOK
  <2> QED
    BY <2>1, <2>2, <2>3, <2>4, <2>6, OneLaunchSteps
<1> QED
  BY <1>1, <1>2, <1>3, <1>4

LEMMA CapturedStep ==
  ASSUME LaunchInv, [L!Next]_(L!vars)
  PROVE  LaunchInv'
<1>1. CASE \E l \in Launches, how \in L!Commands \cup {"managed", "shared"}, p \in Ports : L!Start(l, how, p)
  BY <1>1, PreparationKeeps DEF Hows
<1>2. CASE \E l \in Launches : \/ L!Proceed(l) \/ L!Fail(l) \/ L!HomeFails(l) \/ L!Interrupt(l) \/ L!SpawnFails(l)
                               \/ L!ClientExits(l) \/ L!Signal(l) \/ L!Close(l)
  BY <1>2, PreparationKeeps, StartKeeps, NotReadyKeeps, RunKeeps DEF L!Proceed
<1>3. CASE \E l \in Launches : L!ProxyBinds(l) \/ L!ProxyDies(l) \/ L!Kill(l) \/ L!ListProbe(l)
  BY <1>3, OthersKeep
<1>4. CASE \/ \E p \in Ports, who \in {"listener", "holder"} : L!Take(p, who)
           \/ \E p \in Ports : L!GiveBack(p)
  <2>1. UNCHANGED <<captured, left, proxy, listing>>
    BY <1>4 DEF L!Take, L!GiveBack
  <2>2. PICK p \in Ports, who \in {"listener", "holder", "nobody"} : at' = [at EXCEPT ![p] = who]
    BY <1>4 DEF L!Take, L!GiveBack
  <2>3. LaunchTypeOK'
    BY <2>1, <2>2 DEF LaunchInv, LaunchTypeOK
  <2>4. \A l \in Launches : LeftByPhase(l)' /\ ProxyByPhase(l)'
    BY <2>1 DEF LaunchInv, LaunchRules, LeftByPhase, ProxyByPhase, HasProxy, L!Is
  <2>5. \A l \in Launches : ListensAt(l)'
    BY <2>1, <2>2, LaunchAssumption DEF LaunchInv, LaunchTypeOK, LaunchRules, ListensAt
  <2> QED
    BY <2>3, <2>4, <2>5 DEF LaunchInv, LaunchRules
<1>5. CASE L!ListRead \/ UNCHANGED L!vars
  <2>1. UNCHANGED <<captured, left, proxy, at>> /\ listing' \subseteq Launches
    BY <1>5 DEF L!ListRead, L!Manifests, L!vars, LaunchInv, LaunchTypeOK
  <2>2. LaunchTypeOK'
    BY <2>1 DEF LaunchInv, LaunchTypeOK
  <2>3. LaunchRules'
    BY <2>1 DEF LaunchInv, LaunchRules, LeftByPhase, ProxyByPhase, ListensAt, HasProxy, L!Is
  <2> QED
    BY <2>2, <2>3 DEF LaunchInv
<1> QED
  BY <1>1, <1>2, <1>3, <1>4, <1>5 DEF L!Next

\* Whatever step of a launch fails, whoever takes its port or kills it, and however often it
\* retries: what is over left nothing behind that it should not, and no manifest outlives
\* its lock unless its launch was killed.
THEOREM LaunchTheorem == L!Spec => []NothingIsLeft
<1>1. LaunchInv => NothingIsLeft
  BY DEF LaunchInv, LaunchRules, LaunchTypeOK, LeftByPhase, ProxyByPhase, ListensAt, HasProxy, NothingIsLeft,
       L!NothingIsLeft, L!Is, L!Manifests, L!Held, CapturedRecord, LaunchPhases
<1>2. LaunchInv /\ [L!Next]_(L!vars) => LaunchInv'
  BY CapturedStep
<1> QED
  BY <1>1, <1>2, LaunchInitHolds, PTL DEF L!Spec
-----------------------------------------------------------------------------
(* Canvas: filters of sequences of panes.                                  *)

\* A set of numbers that is not empty has a least one.
LEMMA LeastNat ==
  ASSUME NEW S \in SUBSET Nat, S # {}
  PROVE  \E m \in S : \A n \in S : m <= n
<1>2. PICK m \in S : \A n \in S : ~(<<n, m>> \in OpToRel(<, Nat))
  BY WFMin, NatLessThanWellFounded
<1>3. \A n \in S : ~(n < m)
  BY <1>2 DEF OpToRel
<1> QED BY <1>3

\* A sequence of panes with one more.
LEMMA AppendedMembers ==
  ASSUME NEW q \in Seq(C!Ids), NEW e \in C!Ids
  PROVE  Append(q, e) \in Seq(C!Ids) /\ C!ToSet(Append(q, e)) = C!ToSet(q) \cup {e}
<1> DEFINE r == Append(q, e)
<1>1. r \in Seq(C!Ids) /\ Len(r) = Len(q) + 1 /\ Len(q) \in Nat
  OBVIOUS
<1>2. r[Len(q) + 1] = e /\ \A i \in 1..Len(q) : r[i] = q[i]
  OBVIOUS
<1>3. DOMAIN r = 1..Len(q) + 1 /\ DOMAIN q = 1..Len(q)
  OBVIOUS
<1> HIDE DEF r
<1>4. C!ToSet(r) = C!ToSet(q) \cup {e}
  BY <1>1, <1>2, <1>3 DEF C!ToSet
<1> QED BY <1>1, <1>4 DEF r

\* One step of a filter, and what it keeps of the first m members.
Keeps(s, K, n, rest) == IF s[n] \in K THEN rest ELSE Append(rest, s[n])
Recurs(s, K, m, h) == h = [n \in 0..m |-> IF n = 0 THEN <<>> ELSE Keeps(s, K, n, h[n - 1])]
Leaves(s, K, m, h) == \A n \in 0..m : h[n] \in Seq(C!Ids) /\ C!ToSet(h[n]) = {s[i] : i \in 1..n} \ K
Filters(s, K, m, h) == Recurs(s, K, m, h) /\ Leaves(s, K, m, h)

\* The first members of a sequence can be filtered, however many.
LEMMA FilterExists ==
  ASSUME NEW s \in Seq(C!Ids), NEW K
  PROVE  \E h : Filters(s, K, Len(s), h)
<1> DEFINE Bad == {m \in 0..Len(s) : \A h : ~Filters(s, K, m, h)}
<1>1. ASSUME Bad # {} PROVE FALSE
  <2>1. PICK m \in Bad : \A j \in Bad : m <= j
    <3>1. Bad \in SUBSET Nat
      OBVIOUS
    <3> HIDE DEF Bad
    <3> QED BY <1>1, <3>1, LeastNat
  <2>2. m \in 0..Len(s) /\ \A h : ~Filters(s, K, m, h)
    OBVIOUS
  <2>3. CASE m = 0
    <3> DEFINE h == [n \in 0..0 |-> <<>>]
    <3>1. h = [n \in 0..0 |-> IF n = 0 THEN <<>> ELSE Keeps(s, K, n, h[n - 1])]
      OBVIOUS
    <3>2. \A n \in 0..0 : h[n] = <<>>
      OBVIOUS
    <3>3. <<>> \in Seq(C!Ids) /\ C!ToSet(<<>>) = {}
      BY DEF C!ToSet
    <3>4. {s[i] : i \in 1..0} = {}
      OBVIOUS
    <3> HIDE DEF h
    <3>5. Filters(s, K, 0, h)
      BY <3>1, <3>2, <3>3, <3>4 DEF Filters, Recurs, Leaves
    <3> QED BY <2>2, <2>3, <3>5
  <2>4. CASE m # 0
    <3>1. m \in Nat /\ m - 1 \in 0..Len(s) /\ ~(m <= m - 1) /\ m \in 1..Len(s)
      BY <2>2, <2>4
    <3>2. PICK g : Filters(s, K, m - 1, g)
      BY <2>1, <3>1
    <3> DEFINE h == [n \in 0..m |-> IF n = m THEN Keeps(s, K, m, g[m - 1]) ELSE g[n]]
    <3>3. \A n \in 0..m - 1 : h[n] = g[n]
      BY <3>1
    <3>4. h[m] = Keeps(s, K, m, g[m - 1])
      BY <3>1
    <3>5. g[m - 1] \in Seq(C!Ids) /\ C!ToSet(g[m - 1]) = {s[i] : i \in 1..m - 1} \ K
      <4>1. m - 1 \in 0..m - 1
        BY <3>1
      <4>2. Leaves(s, K, m - 1, g)
        BY <3>2 DEF Filters
      <4> QED BY <4>1, <4>2, Zenon DEF Leaves
    <3>6. s[m] \in C!Ids
      BY <3>1
    <3>7. h[m] \in Seq(C!Ids) /\ C!ToSet(h[m]) = {s[i] : i \in 1..m} \ K
      <4>1. {s[i] : i \in 1..m} = {s[i] : i \in 1..m - 1} \cup {s[m]}
        BY <3>1
      <4>2. CASE s[m] \in K
        BY <3>4, <3>5, <4>1, <4>2 DEF Keeps
      <4>3. CASE s[m] \notin K
        <5>1. h[m] = Append(g[m - 1], s[m])
          BY <3>4, <4>3 DEF Keeps
        <5>2. Append(g[m - 1], s[m]) \in Seq(C!Ids) /\ C!ToSet(Append(g[m - 1], s[m])) = C!ToSet(g[m - 1]) \cup {s[m]}
          BY <3>5, <3>6, AppendedMembers
        <5> HIDE DEF h
        <5> QED BY <3>5, <4>1, <4>3, <5>1, <5>2
      <4> QED BY <4>2, <4>3
    <3>8. h = [n \in 0..m |-> IF n = 0 THEN <<>> ELSE Keeps(s, K, n, h[n - 1])]
      <4>1. \A n \in 0..m : h[n] = IF n = 0 THEN <<>> ELSE Keeps(s, K, n, h[n - 1])
        <5> TAKE n \in 0..m
        <5>1. CASE n = m
          <6>1. h[m - 1] = g[m - 1]
            BY <3>1, <3>3
          <6> QED BY <2>4, <3>4, <5>1, <6>1
        <5>2. CASE n # m
          <6>1. n \in 0..m - 1
            BY <3>1, <5>2
          <6>2. g[n] = IF n = 0 THEN <<>> ELSE Keeps(s, K, n, g[n - 1])
            BY <3>2, <6>1 DEF Filters, Recurs
          <6>3. n # 0 => n - 1 \in 0..m - 1
            BY <3>1, <6>1
          <6> QED BY <3>3, <6>1, <6>2, <6>3
        <5> QED BY <5>1, <5>2
      <4>2. h = [n \in 0..m |-> h[n]]
        OBVIOUS
      <4> HIDE DEF h
      <4> QED BY <4>1, <4>2
    <3>9. \A n \in 0..m : h[n] \in Seq(C!Ids) /\ C!ToSet(h[n]) = {s[i] : i \in 1..n} \ K
      <4>1. \A n \in 0..m - 1 : g[n] \in Seq(C!Ids) /\ C!ToSet(g[n]) = {s[i] : i \in 1..n} \ K
        BY <3>2 DEF Filters, Leaves
      <4>2. \A n \in 0..m : n = m \/ n \in 0..m - 1
        BY <3>1
      <4> HIDE DEF h
      <4> QED BY <3>3, <3>7, <4>1, <4>2
    <3> HIDE DEF h
    <3>10. Filters(s, K, m, h)
      BY <3>8, <3>9 DEF Filters, Recurs, Leaves
    <3> QED BY <2>2, <3>10
  <2> QED BY <2>3, <2>4
<1>2. Len(s) \in 0..Len(s)
  OBVIOUS
<1> QED BY <1>1, <1>2

\* What a filter leaves of a sequence of panes.
LEMMA WithoutFacts ==
  ASSUME NEW s \in Seq(C!Ids), NEW K
  PROVE  C!Without(s, K) \in Seq(C!Ids) /\ C!ToSet(C!Without(s, K)) = C!ToSet(s) \ K
<1> DEFINE Step(h) == [n \in 0..Len(s) |-> IF n = 0 THEN <<>> ELSE IF s[n] \in K THEN h[n - 1] ELSE Append(h[n - 1], s[n])]
           f == C!Filtered(s, K)
<1>1. f = CHOOSE h : h = Step(h)
  BY Zenon DEF C!Filtered
<1>2. PICK g : Filters(s, K, Len(s), g)
  BY FilterExists
<1>3. g = Step(g)
  BY <1>2 DEF Filters, Recurs, Keeps
<1> HIDE DEF f
<1>4. f = Step(f)
  <2> HIDE DEF Step
  <2> QED BY <1>1, <1>3
<1> DEFINE Bad == {j \in 0..Len(s) : f[j] # g[j]}
<1>5. ASSUME Bad # {} PROVE FALSE
  <2>1. PICK m \in Bad : \A j \in Bad : m <= j
    <3>1. Bad \in SUBSET Nat
      OBVIOUS
    <3> HIDE DEF Bad
    <3> QED BY <1>5, <3>1, LeastNat
  <2>2. m \in 0..Len(s) /\ f[m] # g[m]
    OBVIOUS
  <2>3. m # 0
    <3>1. f[0] = <<>> /\ g[0] = <<>>
      BY <1>3, <1>4
    <3> QED BY <2>2, <3>1
  <2>4. m - 1 \in 0..Len(s) /\ ~(m <= m - 1)
    BY <2>2, <2>3
  <2>5. f[m - 1] = g[m - 1]
    BY <2>1, <2>4
  <2>6. f[m] = IF s[m] \in K THEN f[m - 1] ELSE Append(f[m - 1], s[m])
    BY <1>4, <2>2, <2>3
  <2>7. g[m] = IF s[m] \in K THEN g[m - 1] ELSE Append(g[m - 1], s[m])
    BY <1>3, <2>2, <2>3
  <2> QED BY <2>2, <2>5, <2>6, <2>7
<1>6. f[Len(s)] = g[Len(s)]
  BY <1>5
<1>7. g[Len(s)] \in Seq(C!Ids) /\ C!ToSet(g[Len(s)]) = {s[i] : i \in 1..Len(s)} \ K
  <2>1. Len(s) \in 0..Len(s) /\ Leaves(s, K, Len(s), g)
    BY <1>2 DEF Filters
  <2> QED BY <2>1, Zenon DEF Leaves
<1>8. C!ToSet(s) = {s[i] : i \in 1..Len(s)}
  BY DEF C!ToSet
<1> QED BY <1>6, <1>7, <1>8 DEF C!Without, f
-----------------------------------------------------------------------------
(* Canvas: a live run is behind a pane, or its end is under way.           *)

OfKeys == [Keys -> 0..MaxRuns]
TimerType == [id : C!Ids, mode : {"close", "minimize"}]
MaybeId == C!Ids \cup {C!None}
ViewType ==
  [order : Seq(C!Ids), closing : SUBSET C!Ids, docked : Seq(C!Ids), expanded : MaybeId, framed : MaybeId]
CachedType == [refs : SUBSET C!Ids, order : Seq(C!Ids), docked : Seq(C!Ids), expanded : MaybeId]
RunsType == [of : OfKeys, minimized : SUBSET Keys]
FlightType == [spawns : Seq(Keys), born : OfKeys, cancelled : SUBSET Keys, minimized : SUBSET Keys]
ServerType == [1..MaxRuns -> [key : Keys \cup {C!None}, live : BOOLEAN]]

CanvasTypeOK ==
  /\ view \in ViewType
  /\ cached \in CachedType /\ cached.refs \subseteq C!ToSet(cached.order)
  /\ timers \in Seq(TimerType)
  /\ runs \in RunsType /\ flight \in FlightType /\ server \in ServerType
  /\ lost \subseteq Keys

\* A run was born to a key whose spawn is at work; until that spawn ends the key has no run.
SpawnRules(k) ==
  /\ flight.born[k] # 0 => k \in C!ToSet(flight.spawns)
  /\ k \in C!ToSet(flight.spawns) => runs.of[k] = 0
  /\ k \in C!ToSet(flight.spawns) => k \in lost \/ C!Shown(k) \/ k \in flight.cancelled

\* Until the reconciliation ends nothing is spawned, and a key's run is the candidate or none.
RouteRules ==
  ~route.ready => /\ flight.spawns = <<>>
                  /\ \A k \in DOMAIN route.candidates : runs.of[k] \in {0, route.candidates[k]}

\* A live run has a key, and that key knows it.
RunRules(r) ==
  server[r].live =>
    /\ server[r].key \in Keys
    /\ \/ server[r].key \in lost
       \/ C!Shown(server[r].key) /\ r \in {runs.of[server[r].key], flight.born[server[r].key]}
       \/ flight.born[server[r].key] = r /\ server[r].key \in flight.cancelled

RunsAreBehindPanes == RouteRules /\ (\A k \in Keys : SpawnRules(k)) /\ \A r \in 1..MaxRuns : RunRules(r)
CanvasInv == CanvasTypeOK /\ RunsAreBehindPanes

\* The view may change as long as what it showed is shown still, or lost.
LEMMA ShownStays ==
  ASSUME CanvasInv, UNCHANGED C!stores, UNCHANGED route, lost \subseteq lost',
         \A k \in Keys : C!Shown(k) => C!Shown(k)' \/ k \in lost'
  PROVE  RunsAreBehindPanes'
<1>1. RouteRules'
  BY DEF CanvasInv, RunsAreBehindPanes, RouteRules, C!stores
<1>2. ASSUME NEW k \in Keys PROVE SpawnRules(k)'
  BY DEF CanvasInv, RunsAreBehindPanes, SpawnRules, C!stores
<1>3. ASSUME NEW r \in 1..MaxRuns PROVE RunRules(r)'
  BY DEF CanvasInv, RunsAreBehindPanes, RunRules, C!stores
<1> QED BY <1>1, <1>2, <1>3 DEF RunsAreBehindPanes

LEMMA StopRunTypes ==
  ASSUME CanvasTypeOK, NEW k \in Keys, C!StopRun(k)
  PROVE  runs' \in RunsType /\ flight' \in FlightType /\ server' \in ServerType
<1>1. CASE runs.of[k] # 0
  <2>1. [runs.of EXCEPT ![k] = 0] \in OfKeys
    BY CanvasAssumption DEF CanvasTypeOK, RunsType, OfKeys
  <2>2. runs' \in RunsType /\ flight' = flight
    BY <1>1, <2>1 DEF CanvasTypeOK, C!StopRun, RunsType
  <2>3. server' \in ServerType
    BY <1>1 DEF CanvasTypeOK, C!StopRun, C!Ended, ServerType
  <2> QED BY <2>2, <2>3 DEF CanvasTypeOK
<1>2. CASE runs.of[k] = 0
  <2>1. [flight EXCEPT !.cancelled = @ \cup {k}, !.minimized = @ \ {k}] \in FlightType
    BY DEF CanvasTypeOK, FlightType
  <2>2. runs' = runs /\ server' = server /\ flight' \in {flight, [flight EXCEPT !.cancelled = @ \cup {k}, !.minimized = @ \ {k}]}
    BY <1>2 DEF C!StopRun
  <2> QED BY <2>1, <2>2 DEF CanvasTypeOK
<1> QED BY <1>1, <1>2

LEMMA SetMinimizedTypes ==
  ASSUME CanvasTypeOK, NEW k \in Keys, NEW on \in BOOLEAN, C!SetMinimized(k, on)
  PROVE  /\ runs' \in RunsType /\ runs'.of = runs.of
         /\ flight' \in FlightType /\ flight'.spawns = flight.spawns /\ flight'.born = flight.born
         /\ flight'.cancelled = flight.cancelled
         /\ server' = server
<1>1. runs' \in RunsType /\ runs'.of = runs.of
  BY DEF CanvasTypeOK, C!SetMinimized, RunsType
<1>2. /\ flight' \in FlightType /\ flight'.spawns = flight.spawns /\ flight'.born = flight.born
      /\ flight'.cancelled = flight.cancelled
  BY DEF CanvasTypeOK, C!SetMinimized, FlightType
<1> QED BY <1>1, <1>2 DEF C!SetMinimized

\* A hook ends a run or calls its spawn off before the pane is gone.
LEMMA HookKeeps ==
  ASSUME CanvasInv, NEW id \in C!Ids, NEW mode \in {"close", "minimize", "restore"}, C!Hook(id, mode),
         UNCHANGED <<route, lost>>,
         \A k \in Keys : C!Shown(k) => C!Shown(k)' \/ (k = id /\ mode = "close")
  PROVE  /\ RunsAreBehindPanes'
         /\ runs' \in RunsType /\ flight' \in FlightType /\ server' \in ServerType
<1>0. CanvasTypeOK
  BY DEF CanvasInv
<1>1. CASE id \notin Keys
  <2>1. UNCHANGED C!stores
    BY <1>1 DEF C!Hook
  <2> QED BY <1>0, <1>1, <2>1, ShownStays DEF CanvasTypeOK, C!stores
<1>2. CASE id \in Keys /\ mode # "close"
  <2>1. C!SetMinimized(id, mode = "minimize")
    BY <1>2 DEF C!Hook
  <2>2. /\ runs' \in RunsType /\ runs'.of = runs.of
        /\ flight' \in FlightType /\ flight'.spawns = flight.spawns /\ flight'.born = flight.born
        /\ flight'.cancelled = flight.cancelled
        /\ server' = server
    BY <1>0, <1>2, <2>1, SetMinimizedTypes
  <2>3. RouteRules'
    BY <2>2 DEF CanvasInv, RunsAreBehindPanes, RouteRules
  <2>4. ASSUME NEW k \in Keys PROVE SpawnRules(k)'
    BY <1>2, <2>2 DEF CanvasInv, RunsAreBehindPanes, SpawnRules
  <2>5. ASSUME NEW r \in 1..MaxRuns PROVE RunRules(r)'
    BY <1>2, <2>2 DEF CanvasInv, RunsAreBehindPanes, RunRules
  <2>6. server' \in ServerType
    BY <1>0, <2>2 DEF CanvasTypeOK
  <2> QED BY <2>2, <2>3, <2>4, <2>5, <2>6 DEF RunsAreBehindPanes
<1>3. CASE id \in Keys /\ mode = "close" /\ runs.of[id] # 0
  <2>1. /\ runs'.of = [runs.of EXCEPT ![id] = 0] /\ UNCHANGED flight
        /\ server' = C!Ended(server, runs.of[id])
    BY <1>3 DEF C!Hook, C!StopRun
  <2>2. id \notin C!ToSet(flight.spawns) /\ flight.born[id] = 0
    BY <1>3 DEF CanvasInv, RunsAreBehindPanes, SpawnRules
  <2>3. runs' \in RunsType /\ flight' \in FlightType /\ server' \in ServerType
    BY <1>0, <1>3, StopRunTypes DEF C!Hook
  <2>4. \A k \in Keys : runs'.of[k] = IF k = id THEN 0 ELSE runs.of[k]
    BY <1>0, <2>1 DEF CanvasTypeOK, RunsType, OfKeys
  <2>5. RouteRules'
    <3>1. DOMAIN route.candidates \cap Keys \subseteq Keys
      OBVIOUS
    <3> QED BY <1>0, <2>1, <2>4 DEF CanvasInv, CanvasTypeOK, RunsAreBehindPanes, RouteRules
  <2>6. ASSUME NEW k \in Keys PROVE SpawnRules(k)'
    BY <2>1, <2>2, <2>4 DEF CanvasInv, RunsAreBehindPanes, SpawnRules
  <2>7. ASSUME NEW r \in 1..MaxRuns PROVE RunRules(r)'
    <3>1. /\ server'[r].key = server[r].key
          /\ server'[r].live => server[r].live /\ r # runs.of[id]
      BY <1>0, <2>1 DEF CanvasTypeOK, ServerType, C!Ended
    <3> QED BY <2>1, <2>2, <2>4, <3>1 DEF CanvasInv, RunsAreBehindPanes, RunRules
  <2> QED BY <2>3, <2>5, <2>6, <2>7 DEF RunsAreBehindPanes
<1>4. CASE id \in Keys /\ mode = "close" /\ runs.of[id] = 0
  <2>1. /\ UNCHANGED <<runs, server>>
        /\ flight'.spawns = flight.spawns /\ flight'.born = flight.born
        /\ flight'.cancelled = IF id \in C!ToSet(flight.spawns) THEN flight.cancelled \cup {id} ELSE flight.cancelled
    BY <1>0, <1>4 DEF C!Hook, C!StopRun, CanvasTypeOK, FlightType
  <2>2. runs' \in RunsType /\ flight' \in FlightType /\ server' \in ServerType
    BY <1>0, <1>4, StopRunTypes DEF C!Hook
  <2>3. RouteRules'
    BY <2>1 DEF CanvasInv, RunsAreBehindPanes, RouteRules
  <2>4. ASSUME NEW k \in Keys PROVE SpawnRules(k)'
    BY <2>1 DEF CanvasInv, RunsAreBehindPanes, SpawnRules
  <2>5. ASSUME NEW r \in 1..MaxRuns PROVE RunRules(r)'
    <3>1. ~(r = 0) /\ (flight.born[id] # 0 => id \in C!ToSet(flight.spawns))
      BY <1>4, CanvasAssumption DEF CanvasInv, RunsAreBehindPanes, SpawnRules
    <3> QED BY <1>4, <2>1, <3>1 DEF CanvasInv, RunsAreBehindPanes, RunRules
  <2> QED BY <2>2, <2>3, <2>4, <2>5 DEF RunsAreBehindPanes
<1> QED BY <1>1, <1>2, <1>3, <1>4

\* Two sequences of panes joined.
LEMMA SeqFacts ==
  ASSUME NEW p \in Seq(C!Ids), NEW q \in Seq(C!Ids)
  PROVE  p \o q \in Seq(C!Ids) /\ C!ToSet(p \o q) = C!ToSet(p) \cup C!ToSet(q)
<1> DEFINE r == p \o q
<1>1. r \in Seq(C!Ids) /\ Len(r) = Len(p) + Len(q) /\ Len(p) \in Nat /\ Len(q) \in Nat
  OBVIOUS
<1>2. /\ \A i \in 1..Len(p) : r[i] = p[i]
      /\ \A i \in 1..Len(q) : r[Len(p) + i] = q[i]
  OBVIOUS
<1>3. DOMAIN r = 1..Len(p) + Len(q) /\ DOMAIN p = 1..Len(p) /\ DOMAIN q = 1..Len(q)
  OBVIOUS
<1> HIDE DEF r
<1>4. ASSUME NEW x \in C!ToSet(r) PROVE x \in C!ToSet(p) \cup C!ToSet(q)
  <2>1. PICK i \in 1..Len(p) + Len(q) : x = r[i]
    BY <1>3 DEF C!ToSet
  <2>2. CASE i <= Len(p)
    BY <1>1, <1>2, <1>3, <2>1, <2>2 DEF C!ToSet
  <2>3. CASE ~(i <= Len(p))
    <3>1. i - Len(p) \in 1..Len(q) /\ Len(p) + (i - Len(p)) = i
      BY <1>1, <2>1, <2>3
    <3> QED BY <1>2, <1>3, <2>1, <3>1 DEF C!ToSet
  <2> QED BY <2>2, <2>3
<1>5. ASSUME NEW x \in C!ToSet(p) \cup C!ToSet(q) PROVE x \in C!ToSet(r)
  <2>1. CASE x \in C!ToSet(p)
    BY <1>1, <1>2, <1>3, <2>1 DEF C!ToSet
  <2>2. CASE x \in C!ToSet(q)
    <3>1. PICK i \in 1..Len(q) : x = q[i]
      BY <1>3, <2>2 DEF C!ToSet
    <3>2. Len(p) + i \in 1..Len(p) + Len(q)
      BY <1>1, <3>1
    <3> QED BY <1>2, <1>3, <3>1, <3>2 DEF C!ToSet
  <2> QED BY <2>1, <2>2
<1> QED BY <1>1, <1>4, <1>5 DEF r

LEMMA OnlyMember ==
  ASSUME NEW id \in C!Ids
  PROVE  <<id>> \in Seq(C!Ids) /\ C!ToSet(<<id>>) = {id}
BY DEF C!ToSet

\* A moved pane is where it was put, or at the end, and no other is lost.
LEMMA MoveFacts ==
  ASSUME NEW s \in Seq(C!Ids), NEW id \in C!Ids, NEW index \in Nat \ {0}
  PROVE  /\ C!MovePaneOrder(s, id, index) \in Seq(C!Ids)
         /\ C!ToSet(C!MovePaneOrder(s, id, index)) = C!ToSet(s) \cup {id}
<1> DEFINE rest == C!Without(s, {id})
           j == IF index <= Len(rest) THEN index ELSE Len(rest) + 1
           a == SubSeq(rest, 1, j - 1)
           b == SubSeq(rest, j, Len(rest))
<1>1. rest \in Seq(C!Ids) /\ C!ToSet(rest) = C!ToSet(s) \ {id}
  BY WithoutFacts
<1>2. C!MovePaneOrder(s, id, index) = a \o <<id>> \o b
  BY DEF C!MovePaneOrder, C!InsertAt
<1> HIDE DEF rest
<1>3. j \in 1..Len(rest) + 1
  BY <1>1
<1> HIDE DEF j
<1> DEFINE n == Len(rest)
<1>4. /\ a \in Seq(C!Ids) /\ DOMAIN a = 1..j - 1 /\ \A i \in 1..j - 1 : a[i] = rest[i]
      /\ b \in Seq(C!Ids) /\ DOMAIN b = 1..n - j + 1 /\ \A i \in 1..n - j + 1 : b[i] = rest[j + i - 1]
  BY <1>1, <1>3
<1>8. n \in Nat /\ DOMAIN rest = 1..n
  BY <1>1
<1> HIDE DEF a, b, n
<1>5. C!ToSet(a) \cup C!ToSet(b) = C!ToSet(rest)
  <2>1. ASSUME NEW x \in C!ToSet(a) \cup C!ToSet(b) PROVE x \in C!ToSet(rest)
    <3>1. CASE x \in C!ToSet(a)
      <4>1. PICK i \in 1..j - 1 : x = a[i]
        BY <1>4, <3>1 DEF C!ToSet
      <4>2. i \in 1..n
        BY <1>3, <1>8, <4>1 DEF n
      <4> QED BY <1>4, <1>8, <4>1, <4>2 DEF C!ToSet
    <3>2. CASE x \in C!ToSet(b)
      <4>1. PICK i \in 1..n - j + 1 : x = b[i]
        BY <1>4, <3>2 DEF C!ToSet
      <4>2. j + i - 1 \in 1..n
        BY <1>3, <1>8, <4>1 DEF n
      <4> QED BY <1>4, <1>8, <4>1, <4>2 DEF C!ToSet
    <3> QED BY <2>1, <3>1, <3>2
  <2>2. ASSUME NEW x \in C!ToSet(rest) PROVE x \in C!ToSet(a) \cup C!ToSet(b)
    <3>1. PICK i \in 1..n : x = rest[i]
      BY <1>8, <2>2 DEF C!ToSet
    <3>2. CASE i < j
      BY <1>3, <1>4, <3>1, <3>2 DEF C!ToSet
    <3>3. CASE ~(i < j)
      <4>1. i - j + 1 \in 1..n - j + 1 /\ j + (i - j + 1) - 1 = i
        BY <1>3, <1>8, <3>1, <3>3
      <4> QED BY <1>4, <3>1, <4>1 DEF C!ToSet
    <3> QED BY <3>2, <3>3
  <2> QED BY <2>1, <2>2
<1>6. a \o <<id>> \in Seq(C!Ids) /\ C!ToSet(a \o <<id>>) = C!ToSet(a) \cup {id}
  BY <1>4, OnlyMember, SeqFacts
<1>7. a \o <<id>> \o b \in Seq(C!Ids) /\ C!ToSet(a \o <<id>> \o b) = C!ToSet(a) \cup {id} \cup C!ToSet(b)
  BY <1>4, <1>6, SeqFacts
<1> QED BY <1>1, <1>2, <1>5, <1>7

\* What is left of a view without a pane, and with a docked one.
LEMMA ViewFacts ==
  ASSUME NEW v \in ViewType, NEW id \in C!Ids
  PROVE  /\ v.order \in Seq(C!Ids) /\ v.docked \in Seq(C!Ids) /\ v.closing \subseteq C!Ids
         /\ C!Removed(v, id) \in ViewType
         /\ C!ToSet(C!Removed(v, id).order) = C!ToSet(v.order) \ {id}
         /\ C!Removed(v, id).docked = v.docked
         /\ C!ParkDockedPane(v, id) \in ViewType
         /\ C!ToSet(C!ParkDockedPane(v, id).docked) = C!ToSet(v.docked) \cup {id}
         /\ C!ParkDockedPane(v, id).order = v.order
<1>1. v.order \in Seq(C!Ids) /\ v.docked \in Seq(C!Ids) /\ v.closing \subseteq C!Ids
  BY DEF ViewType
<1>2. /\ C!Without(v.order, {id}) \in Seq(C!Ids) /\ C!ToSet(C!Without(v.order, {id})) = C!ToSet(v.order) \ {id}
      /\ C!Without(v.docked, {id}) \in Seq(C!Ids) /\ C!ToSet(C!Without(v.docked, {id})) = C!ToSet(v.docked) \ {id}
  BY <1>1, WithoutFacts
<1>3. /\ C!Removed(v, id) \in ViewType
      /\ C!Removed(v, id).order = C!Without(v.order, {id})
      /\ C!Removed(v, id).docked = v.docked
  BY <1>1, <1>2 DEF ViewType, MaybeId, C!Removed
<1> DEFINE d == <<id>> \o C!Without(v.docked, {id})
<1>4. d \in Seq(C!Ids) /\ C!ToSet(d) = C!ToSet(v.docked) \cup {id}
  <2> DEFINE w == C!Without(v.docked, {id})
  <2>1. w \in Seq(C!Ids) /\ C!ToSet(w) = C!ToSet(v.docked) \ {id}
    BY <1>2
  <2> HIDE DEF w
  <2>2. <<id>> \o w \in Seq(C!Ids) /\ C!ToSet(<<id>> \o w) = {id} \cup C!ToSet(w)
    <3> DEFINE one == <<id>>
    <3>1. one \in Seq(C!Ids) /\ C!ToSet(one) = {id}
      BY OnlyMember
    <3> HIDE DEF one
    <3>2. one \o w \in Seq(C!Ids) /\ C!ToSet(one \o w) = C!ToSet(one) \cup C!ToSet(w)
      BY <2>1, <3>1, SeqFacts
    <3> QED BY <3>1, <3>2 DEF one
  <2> QED BY <2>1, <2>2 DEF w
<1>5. C!ParkDockedPane(v, id) = [v EXCEPT !.docked = d]
  BY DEF C!ParkDockedPane
<1> HIDE DEF d
<1>6. /\ C!ParkDockedPane(v, id) \in ViewType
      /\ C!ParkDockedPane(v, id).order = v.order /\ C!ParkDockedPane(v, id).docked = d
  BY <1>4, <1>5 DEF ViewType
<1> QED BY <1>1, <1>2, <1>3, <1>4, <1>6

\* What is persisted of a view, and what comes back of it.
LEMMA SavedFacts ==
  ASSUME NEW v \in ViewType
  PROVE  /\ C!Saved(v) \in CachedType /\ C!Saved(v).refs \subseteq C!ToSet(C!Saved(v).order)
         /\ C!Saved(v).refs = C!ToSet(v.order) \ v.closing /\ C!Saved(v).docked = v.docked
<1>1. v.order \in Seq(C!Ids) /\ C!ToSet(v.order) \subseteq C!Ids
  BY DEF ViewType, C!ToSet
<1>2. C!Open(v) = C!ToSet(v.order) \ v.closing
  BY DEF C!Open
<1> QED BY <1>1, <1>2 DEF ViewType, CachedType, C!Saved

LEMMA RebuiltFacts ==
  ASSUME NEW c \in CachedType, c.refs \subseteq C!ToSet(c.order)
  PROVE  /\ C!Rebuilt(c) \in ViewType
         /\ C!ToSet(C!Rebuilt(c).order) = c.refs /\ C!Rebuilt(c).docked = c.docked
<1>1. c.order \in Seq(C!Ids) /\ C!ToSet(c.order) \subseteq C!Ids
  BY DEF CachedType, C!ToSet
<1>2. /\ C!Without(c.order, C!Ids \ c.refs) \in Seq(C!Ids)
      /\ C!ToSet(C!Without(c.order, C!Ids \ c.refs)) = c.refs
  <2> DEFINE w == C!Without(c.order, C!Ids \ c.refs)
  <2>1. w \in Seq(C!Ids) /\ C!ToSet(w) = C!ToSet(c.order) \ (C!Ids \ c.refs)
    BY <1>1, WithoutFacts
  <2> HIDE DEF w
  <2>2. C!ToSet(w) = c.refs
    BY <1>1, <2>1
  <2> QED BY <2>1, <2>2 DEF w
<1> QED BY <1>2 DEF CachedType, ViewType, MaybeId, C!Rebuilt

\* The facts of the types that every step needs.
LEMMA CanvasTypes ==
  ASSUME CanvasTypeOK
  PROVE  /\ view \in ViewType /\ cached \in CachedType /\ cached.refs \subseteq C!ToSet(cached.order)
         /\ view.order \in Seq(C!Ids) /\ view.docked \in Seq(C!Ids) /\ view.closing \subseteq C!Ids
         /\ C!ToSet(view.order) \subseteq C!Ids /\ C!ToSet(view.docked) \subseteq C!Ids
         /\ flight.spawns \in Seq(Keys) /\ C!ToSet(flight.spawns) \subseteq Keys
         /\ Keys \subseteq C!Ids
BY DEF CanvasTypeOK, ViewType, FlightType, C!ToSet, C!Ids

\* The actions of capturedRunStore.
LEMMA MountKeeps ==
  ASSUME CanvasInv, NEW key \in Keys, C!Mount(key)
  PROVE  CanvasInv'
<1>0. CanvasTypeOK
  BY DEF CanvasInv
<1>1. key \in C!ToSet(view.order) /\ route.ready /\ UNCHANGED <<view, cached, timers, runs, server, route, lost>>
  BY DEF C!Mount
<1>2. CASE runs.of[key] # 0 \/ key \in C!ToSet(flight.spawns)
  <2>1. UNCHANGED flight
    BY <1>2 DEF C!Mount, C!EnsureRun
  <2>2. CanvasTypeOK'
    BY <1>0, <1>1, <2>1 DEF CanvasTypeOK
  <2>3. RunsAreBehindPanes'
    BY <1>1, <2>1, ShownStays DEF C!stores, C!Shown
  <2> QED BY <2>2, <2>3 DEF CanvasInv
<1>3. CASE runs.of[key] = 0 /\ key \notin C!ToSet(flight.spawns)
  <2>1. /\ flight'.spawns = Append(flight.spawns, key) /\ flight'.born = flight.born
        /\ flight'.cancelled = flight.cancelled \ {key} /\ flight' \in FlightType
    <3>1. flight' = [flight EXCEPT !.spawns = Append(flight.spawns, key), !.cancelled = @ \ {key}, !.minimized = @ \ {key}]
      BY <1>3 DEF C!Mount, C!EnsureRun
    <3> DEFINE q == Append(flight.spawns, key)
    <3>2. q \in Seq(Keys)
      BY <1>0 DEF CanvasTypeOK, FlightType
    <3> HIDE DEF q
    <3>3. flight' = [flight EXCEPT !.spawns = q, !.cancelled = @ \ {key}, !.minimized = @ \ {key}]
      BY <3>1 DEF q
    <3>4. /\ flight'.spawns = q /\ flight'.born = flight.born
          /\ flight'.cancelled = flight.cancelled \ {key} /\ flight' \in FlightType
      BY <1>0, <3>2, <3>3 DEF CanvasTypeOK, FlightType
    <3> QED BY <3>4 DEF q
  <2>2. C!ToSet(flight'.spawns) = C!ToSet(flight.spawns) \cup {key}
    <3>1. flight.spawns \in Seq(C!Ids) /\ key \in C!Ids
      BY <1>0, CanvasTypes DEF C!Ids
    <3> QED BY <2>1, <3>1, AppendedMembers
  <2>3. CanvasTypeOK'
    BY <1>0, <1>1, <2>1 DEF CanvasTypeOK
  <2>4. RouteRules'
    BY <1>1 DEF RouteRules
  <2>5. ASSUME NEW k \in Keys PROVE SpawnRules(k)'
    BY <1>1, <1>3, <2>1, <2>2 DEF CanvasInv, RunsAreBehindPanes, SpawnRules, C!Shown
  <2>6. ASSUME NEW r \in 1..MaxRuns PROVE RunRules(r)'
    <3>1. flight.born[key] = 0 /\ r # 0
      BY <1>3, CanvasAssumption DEF CanvasInv, RunsAreBehindPanes, SpawnRules
    <3> QED BY <1>1, <2>1, <3>1 DEF CanvasInv, RunsAreBehindPanes, RunRules, C!Shown
  <2> QED BY <2>3, <2>4, <2>5, <2>6 DEF CanvasInv, RunsAreBehindPanes
<1> QED BY <1>2, <1>3

LEMMA PostingFacts ==
  ASSUME CanvasTypeOK, NEW key \in C!Posting
  PROVE  key \in C!ToSet(flight.spawns)
BY DEF CanvasTypeOK, FlightType, C!Posting, C!ToSet

LEMMA BackendSpawnsKeeps ==
  ASSUME CanvasInv, NEW key \in Keys, NEW run \in DOMAIN server, C!BackendSpawns(key, run)
  PROVE  CanvasInv'
<1>0. CanvasTypeOK
  BY DEF CanvasInv
<1>1. /\ key \in C!ToSet(flight.spawns) /\ flight.born[key] = 0 /\ server[run].key = C!None
      /\ UNCHANGED <<view, cached, timers, runs, route, lost>>
  BY <1>0, PostingFacts DEF C!BackendSpawns
<1>2. run \in 1..MaxRuns
  BY <1>0 DEF CanvasTypeOK, ServerType
<1>3. server' = [server EXCEPT ![run] = [key |-> key, live |-> TRUE]] /\ server' \in ServerType
  BY <1>0, <1>2 DEF C!BackendSpawns, CanvasTypeOK, ServerType
<1>4. /\ flight' \in FlightType /\ flight'.spawns = flight.spawns /\ flight'.cancelled = flight.cancelled
      /\ flight'.born = [flight.born EXCEPT ![key] = run]
  <2>1. [flight.born EXCEPT ![key] = run] \in OfKeys
    BY <1>0, <1>2 DEF CanvasTypeOK, FlightType, OfKeys
  <2>2. flight' = [flight EXCEPT !.born = [flight.born EXCEPT ![key] = run]]
    BY DEF C!BackendSpawns
  <2> QED BY <1>0, <2>1, <2>2 DEF CanvasTypeOK, FlightType
<1>5. \A k \in Keys : flight'.born[k] = IF k = key THEN run ELSE flight.born[k]
  BY <1>0, <1>4 DEF CanvasTypeOK, FlightType, OfKeys
<1>6. CanvasTypeOK'
  BY <1>0, <1>1, <1>3, <1>4 DEF CanvasTypeOK
<1>7. RouteRules'
  BY <1>1, <1>4 DEF CanvasInv, RunsAreBehindPanes, RouteRules
<1>8. ASSUME NEW k \in Keys PROVE SpawnRules(k)'
  BY <1>1, <1>4, <1>5 DEF CanvasInv, RunsAreBehindPanes, SpawnRules, C!Shown
<1>9. ASSUME NEW r \in 1..MaxRuns PROVE RunRules(r)'
  <2>1. CASE r = run
    <3>1. server'[r] = [key |-> key, live |-> TRUE]
      BY <1>0, <1>2, <1>3, <2>1 DEF CanvasTypeOK, ServerType
    <3>2. key \in lost \/ C!Shown(key) \/ key \in flight.cancelled
      BY <1>1 DEF CanvasInv, RunsAreBehindPanes, SpawnRules
    <3> QED BY <1>1, <1>4, <1>5, <2>1, <3>1, <3>2 DEF RunRules, C!Shown
  <2>2. CASE r # run
    <3>1. server'[r] = server[r] /\ r # 0
      BY <1>0, <1>3, <2>2, CanvasAssumption DEF CanvasTypeOK, ServerType
    <3> QED BY <1>1, <1>4, <1>5, <3>1 DEF CanvasInv, RunsAreBehindPanes, RunRules, C!Shown
  <2> QED BY <2>1, <2>2
<1> QED BY <1>6, <1>7, <1>8, <1>9 DEF CanvasInv, RunsAreBehindPanes

\* What is left of the spawns when one of them ends.
LEMMA SettledFacts ==
  ASSUME CanvasTypeOK, NEW key \in Keys, flight' = C!Settled(key)
  PROVE  /\ flight' \in FlightType /\ C!ToSet(flight'.spawns) = C!ToSet(flight.spawns) \ {key}
         /\ flight'.cancelled = flight.cancelled \ {key}
         /\ \A k \in Keys : flight'.born[k] = IF k = key THEN 0 ELSE flight.born[k]
<1>1. flight.spawns \in Seq(C!Ids)
  BY CanvasTypes DEF C!Ids
<1> DEFINE w == C!Without(flight.spawns, {key})
<1>2. w \in Seq(C!Ids) /\ C!ToSet(w) = C!ToSet(flight.spawns) \ {key}
  BY <1>1, WithoutFacts
<1>3. flight' = [flight EXCEPT !.spawns = w, !.born[key] = 0, !.cancelled = @ \ {key}, !.minimized = @ \ {key}]
  BY DEF C!Settled
<1> HIDE DEF w
<1>4. w \in Seq(Keys)
  <2>1. \A i \in 1..Len(w) : w[i] \in Keys
    <3> TAKE i \in 1..Len(w)
    <3>1. w[i] \in C!ToSet(w)
      BY <1>2 DEF C!ToSet
    <3> QED BY <1>2, <3>1, CanvasTypes
  <2> QED BY <1>2, <2>1
<1>5. [flight.born EXCEPT ![key] = 0] \in OfKeys
  BY CanvasAssumption DEF CanvasTypeOK, FlightType, OfKeys
<1>6. /\ flight' \in FlightType /\ flight'.spawns = w /\ flight'.cancelled = flight.cancelled \ {key}
      /\ flight'.born = [flight.born EXCEPT ![key] = 0]
  BY <1>3, <1>4, <1>5 DEF CanvasTypeOK, FlightType
<1>7. \A k \in Keys : flight'.born[k] = IF k = key THEN 0 ELSE flight.born[k]
  BY <1>6 DEF CanvasTypeOK, FlightType, OfKeys
<1> QED BY <1>2, <1>6, <1>7

LEMMA SpawnedKeeps ==
  ASSUME CanvasInv, NEW key \in Keys, C!Spawned(key)
  PROVE  CanvasInv'
<1>0. CanvasTypeOK
  BY DEF CanvasInv
<1>1. /\ key \in C!ToSet(flight.spawns) /\ flight.born[key] # 0 /\ runs.of[key] = 0
      /\ UNCHANGED <<view, cached, timers, route, lost>>
  BY <1>0, PostingFacts DEF C!Spawned, CanvasInv, RunsAreBehindPanes, SpawnRules
<1>2. /\ flight' \in FlightType /\ C!ToSet(flight'.spawns) = C!ToSet(flight.spawns) \ {key}
      /\ flight'.cancelled = flight.cancelled \ {key}
      /\ \A k \in Keys : flight'.born[k] = IF k = key THEN 0 ELSE flight.born[k]
  BY <1>0, SettledFacts DEF C!Spawned
<1>3. flight.born[key] \in 1..MaxRuns
  BY <1>0, <1>1, CanvasAssumption DEF CanvasTypeOK, FlightType, OfKeys
<1>4. route.ready
  BY <1>0, <1>1 DEF CanvasInv, RunsAreBehindPanes, RouteRules, C!ToSet
<1>5. RouteRules'
  BY <1>1, <1>4 DEF RouteRules
<1>6. CASE key \in flight.cancelled
  <2>1. server' = C!Ended(server, flight.born[key]) /\ UNCHANGED runs
    BY <1>6 DEF C!Spawned
  <2>2. server' \in ServerType
    BY <1>0, <1>3, <2>1 DEF CanvasTypeOK, ServerType, C!Ended
  <2>3. CanvasTypeOK'
    BY <1>0, <1>1, <1>2, <2>1, <2>2 DEF CanvasTypeOK
  <2>4. ASSUME NEW k \in Keys PROVE SpawnRules(k)'
    BY <1>1, <1>2, <2>1 DEF CanvasInv, RunsAreBehindPanes, SpawnRules, C!Shown
  <2>5. ASSUME NEW r \in 1..MaxRuns PROVE RunRules(r)'
    <3>1. /\ server'[r].key = server[r].key
          /\ server'[r].live => server[r].live /\ r # flight.born[key]
      BY <1>0, <2>1 DEF CanvasTypeOK, ServerType, C!Ended
    <3> QED BY <1>1, <1>2, <2>1, <3>1 DEF CanvasInv, RunsAreBehindPanes, RunRules, C!Shown
  <2> QED BY <1>5, <2>3, <2>4, <2>5 DEF CanvasInv, RunsAreBehindPanes
<1>7. CASE key \notin flight.cancelled
  <2>1. /\ UNCHANGED server
        /\ runs'.of = [runs.of EXCEPT ![key] = flight.born[key]]
        /\ runs'.minimized \subseteq runs.minimized \cup {key}
        /\ DOMAIN runs' = {"of", "minimized"} /\ runs' = [of |-> runs'.of, minimized |-> runs'.minimized]
    BY <1>7 DEF C!Spawned
  <2>2. runs' \in RunsType
    <3>1. runs'.of \in OfKeys
      BY <1>0, <1>3, <2>1 DEF CanvasTypeOK, RunsType, OfKeys
    <3>2. runs'.minimized \in SUBSET Keys
      BY <1>0, <2>1 DEF CanvasTypeOK, RunsType
    <3> QED BY <2>1, <3>1, <3>2 DEF RunsType
  <2>3. \A k \in Keys : runs'.of[k] = IF k = key THEN flight.born[key] ELSE runs.of[k]
    BY <1>0, <2>1 DEF CanvasTypeOK, RunsType, OfKeys
  <2>4. CanvasTypeOK'
    BY <1>0, <1>1, <1>2, <2>1, <2>2 DEF CanvasTypeOK
  <2>5. ASSUME NEW k \in Keys PROVE SpawnRules(k)'
    BY <1>1, <1>2, <2>3 DEF CanvasInv, RunsAreBehindPanes, SpawnRules, C!Shown
  <2>6. ASSUME NEW r \in 1..MaxRuns PROVE RunRules(r)'
    BY <1>1, <1>2, <1>7, <2>1, <2>3, CanvasAssumption DEF CanvasInv, RunsAreBehindPanes, RunRules, C!Shown
  <2> QED BY <1>5, <2>4, <2>5, <2>6 DEF CanvasInv, RunsAreBehindPanes
<1> QED BY <1>6, <1>7

LEMMA SpawnFailsKeeps ==
  ASSUME CanvasInv, NEW key \in Keys, C!SpawnFails(key)
  PROVE  CanvasInv'
<1>0. CanvasTypeOK
  BY DEF CanvasInv
<1>1. /\ key \in C!ToSet(flight.spawns) /\ flight.born[key] = 0
      /\ UNCHANGED <<view, cached, timers, route, lost, runs, server>>
  BY <1>0, PostingFacts DEF C!SpawnFails
<1>2. /\ flight' \in FlightType /\ C!ToSet(flight'.spawns) = C!ToSet(flight.spawns) \ {key}
      /\ flight'.cancelled = flight.cancelled \ {key}
      /\ \A k \in Keys : flight'.born[k] = IF k = key THEN 0 ELSE flight.born[k]
  BY <1>0, SettledFacts DEF C!SpawnFails
<1>3. CanvasTypeOK'
  BY <1>0, <1>1, <1>2 DEF CanvasTypeOK
<1>4. route.ready
  BY <1>0, <1>1 DEF CanvasInv, RunsAreBehindPanes, RouteRules, C!ToSet
<1>5. RouteRules'
  BY <1>1, <1>4 DEF RouteRules
<1>6. ASSUME NEW k \in Keys PROVE SpawnRules(k)'
  BY <1>1, <1>2 DEF CanvasInv, RunsAreBehindPanes, SpawnRules, C!Shown
<1>7. ASSUME NEW r \in 1..MaxRuns PROVE RunRules(r)'
  BY <1>1, <1>2, CanvasAssumption DEF CanvasInv, RunsAreBehindPanes, RunRules, C!Shown
<1> QED BY <1>3, <1>5, <1>6, <1>7 DEF CanvasInv, RunsAreBehindPanes

LEMMA RunEndsKeeps ==
  ASSUME CanvasInv, NEW run \in DOMAIN server, C!RunEnds(run)
  PROVE  CanvasInv'
<1>0. CanvasTypeOK
  BY DEF CanvasInv
<1>1. server' = C!Ended(server, run) /\ UNCHANGED <<view, cached, timers, route, lost, runs, flight>>
  BY DEF C!RunEnds
<1>2. server' \in ServerType
  BY <1>0, <1>1 DEF CanvasTypeOK, ServerType, C!Ended
<1>3. CanvasTypeOK'
  BY <1>0, <1>1, <1>2 DEF CanvasTypeOK
<1>4. RouteRules'
  BY <1>1 DEF CanvasInv, RunsAreBehindPanes, RouteRules
<1>5. ASSUME NEW k \in Keys PROVE SpawnRules(k)'
  BY <1>1 DEF CanvasInv, RunsAreBehindPanes, SpawnRules, C!Shown
<1>6. ASSUME NEW r \in 1..MaxRuns PROVE RunRules(r)'
  <2>1. server'[r].key = server[r].key /\ (server'[r].live => server[r].live)
    BY <1>0, <1>1 DEF CanvasTypeOK, ServerType, C!Ended
  <2> QED BY <1>1, <2>1 DEF CanvasInv, RunsAreBehindPanes, RunRules, C!Shown
<1> QED BY <1>3, <1>4, <1>5, <1>6 DEF CanvasInv, RunsAreBehindPanes

\* A step that changes the view only, and shows what was shown.
LEMMA ViewChanges ==
  ASSUME CanvasInv, view' \in ViewType, UNCHANGED <<cached, lost, route>>, UNCHANGED C!stores,
         timers' \in Seq(TimerType),
         C!ToSet(view.order) \cup C!ToSet(view.docked) \subseteq C!ToSet(view'.order) \cup C!ToSet(view'.docked)
  PROVE  CanvasInv'
<1>1. CanvasTypeOK'
  BY DEF CanvasInv, CanvasTypeOK, C!stores
<1>2. \A k \in Keys : C!Shown(k) => C!Shown(k)'
  BY DEF C!Shown
<1>3. RunsAreBehindPanes'
  BY <1>2, ShownStays
<1> QED BY <1>1, <1>3 DEF CanvasInv

\* A step that runs a hook of a pane.
LEMMA HookChanges ==
  ASSUME CanvasInv, view' \in ViewType, UNCHANGED <<cached, lost, route>>,
         timers' \in Seq(TimerType),
         NEW id \in C!Ids, NEW mode \in {"close", "minimize", "restore"}, C!Hook(id, mode),
         \A x \in C!ToSet(view.order) \cup C!ToSet(view.docked) :
           x \in C!ToSet(view'.order) \cup C!ToSet(view'.docked) \/ (x = id /\ mode = "close")
  PROVE  CanvasInv'
<1>1. \A k \in Keys : C!Shown(k) => C!Shown(k)' \/ (k = id /\ mode = "close")
  BY DEF C!Shown
<1>2. /\ RunsAreBehindPanes'
      /\ runs' \in RunsType /\ flight' \in FlightType /\ server' \in ServerType
  BY <1>1, HookKeeps
<1>3. CanvasTypeOK'
  BY <1>2 DEF CanvasInv, CanvasTypeOK
<1> QED BY <1>2, <1>3 DEF CanvasInv

LEMMA DismissKeeps ==
  ASSUME CanvasInv, NEW id \in C!Ids, NEW mode \in {"close", "minimize"}, C!Dismiss(id, mode), C!Rest
  PROVE  CanvasInv'
<1>1. timers' \in Seq(TimerType)
  <2>1. [id |-> id, mode |-> mode] \in TimerType
    BY DEF TimerType
  <2>2. timers \in Seq(TimerType) /\ timers' = Append(timers, [id |-> id, mode |-> mode])
    BY DEF CanvasInv, CanvasTypeOK, C!Dismiss
  <2> QED BY <2>1, <2>2
<1>2. view' \in ViewType /\ view'.order = view.order /\ view'.docked = view.docked
  BY DEF CanvasInv, CanvasTypeOK, ViewType, C!Dismiss
<1> QED BY <1>1, <1>2, ViewChanges DEF C!Dismiss, C!Rest

LEMMA DismissalEndsKeeps ==
  ASSUME CanvasInv, C!DismissalEnds
  PROVE  CanvasInv'
<1> DEFINE t == Head(timers)
<1>1. t.id \in C!Ids /\ t.mode \in {"close", "minimize"} /\ timers' \in Seq(TimerType)
  <2>1. t \in TimerType
    BY DEF CanvasInv, CanvasTypeOK, C!DismissalEnds
  <2>2. timers' \in Seq(TimerType)
    BY DEF CanvasInv, CanvasTypeOK, C!DismissalEnds
  <2> QED BY <2>1, <2>2 DEF TimerType
<1>2. UNCHANGED <<cached, lost, route>> /\ view \in ViewType
  BY DEF CanvasInv, CanvasTypeOK, C!DismissalEnds, C!Rest
<1>3. CASE t.id \notin C!ToSet(view.order)
  <2>1. UNCHANGED view /\ UNCHANGED C!stores
    BY <1>3 DEF C!DismissalEnds
  <2> QED BY <1>1, <1>2, <2>1, ViewChanges
<1>4. CASE t.id \in C!ToSet(view.order)
  <2>1. /\ C!Hook(t.id, t.mode)
        /\ view' = IF t.mode = "minimize" THEN C!ParkDockedPane(C!Removed(view, t.id), t.id) ELSE C!Removed(view, t.id)
    BY <1>4 DEF C!DismissalEnds
  <2> HIDE DEF t
  <2> DEFINE gone == C!Removed(view, t.id)
  <2>2. gone \in ViewType /\ C!ToSet(gone.order) = C!ToSet(view.order) \ {t.id} /\ gone.docked = view.docked
    BY <1>1, <1>2, ViewFacts
  <2> HIDE DEF gone
  <2>3. /\ C!ParkDockedPane(gone, t.id) \in ViewType /\ C!ParkDockedPane(gone, t.id).order = gone.order
        /\ C!ToSet(C!ParkDockedPane(gone, t.id).docked) = C!ToSet(gone.docked) \cup {t.id}
    BY <1>1, <2>2, ViewFacts
  <2>4. CASE t.mode = "minimize"
    <3>1. view' = C!ParkDockedPane(gone, t.id)
      BY <2>1, <2>4 DEF gone
    <3> QED BY <1>1, <1>2, <2>1, <2>2, <2>3, <2>4, <3>1, HookChanges
  <2>5. CASE t.mode = "close"
    <3>1. view' = gone
      BY <2>1, <2>5 DEF gone
    <3> QED BY <1>1, <1>2, <2>1, <2>2, <2>5, <3>1, HookChanges
  <2> QED BY <1>1, <2>4, <2>5
<1> QED BY <1>3, <1>4

LEMMA RestoredKeeps ==
  ASSUME CanvasInv, NEW id \in C!Ids, NEW index \in Nat \ {0}, C!Restored(id, index), C!Rest
  PROVE  CanvasInv'
<1> DEFINE d == C!Without(view.docked, {id})
           o == C!MovePaneOrder(view.order, id, index)
<1>1. view \in ViewType /\ view.order \in Seq(C!Ids) /\ view.docked \in Seq(C!Ids)
  BY CanvasTypes DEF CanvasInv
<1>2. d \in Seq(C!Ids) /\ C!ToSet(d) = C!ToSet(view.docked) \ {id}
  BY <1>1, WithoutFacts
<1>3. o \in Seq(C!Ids) /\ C!ToSet(o) = C!ToSet(view.order) \cup {id}
  BY <1>1, MoveFacts
<1>4. view' = [view EXCEPT !.docked = d, !.order = o, !.closing = @ \ {id}]
  BY DEF C!Restored
<1> HIDE DEF d, o
<1>5. view' \in ViewType /\ view'.order = o /\ view'.docked = d
  BY <1>1, <1>2, <1>3, <1>4 DEF ViewType
<1>6. /\ C!Hook(id, "restore") /\ UNCHANGED <<cached, lost, route>>
      /\ timers' \in Seq(TimerType)
  BY DEF CanvasInv, CanvasTypeOK, C!Restored, C!Rest
<1> QED BY <1>2, <1>3, <1>5, <1>6, HookChanges

LEMMA LenFacts ==
  ASSUME CanvasTypeOK
  PROVE  Len(view.order) + 1 \in Nat \ {0} /\ 1 \in Nat \ {0}
BY CanvasTypes

LEMMA SpawnPaneKeeps ==
  ASSUME CanvasInv, NEW id \in C!Ids, C!SpawnPane(id)
  PROVE  CanvasInv'
<1>1. view \in ViewType /\ view.order \in Seq(C!Ids) /\ C!Rest
  BY CanvasTypes DEF CanvasInv, C!SpawnPane
<1>2. CASE id \in C!ToSet(view.order)
  BY <1>1, <1>2, ViewChanges DEF C!SpawnPane, C!Rest, CanvasInv, CanvasTypeOK
<1>3. CASE id \notin C!ToSet(view.order) /\ id \in C!ToSet(view.docked)
  BY <1>1, <1>3, LenFacts, RestoredKeeps DEF C!SpawnPane, CanvasInv
<1>4. CASE id \notin C!ToSet(view.order) /\ id \notin C!ToSet(view.docked)
  <2> DEFINE o == Append(view.order, id)
  <2>1. o \in Seq(C!Ids) /\ C!ToSet(o) = C!ToSet(view.order) \cup {id}
    BY <1>1, AppendedMembers
  <2>2. view' = [view EXCEPT !.order = o] /\ UNCHANGED timers /\ UNCHANGED C!stores
    BY <1>4 DEF C!SpawnPane
  <2> HIDE DEF o
  <2>3. view' \in ViewType /\ view'.order = o /\ view'.docked = view.docked
    BY <1>1, <2>1, <2>2 DEF ViewType
  <2> QED BY <1>1, <2>1, <2>2, <2>3, ViewChanges DEF C!Rest, CanvasInv, CanvasTypeOK
<1> QED BY <1>2, <1>3, <1>4

LEMMA DockPaneKeeps ==
  ASSUME CanvasInv, C!DockPane
  PROVE  CanvasInv'
<1>1. view \in ViewType /\ C!Rest /\ "resource" \in C!Ids
  BY DEF CanvasInv, CanvasTypeOK, C!DockPane, C!Ids
<1>2. CASE "resource" \in C!ToSet(view.order)
  BY <1>1, <1>2, DismissKeeps DEF C!DockPane
<1>3. CASE "resource" \notin C!ToSet(view.order)
  <2>1. view' = C!ParkDockedPane(view, "resource") /\ UNCHANGED timers /\ UNCHANGED C!stores
    BY <1>3 DEF C!DockPane
  <2>2. /\ view' \in ViewType /\ view'.order = view.order
        /\ C!ToSet(view'.docked) = C!ToSet(view.docked) \cup {"resource"}
    BY <1>1, <2>1, ViewFacts
  <2> QED BY <1>1, <2>1, <2>2, ViewChanges DEF C!Rest, CanvasInv, CanvasTypeOK
<1> QED BY <1>2, <1>3

LEMMA CloseDockedPaneKeeps ==
  ASSUME CanvasInv, NEW id \in C!Ids, C!CloseDockedPane(id)
  PROVE  CanvasInv'
<1> DEFINE d == C!Without(view.docked, {id})
<1>1. view \in ViewType /\ view.docked \in Seq(C!Ids)
  BY CanvasTypes DEF CanvasInv
<1>2. d \in Seq(C!Ids) /\ C!ToSet(d) = C!ToSet(view.docked) \ {id}
  BY <1>1, WithoutFacts
<1>3. view' = [view EXCEPT !.docked = d]
  BY DEF C!CloseDockedPane
<1> HIDE DEF d
<1>4. view' \in ViewType /\ view'.order = view.order /\ view'.docked = d
  BY <1>1, <1>2, <1>3 DEF ViewType
<1>5. /\ C!Hook(id, "close") /\ UNCHANGED <<cached, lost, route>>
      /\ timers' \in Seq(TimerType)
  BY DEF CanvasInv, CanvasTypeOK, C!CloseDockedPane, C!Rest
<1> QED BY <1>2, <1>4, <1>5, HookChanges

LEMMA ToggleKeeps ==
  ASSUME CanvasInv, NEW id \in C!Ids, C!Toggle(id) \/ C!ResetViewport
  PROVE  CanvasInv'
<1>1. UNCHANGED <<cached, lost, route, timers>> /\ UNCHANGED C!stores
  BY DEF C!Toggle, C!ResetViewport, C!Rest
<1>2. /\ view' \in ViewType /\ view'.order = view.order /\ view'.docked = view.docked
  BY DEF CanvasInv, CanvasTypeOK, ViewType, MaybeId, C!Toggle, C!ResetViewport
<1> QED BY <1>1, <1>2, ViewChanges DEF CanvasInv, CanvasTypeOK

LEMMA ReorderKeeps ==
  ASSUME CanvasInv, NEW id \in C!Ids, NEW index \in Nat, C!Reorder(id, index)
  PROVE  CanvasInv'
<1> DEFINE o == C!MovePaneOrder(view.order, id, index)
<1>1. view \in ViewType /\ view.order \in Seq(C!Ids) /\ index \in Nat \ {0}
  <2>1. view.order \in Seq(C!Ids) /\ view \in ViewType
    BY CanvasTypes DEF CanvasInv
  <2> QED BY <2>1 DEF C!Reorder
<1>2. o \in Seq(C!Ids) /\ C!ToSet(o) = C!ToSet(view.order) \cup {id}
  BY <1>1, MoveFacts
<1>3. view' = [view EXCEPT !.order = o] /\ UNCHANGED <<cached, lost, route, timers>> /\ UNCHANGED C!stores
  BY DEF C!Reorder, C!Rest
<1> HIDE DEF o
<1>4. view' \in ViewType /\ view'.order = o /\ view'.docked = view.docked
  BY <1>1, <1>2, <1>3 DEF ViewType
<1> QED BY <1>2, <1>3, <1>4, ViewChanges DEF CanvasInv, CanvasTypeOK

\* What replaces the view keeps what it showed, or it is lost.
LEMMA InitializeCanvasKeeps ==
  ASSUME CanvasInv, NEW c \in C!Canvases, C!InitializeCanvas(c)
  PROVE  CanvasInv'
<1>1. /\ view \in ViewType /\ cached \in CachedType /\ cached.refs \subseteq C!ToSet(cached.order)
      /\ UNCHANGED <<timers, route>> /\ UNCHANGED C!stores
      /\ lost' = lost \cup (view.closing \cap Keys)
  BY DEF CanvasInv, CanvasTypeOK, C!InitializeCanvas
<1>2. /\ C!Saved(view) \in CachedType /\ C!Saved(view).refs \subseteq C!ToSet(C!Saved(view).order)
      /\ C!Saved(view).refs = C!ToSet(view.order) \ view.closing /\ C!Saved(view).docked = view.docked
  BY <1>1, SavedFacts
<1>3. CASE c = canvas
  <2> DEFINE v == C!Rebuilt(C!Saved(view))
  <2>1. v \in ViewType /\ C!ToSet(v.order) = C!ToSet(view.order) \ view.closing /\ v.docked = view.docked
    BY <1>2, RebuiltFacts
  <2>2. view' = [v EXCEPT !.framed = view.framed] /\ UNCHANGED cached
    BY <1>3 DEF C!InitializeCanvas
  <2> HIDE DEF v
  <2>3. view' \in ViewType /\ view'.order = v.order /\ view'.docked = v.docked
    BY <1>1, <2>1, <2>2 DEF ViewType
  <2>4. CanvasTypeOK'
    BY <1>1, <2>2, <2>3 DEF CanvasInv, CanvasTypeOK, C!stores
  <2>5. \A k \in Keys : C!Shown(k) => C!Shown(k)' \/ k \in lost'
    BY <1>1, <2>1, <2>2, <2>3 DEF C!Shown
  <2>6. RunsAreBehindPanes'
    BY <1>1, <2>5, ShownStays
  <2> QED BY <2>4, <2>6 DEF CanvasInv
<1>4. CASE c # canvas
  <2>1. view' = C!Rebuilt(cached) /\ cached' = C!Saved(view)
    BY <1>4 DEF C!InitializeCanvas
  <2>2. view' \in ViewType /\ C!ToSet(view'.order) = cached.refs /\ view'.docked = cached.docked
    BY <1>1, <2>1, RebuiltFacts
  <2>3. CanvasTypeOK'
    BY <1>1, <1>2, <2>1, <2>2 DEF CanvasInv, CanvasTypeOK, C!stores
  <2>4. \A k \in Keys : C!Shown(k) => C!Shown(k)' \/ k \in lost'
    BY <1>1, <1>2, <2>1, <2>2 DEF C!Shown
  <2>5. RunsAreBehindPanes'
    BY <1>1, <2>4, ShownStays
  <2> QED BY <2>3, <2>5 DEF CanvasInv
<1> QED BY <1>3, <1>4

LEMMA ReloadKeeps ==
  ASSUME CanvasInv, C!Reload
  PROVE  CanvasInv'
<1>1. /\ view \in ViewType /\ UNCHANGED <<cached, runs, server>> /\ timers' = <<>>
      /\ lost' = lost \cup (view.closing \cap Keys) \cup C!ToSet(flight.spawns)
      /\ flight' = [spawns |-> <<>>, born |-> [k \in Keys |-> 0], cancelled |-> {}, minimized |-> {}]
  BY DEF CanvasInv, CanvasTypeOK, C!Reload
<1>2. /\ C!Saved(view) \in CachedType /\ C!Saved(view).refs \subseteq C!ToSet(C!Saved(view).order)
      /\ C!Saved(view).refs = C!ToSet(view.order) \ view.closing /\ C!Saved(view).docked = view.docked
  BY <1>1, SavedFacts
<1>3. view' \in ViewType /\ C!ToSet(view'.order) = C!ToSet(view.order) \ view.closing /\ view'.docked = view.docked
  BY <1>2, RebuiltFacts DEF C!Reload
<1>4. /\ flight' \in FlightType /\ flight'.spawns = <<>> /\ flight'.cancelled = {}
      /\ \A k \in Keys : flight'.born[k] = 0
  BY <1>1, CanvasAssumption DEF FlightType, OfKeys
<1>5. C!ToSet(flight'.spawns) = {}
  BY <1>4 DEF C!ToSet
<1>6. C!ToSet(flight.spawns) \subseteq Keys
  BY CanvasTypes DEF CanvasInv
<1>7. CanvasTypeOK'
  BY <1>1, <1>3, <1>4, <1>6 DEF CanvasInv, CanvasTypeOK
<1>8. RouteRules'
  <2>1. \A k \in DOMAIN C!Remembered : C!Remembered[k] = runs.of[k]
    BY DEF C!Remembered
  <2>2. route'.candidates = C!Remembered
    BY DEF C!Reload
  <2> QED BY <1>1, <1>4, <2>1, <2>2 DEF RouteRules
<1>9. \A k \in Keys : C!Shown(k) => C!Shown(k)' \/ k \in lost'
  BY <1>1, <1>3 DEF C!Shown
<1>10. ASSUME NEW k \in Keys PROVE SpawnRules(k)'
  BY <1>4, <1>5 DEF SpawnRules
<1>11. ASSUME NEW r \in 1..MaxRuns PROVE RunRules(r)'
  <2>1. SUFFICES ASSUME server[r].live
                 PROVE  \E k \in Keys : server[r].key = k /\ (k \in lost' \/ (C!Shown(k)' /\ r = runs.of[k]))
    BY <1>1 DEF RunRules
  <2>2. PICK k \in Keys :
          /\ server[r].key = k
          /\ \/ k \in lost
             \/ C!Shown(k) /\ r \in {runs.of[k], flight.born[k]}
             \/ flight.born[k] = r /\ k \in flight.cancelled
    BY <2>1 DEF CanvasInv, RunsAreBehindPanes, RunRules
  <2>3. flight.born[k] = r => k \in lost'
    <3>1. r # 0
      BY CanvasAssumption
    <3> QED BY <1>1, <2>2, <3>1 DEF CanvasInv, RunsAreBehindPanes, SpawnRules
  <2>4. k \in lost => k \in lost'
    BY <1>1
  <2>5. k \in lost' \/ (C!Shown(k)' /\ r = runs.of[k])
    BY <1>9, <2>2, <2>3, <2>4
  <2> QED BY <2>2, <2>5
<1> QED BY <1>7, <1>8, <1>10, <1>11 DEF CanvasInv, RunsAreBehindPanes

LEMMA ReconciledKeeps ==
  ASSUME CanvasInv, NEW ok \in BOOLEAN, C!Reconciled(ok)
  PROVE  CanvasInv'
<1> DEFINE K == C!Stale(ok)
<1>0. CanvasTypeOK
  BY DEF CanvasInv
<1>1. /\ ~route.ready /\ route'.ready /\ UNCHANGED <<cached, timers, server, lost>>
      /\ runs' = [of |-> [k \in Keys |-> IF k \in K THEN 0 ELSE runs.of[k]], minimized |-> runs.minimized \ K]
      /\ flight' = [flight EXCEPT !.cancelled = @ \ K, !.minimized = @ \ K]
      /\ C!DropCapturedRunPanes(K)
  BY DEF C!Reconciled
<1>2. \A k \in K : k \in DOMAIN route.candidates /\ ~server[route.candidates[k]].live
  BY DEF C!Stale
<1> HIDE DEF K
<1> DEFINE o == C!Without(view.order, K)
           d == C!Without(view.docked, K)
<1>3. view \in ViewType /\ view.order \in Seq(C!Ids) /\ view.docked \in Seq(C!Ids)
  BY <1>0, CanvasTypes
<1>4. /\ o \in Seq(C!Ids) /\ C!ToSet(o) = C!ToSet(view.order) \ K
      /\ d \in Seq(C!Ids) /\ C!ToSet(d) = C!ToSet(view.docked) \ K
  BY <1>3, WithoutFacts
<1>5. view' = [order |-> o, closing |-> view.closing \ K, docked |-> d,
               expanded |-> IF view.expanded \in K THEN C!None ELSE view.expanded,
               framed |-> IF view.framed \in K THEN C!None ELSE view.framed]
  BY <1>1 DEF C!DropCapturedRunPanes
<1> HIDE DEF o, d
<1>6. view' \in ViewType /\ view'.order = o /\ view'.docked = d
  BY <1>3, <1>4, <1>5 DEF ViewType, MaybeId
<1>7. runs' \in RunsType /\ \A k \in Keys : runs'.of[k] = IF k \in K THEN 0 ELSE runs.of[k]
  BY <1>0, <1>1, CanvasAssumption DEF CanvasTypeOK, RunsType, OfKeys
<1>8. flight' \in FlightType /\ flight'.spawns = flight.spawns /\ flight'.born = flight.born
  BY <1>0, <1>1 DEF CanvasTypeOK, FlightType
<1>9. flight.spawns = <<>> /\ C!ToSet(flight.spawns) = {}
  BY <1>1 DEF CanvasInv, RunsAreBehindPanes, RouteRules, C!ToSet
<1>10. \A k \in Keys : flight.born[k] = 0
  BY <1>9 DEF CanvasInv, RunsAreBehindPanes, SpawnRules
<1>11. CanvasTypeOK'
  BY <1>0, <1>1, <1>6, <1>7, <1>8 DEF CanvasTypeOK
<1>12. RouteRules'
  BY <1>1 DEF RouteRules
<1>13. ASSUME NEW k \in Keys PROVE SpawnRules(k)'
  BY <1>8, <1>9, <1>10 DEF SpawnRules
<1>14. \A k \in Keys \ K : C!Shown(k) => C!Shown(k)'
  BY <1>1, <1>4, <1>6 DEF C!Shown
<1>15. ASSUME NEW r \in 1..MaxRuns PROVE RunRules(r)'
  <2>1. SUFFICES ASSUME server[r].live
                 PROVE  \E k \in Keys : server[r].key = k /\ (k \in lost \/ (C!Shown(k)' /\ r = runs'.of[k]))
    BY <1>1 DEF RunRules
  <2>2. PICK k \in Keys :
          /\ server[r].key = k
          /\ \/ k \in lost
             \/ C!Shown(k) /\ r \in {runs.of[k], flight.born[k]}
             \/ flight.born[k] = r /\ k \in flight.cancelled
    BY <2>1 DEF CanvasInv, RunsAreBehindPanes, RunRules
  <2>3. r # 0
    BY CanvasAssumption
  <2>4. k \notin lost => C!Shown(k) /\ r = runs.of[k]
    BY <1>10, <2>2, <2>3
  <2>5. k \in K => k \in lost
    BY <1>1, <1>2, <2>1, <2>3, <2>4 DEF CanvasInv, RunsAreBehindPanes, RouteRules
  <2>6. k \in lost \/ (C!Shown(k)' /\ r = runs'.of[k])
    BY <1>7, <1>14, <2>2, <2>4, <2>5
  <2> QED BY <2>2, <2>6
<1> QED BY <1>11, <1>12, <1>13, <1>15 DEF CanvasInv, RunsAreBehindPanes

LEMMA CanvasInitHolds == C!Init => CanvasInv
<1> SUFFICES ASSUME C!Init PROVE CanvasInv
  OBVIOUS
<1>1. C!Initial \in ViewType
  BY DEF C!Initial, ViewType, MaybeId, C!Ids
<1>2. C!Saved(C!Initial) \in CachedType /\ C!Saved(C!Initial).refs \subseteq C!ToSet(C!Saved(C!Initial).order)
  BY <1>1, SavedFacts
<1>3. /\ runs \in RunsType /\ flight \in FlightType /\ server \in ServerType
      /\ flight.spawns = <<>> /\ C!ToSet(flight.spawns) = {} /\ \A k \in Keys : flight.born[k] = 0
  BY CanvasAssumption DEF C!Init, RunsType, FlightType, ServerType, OfKeys, C!ToSet
<1>4. timers \in Seq(TimerType)
  BY DEF C!Init
<1>5. CanvasTypeOK
  BY <1>1, <1>2, <1>3, <1>4 DEF C!Init, CanvasTypeOK
<1>6. RunsAreBehindPanes
  BY <1>3 DEF C!Init, RunsAreBehindPanes, RouteRules, SpawnRules, RunRules
<1> QED BY <1>5, <1>6 DEF CanvasInv

LEMMA CanvasStep == CanvasInv /\ [C!Next]_(C!vars) => CanvasInv'
<1> SUFFICES ASSUME CanvasInv, [C!Next]_(C!vars) PROVE CanvasInv'
  OBVIOUS
<1>1. CASE UNCHANGED C!vars
  <2>1. UNCHANGED <<view, cached, timers, runs, flight, server, route, lost>>
    BY <1>1 DEF C!vars
  <2>2. CanvasTypeOK'
    BY <2>1 DEF CanvasInv, CanvasTypeOK
  <2>3. RunsAreBehindPanes'
    BY <2>1, ShownStays DEF C!stores, C!Shown
  <2> QED BY <2>2, <2>3 DEF CanvasInv
<1>2. CASE \E k \in Keys : C!Mount(k) \/ C!Spawned(k) \/ C!SpawnFails(k)
  BY <1>2, MountKeeps, SpawnedKeeps, SpawnFailsKeeps
<1>3. CASE \E k \in Keys, r \in DOMAIN server : C!BackendSpawns(k, r)
  BY <1>3, BackendSpawnsKeeps
<1>4. CASE \E r \in DOMAIN server : C!RunEnds(r)
  BY <1>4, RunEndsKeeps
<1>5. ASSUME NEW id \in C!Ids,
             C!ClosePane(id) \/ C!MinimizePane(id)
      PROVE  CanvasInv'
  BY <1>5, DismissKeeps DEF C!ClosePane, C!MinimizePane
<1>6. ASSUME NEW id \in C!Ids, C!RestorePane(id)
      PROVE  CanvasInv'
  BY <1>6, LenFacts, RestoredKeeps DEF C!RestorePane, CanvasInv
<1>7. ASSUME NEW id \in C!Ids,
             C!SpawnPane(id) \/ C!CloseDockedPane(id) \/ C!Toggle(id)
             \/ \E i \in 1..C!Cardinality(C!Ids) : C!Reorder(id, i)
      PROVE  CanvasInv'
  <2>1. CASE \E i \in 1..C!Cardinality(C!Ids) : C!Reorder(id, i)
    <3>1. PICK i \in 1..C!Cardinality(C!Ids) : C!Reorder(id, i)
      BY <2>1
    <3>2. i \in DOMAIN view.order /\ view.order \in Seq(C!Ids)
      BY <3>1, CanvasTypes DEF CanvasInv, C!Reorder
    <3>3. i \in Nat
      BY <3>2
    <3> QED BY <3>1, <3>3, ReorderKeeps
  <2> QED BY <1>7, <2>1, SpawnPaneKeeps, CloseDockedPaneKeeps, ToggleKeeps
<1>8. CASE C!DockPane \/ C!ResetViewport \/ C!DismissalEnds \/ C!Reload
  <2>1. "resource" \in C!Ids
    BY DEF C!Ids
  <2> QED BY <1>8, <2>1, DockPaneKeeps, ToggleKeeps, DismissalEndsKeeps, ReloadKeeps
<1>9. CASE \E c \in C!Canvases : C!InitializeCanvas(c)
  BY <1>9, InitializeCanvasKeeps
<1>10. CASE \E ok \in BOOLEAN : C!Reconciled(ok)
  BY <1>10, ReconciledKeeps
<1>11. C!Next \/ UNCHANGED C!vars
  OBVIOUS
<1>12. CASE C!Next
  <2>1. CASE \E id \in C!Ids : \/ C!ClosePane(id) \/ C!MinimizePane(id) \/ C!RestorePane(id) \/ C!SpawnPane(id)
                              \/ C!CloseDockedPane(id) \/ C!Toggle(id)
                              \/ \E i \in 1..C!Cardinality(C!Ids) : C!Reorder(id, i)
    BY <1>5, <1>6, <1>7, <2>1
  <2> QED BY <1>2, <1>3, <1>4, <1>8, <1>9, <1>10, <1>12, <2>1, Zenon DEF C!Next
<1> QED BY <1>1, <1>11, <1>12

\* A live run is behind a pane of some canvas, or its end is under way, but for the exceptions
\* of RunsAreReachable, however gestures, timers, spawns, canvases and reloads follow one another.
THEOREM CanvasTheorem == C!Spec => []RunsAreReachable
<1>1. CanvasInv => RunsAreReachable
  BY DEF CanvasInv, RunsAreBehindPanes, RunRules, CanvasTypeOK, ServerType, RunsAreReachable, C!RunsAreReachable
<1>2. CanvasInv /\ [C!Next]_(C!vars) => CanvasInv'
  BY CanvasStep
<1> QED
  BY <1>1, <1>2, CanvasInitHolds, PTL DEF C!Spec
=============================================================================
