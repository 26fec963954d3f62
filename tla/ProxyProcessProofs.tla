------------------------- MODULE ProxyProcessProofs -------------------------
(***************************************************************************)
(* Proofs about ProxyProcess: one shared proxy is left, for any number of  *)
(* pids and of killed backends.                                            *)
(***************************************************************************)
EXTENDS ProxyProcess, TLAPS

\* The proxies some backend may still find: the others are the ghost's.
Known == Proxies \ unknown

\* Between two starts the record names every proxy; a start has ended it before
\* it spawns, and until the record is written only the backend knows the new one.
\* From the first start on, the backend's own proxy is the only one.
Inv ==
  /\ TypeOK
  /\ ~struck
  /\ starter \in {"idle", "failed"} => Known \subseteq pidFile
  /\ starter = "reaped" => Known = {}
  /\ starter = "spawned" => Known \subseteq managed
  /\ /\ starter \in {"idle", "failed"}
     /\ at \in {"shared", "disabled"} \/ (at = "starting" /\ (managed # {} \/ starter = "failed"))
     => Known \subseteq managed
  /\ at \in {"off", "storeless"} => managed = {} /\ starter = "idle"
  /\ at = "disabled" => starter = "idle"

-----------------------------------------------------------------------------
(* The parts of the steps.                                                 *)

\* Ending proxies ends nothing else, and signals no other program.
LEMMA EndedKnown ==
  ASSUME TypeOK, NEW P \in SUBSET Proxies, Ended(P)
  PROVE  /\ process' \in [Pids -> {"none", "proxy", "foreign"}]
         /\ Proxies' = Proxies \ P
         /\ struck' = struck
BY DEF TypeOK, Ended, Proxies

\* TypeOK is inductive by itself.
LEMMA Typing == TypeOK /\ [Next]_vars => TypeOK'
<1> SUFFICES ASSUME TypeOK, [Next]_vars PROVE TypeOK'
  OBVIOUS
<1> USE DEF TypeOK, AtMostOne, Lives
<1>1. ASSUME OpenStore \/ MigrationFails PROVE TypeOK'
  BY <1>1 DEF OpenStore, MigrationFails, Forgets, Proxies
<1>2. CASE ReapPriorInstance
  BY <1>2, EndedKnown DEF ReapPriorInstance, Starts, Ended, Proxies
<1>3. CASE SpawnFails
  BY <1>3 DEF SpawnFails
<1>4. ASSUME Ready \/ NotReady \/ Shutdown PROVE TypeOK'
  BY <1>4 DEF Ready, NotReady, Shutdown, Terminates, Forgets, Ended, Proxies
<1>5. CASE Off
  BY <1>5 DEF Off
<1>6. CASE Killed
  BY <1>6 DEF Killed, Running, Proxies
<1>7. ASSUME NEW ok \in BOOLEAN, WritePidRecord(ok) PROVE TypeOK'
  BY <1>7 DEF WritePidRecord, Ended
<1>8. ASSUME NEW p \in Pids, Spawn(p) PROVE TypeOK'
  <2>1. managed' \in AtMostOne
    BY <1>8 DEF Spawn
  <2> QED BY <1>8, <2>1 DEF Spawn
<1>9. ASSUME NEW p \in Pids, Exits(p) \/ Reused(p) PROVE TypeOK'
  BY <1>9 DEF Exits, Reused
<1>10. CASE UNCHANGED vars
  BY <1>10 DEF vars
<1> QED BY <1>1, <1>2, <1>3, <1>4, <1>5, <1>6, <1>7, <1>8, <1>9, <1>10 DEF Next

-----------------------------------------------------------------------------
LEMMA Initial == Init => Inv
<1> SUFFICES ASSUME Init PROVE Inv
  OBVIOUS
<1>1. {} \in AtMostOne
  BY DEF AtMostOne
<1>2. Proxies = {}
  BY DEF Init, Proxies
<1>3. TypeOK
  BY <1>1 DEF Init, TypeOK, Lives
<1> QED BY <1>2, <1>3 DEF Init, Inv, Known

\* The types of the backend's record and of the processes, for any pids.
THEOREM TypeTheorem == Spec => []TypeOK
<1>1. Init => TypeOK
  BY Initial DEF Inv
<1> QED BY <1>1, Typing, PTL DEF Spec

LEMMA Step == Inv /\ [Next]_vars => Inv'
<1> SUFFICES ASSUME Inv, [Next]_vars PROVE Inv'
  OBVIOUS
<1>t. TypeOK'
  BY Typing DEF Inv
<1> USE DEF Inv, Known
<1>1. CASE OpenStore
  BY <1>t, <1>1 DEF OpenStore, Proxies
<1>2. CASE MigrationFails
  BY <1>t, <1>2 DEF MigrationFails, Forgets, Proxies, Recorded
<1>3. CASE ReapPriorInstance
  <2>1. Proxies' = Proxies \ pidFile /\ struck' = struck
    BY <1>3, EndedKnown DEF ReapPriorInstance, Recorded
  <2>2. Known' = {}
    BY <1>3, <2>1 DEF ReapPriorInstance, Starts, Running, Recorded
  <2> QED BY <1>t, <1>3, <2>1, <2>2 DEF ReapPriorInstance, Starts
<1>4. CASE SpawnFails
  BY <1>t, <1>4 DEF SpawnFails, Proxies
<1>5. CASE Ready
  BY <1>t, <1>5 DEF Ready, Proxies, Running
<1>6. ASSUME Terminates
      PROVE  Known' = Known \ managed /\ struck' = struck
  <2>1. Running \in SUBSET Proxies /\ Ended(Running)
    BY <1>6 DEF Terminates, Running
  <2> QED BY <1>6, <2>1, EndedKnown DEF Terminates, Running
<1>7. CASE NotReady
  BY <1>t, <1>6, <1>7 DEF NotReady
<1>8. CASE Shutdown
  <2>1. CASE at = "shared" /\ Terminates
    BY <1>t, <1>6, <1>8, <2>1 DEF Shutdown
  <2>2. CASE at = "storeless" /\ Forgets
    BY <1>t, <1>8, <2>2 DEF Shutdown, Forgets, Proxies, Recorded
  <2>3. CASE at = "disabled" /\ UNCHANGED <<process, pidFile, unknown, struck>>
    BY <1>t, <1>8, <2>3 DEF Shutdown, Proxies
  <2> QED BY <1>8, <2>1, <2>2, <2>3 DEF Shutdown
<1>9. CASE Off
  BY <1>t, <1>9 DEF Off, Proxies
<1>10. CASE Killed
  BY <1>t, <1>10 DEF Killed, Running, Proxies, TypeOK
<1>11. ASSUME NEW ok \in BOOLEAN, WritePidRecord(ok) PROVE Inv'
  <2>1. CASE ok
    BY <1>t, <1>11, <2>1 DEF WritePidRecord, Proxies
  <2>2. CASE ~ok
    <3>1. Known' = {} /\ struck' = struck
      BY <1>11, <2>2, EndedKnown DEF WritePidRecord, Running
    <3> QED BY <1>t, <1>11, <2>2, <3>1 DEF WritePidRecord
  <2> QED BY <2>1, <2>2
<1>12. ASSUME NEW p \in Pids, Spawn(p) PROVE Inv'
  <2>1. Proxies' = Proxies \cup {p}
    BY <1>12 DEF Spawn, Proxies, TypeOK
  <2> QED BY <1>t, <1>12, <2>1 DEF Spawn
<1>13. ASSUME NEW p \in Pids, Exits(p) \/ Reused(p) PROVE Inv'
  <2>1. Known' \subseteq Known
    BY <1>13 DEF Exits, Reused, Proxies, TypeOK
  <2> QED BY <1>t, <1>13, <2>1 DEF Exits, Reused
<1>14. CASE UNCHANGED vars
  BY <1>t, <1>14 DEF vars, Proxies
<1> QED BY <1>1, <1>2, <1>3, <1>4, <1>5, <1>7, <1>8, <1>9, <1>10, <1>11, <1>12, <1>13, <1>14 DEF Next

\* However many backends follow one another, and however they end: once one has
\* started its proxy no other is left that a start could have known of, between
\* two of them the record names the one that is, and no other program is ended.
THEOREM OneProxyTheorem == Spec => []OneProxyLeft
<1>1. Inv => OneProxyLeft
  BY DEF Inv, OneProxyLeft, Known, Recorded
<1> QED BY <1>1, Initial, Step, PTL DEF Spec
=============================================================================
