---------------------------- MODULE MCRunManager ----------------------------
(* Instances of RunManager and, with requests that are given up, of        *)
(* SharedProxy for TLC.  The two share no state: a behaviour is one of the *)
(* run manager or one of the proxy, as `part` says.                        *)
EXTENDS RunManager

CONSTANTS r1, r2, v1, v2, k1, k2, key,
          Bindings, Snapshots, Flows, Handlers, MaxFaults, p, f1, f2, h1, h2

VARIABLES part, mirror, overrides, stale, op, life, asked, proxy, table, store, handler,
          bound, stamp, flow, captured, faults

proxyState == <<mirror, overrides, stale, op, life, asked, proxy, table, store, handler,
                bound, stamp, flow, captured, faults>>

\* Every spawn call has the same idempotency key, or none has one.
SharedKey == [r \in Runs |-> key]
NoKeys == [r \in Runs |-> None]

\* Every viewer attaches to the same run.
OneTarget == [v \in Viewers |-> r1]

\* The runs of the proxy are given the same port one after the other, and every
\* connection dials it.
Proxy == INSTANCE SharedProxy WITH
           Runs <- Bindings, PortOf <- [r \in Bindings |-> p], DialOf <- [f \in Flows |-> p], Late <- Handlers

\* What SharedProxy assumes of its constants, said of this instance of it.
ASSUME ProxyAssumption ==
  /\ MaxFaults \in Nat
  /\ None \notin Bindings \cup Snapshots \cup Handlers
  /\ None \notin Proxy!Requests \cup Proxy!Ops \cup Proxy!Tasks

Manages == part = "runs" /\ Next /\ UNCHANGED <<part, proxyState>>
Serves == part = "proxy" /\ Proxy!Next /\ UNCHANGED <<part, vars>>

MCInit == Init /\ Proxy!Init /\ part \in {"runs", "proxy"}
MCSafe ==
  /\ MCInit
  /\ [][Manages \/ Serves]_<<part, vars, proxyState>>
MCSpec == MCSafe /\ Fairness

\* OneRunPerFlow of SharedProxy: a flow is captured for one run at most, although
\* its port passes to another run while control requests are still at work.
OneRunPerFlow == Proxy!OneRunPerFlow
=============================================================================
