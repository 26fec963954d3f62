---------------------------- MODULE RequestGate ----------------------------
(***************************************************************************)
(* What the breakpoint promises an operator, without saying how: outbound  *)
(* requests pass a gate.  A request either passes straight through or is   *)
(* held; held requests are presented to the operator one at a time; a      *)
(* presented request can be vetoed, and a vetoed request is never          *)
(* forwarded; every request the gate holds is let out again.               *)
(*                                                                         *)
(* Breakpoint.tla is shown to implement this module.                       *)
(***************************************************************************)
CONSTANT Flows      \* the requests of the proxied agents

VARIABLES gate,     \* where each request stands
          vetoed    \* the requests whose veto the operator was told succeeded

gateVars == <<gate, vetoed>>

Places == {"outside", "held", "presented", "forwarded", "dropped"}

Init ==
  /\ gate = [f \in Flows |-> "outside"]
  /\ vetoed = {}

\* The request needs no inspection, or cannot be inspected.
Pass(f) ==
  /\ gate[f] = "outside"
  /\ gate' = [gate EXCEPT ![f] = "forwarded"]
  /\ UNCHANGED vetoed

\* Another request is in front of the operator: wait.
Hold(f) ==
  /\ gate[f] = "outside"
  /\ gate' = [gate EXCEPT ![f] = "held"]
  /\ UNCHANGED vetoed

Present(f) ==
  /\ gate[f] \in {"outside", "held"}
  /\ \A g \in Flows : gate[g] # "presented"
  /\ gate' = [gate EXCEPT ![f] = "presented"]
  /\ UNCHANGED vetoed

\* The operator (or the shutdown) vetoes presented requests.
Veto(F) ==
  /\ \A f \in F : gate[f] = "presented"
  /\ vetoed' = vetoed \cup F
  /\ UNCHANGED gate

Forward(f) ==
  /\ gate[f] = "presented"
  /\ f \notin vetoed
  /\ gate' = [gate EXCEPT ![f] = "forwarded"]
  /\ UNCHANGED vetoed

Drop(f) ==
  /\ gate[f] = "presented"
  /\ f \in vetoed
  /\ gate' = [gate EXCEPT ![f] = "dropped"]
  /\ UNCHANGED vetoed

Next ==
  \/ \E f \in Flows : Pass(f) \/ Hold(f) \/ Present(f) \/ Forward(f) \/ Drop(f)
  \/ \E F \in SUBSET Flows : Veto(F)

Spec == Init /\ [][Next]_gateVars
=============================================================================
