---------------------------- MODULE MCBreakpoint ----------------------------
(* An instance of Breakpoint for TLC: two requests contend for the         *)
(* serializer, the one of them counted; everything that can be decided     *)
(* about them is decided in every order.                                   *)
EXTENDS Breakpoint

CONSTANTS f1, f2, legacy, orig, edit, r1

OneScope == [f \in Flows |-> legacy]
=============================================================================
