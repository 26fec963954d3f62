---------------------------- MODULE MCSharedProxy ----------------------------
(* An instance of SharedProxy for TLC.                                     *)
EXTENDS SharedProxy

CONSTANTS r1, r2, r3, s1, h1, p, q

\* r1 and r2 are given the same port one after the other, r3 another one.
Ports == [r \in Runs |-> IF r = r3 THEN q ELSE p]
Dials == [f \in Flows |-> p]
=============================================================================
