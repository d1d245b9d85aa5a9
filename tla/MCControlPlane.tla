---------------------------- MODULE MCControlPlane ----------------------------
(***************************************************************************)
(* Instance of ControlPlane for TLC: one user with one agent that two      *)
(* processes are set up as, and two tokens for it.                         *)
(***************************************************************************)
EXTENDS ControlPlane

CONSTANTS u1, a1, p1, p2, t1, t2

MCUserOf == [a \in {a1} |-> u1]
MCFirstToken == [a \in {a1} |-> t1]
MCAgentOf == [p \in {p1, p2} |-> a1]
===============================================================================
