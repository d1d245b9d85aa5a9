--------------------------- MODULE MCCollectBuffer ---------------------------
(***************************************************************************)
(* Instances of CollectBuffer for TLC: three messages for one key, so that *)
(* one can arrive after the cap was reached and before the flush runs, and *)
(* one message for a second key.                                           *)
(***************************************************************************)
EXTENDS CollectBuffer

CONSTANTS k1, k2, m1, m2, m3, m4

MCKey == {k1, k2}
MCMsg == {m1, m2, m3, m4}
MCKeyOf == [m \in MCMsg |-> IF m = m4 THEN k2 ELSE k1]
=============================================================================
