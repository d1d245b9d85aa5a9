------------------------------ MODULE MCGateway ------------------------------
(***************************************************************************)
(* Instances of Gateway for TLC: one user with two sessions; a message     *)
(* that its channel delivers twice, a second message of the same session   *)
(* and one of the other session.                                           *)
(***************************************************************************)
EXTENDS Gateway

CONSTANTS u1, s1, s2, m1, m2, m3, r1, r2, r3, r4, d1, d2, k1

MCUser == {u1}
MCSession == {s1, s2}
MCUserOf == [s \in MCSession |-> u1]
MCDedupKey == {d1, d2}
MCCollectKey == {k1}

\* Queue and interrupt mode: r2 is a redelivery of r1; r3 shares their session.
QRequest == {r1, r2, r3}
QMsg == {m1, m2}
QMsgOf == [r \in QRequest |-> IF r = r3 THEN m2 ELSE m1]
QSessionOf == [m \in QMsg |-> s1]
QDedupKeyOf == [m \in QMsg |-> IF m = m1 THEN d1 ELSE NoKey]
QInterrupting == {r3}
QCollectKeyOf == [r \in {} |-> k1]

\* Collect mode: r1 and r2 come from two conversations of one user on one
\* channel, so they share a buffer; r3 is a cron job of the first session.
CRequest == {r1, r2, r3}
CMsg == {m1, m2, m3}
CMsgOf == [r \in CRequest |-> IF r = r1 THEN m1 ELSE IF r = r2 THEN m2 ELSE m3]
CSessionOf == [m \in CMsg |-> IF m = m2 THEN s2 ELSE s1]
CDedupKeyOf == [m \in CMsg |-> IF m = m1 THEN d1 ELSE IF m = m2 THEN d2 ELSE NoKey]
CCron == {r3}
CCollecting == {r1, r2}
CCollectKeyOf == [r \in CCollecting |-> k1]
=============================================================================
