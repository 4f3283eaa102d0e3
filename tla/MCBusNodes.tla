----------------------------- MODULE MCBusNodes -----------------------------
(* Instances of BusNodes for TLC. *)
EXTENDS BusNodes, TLC

CONSTANTS c1, c2, c3, n1, n2, u1, s1, s2, p1, t1, NotAConn, NotAProc, NotAToken, NotANode
=============================================================================
