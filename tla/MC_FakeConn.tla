---------------------------- MODULE MC_FakeConn ----------------------------
(* Model-checking instance of FakeConn: connections are model values.     *)
EXTENDS FakeConn

CONSTANTS c1, c2, c3

MCConn2 == {c1, c2}
MCConn3 == {c1, c2, c3}
=============================================================================
