-------------------------- MODULE MC_FakeConnSPDK --------------------------
(* Model-checking instance of FakeConnSPDK: connections are model values. *)
EXTENDS FakeConnSPDK

CONSTANTS c1, c2

MCConn1 == {c1}
=============================================================================
