---------------------------- MODULE MC_Protocol ----------------------------
(* Model-checking instance of Protocol: sender threads are model values.  *)
EXTENDS Protocol

CONSTANTS t1, t2

MCThreads == {t1, t2}
=============================================================================
