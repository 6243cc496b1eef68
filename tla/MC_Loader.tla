----------------------------- MODULE MC_Loader -----------------------------
(* Model-checking instance of Loader; the constants are set in the cfgs.  *)
EXTENDS Loader
=============================================================================
