------------------------------ MODULE MC_Main ------------------------------
(* Model-checking instance of Main; the constants are set in the cfg.     *)
EXTENDS Main
=============================================================================
