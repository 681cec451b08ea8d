----------------------------- MODULE MCHidHost -------------------------------
(* Model checking of HidHost: the constants are given in the cfg files.     *)
EXTENDS HidHost
===============================================================================
