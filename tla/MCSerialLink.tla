---------------------------- MODULE MCSerialLink -----------------------------
(* Model checking of SerialLink: the constants are given in the cfg files.  *)
EXTENDS SerialLink
===============================================================================
