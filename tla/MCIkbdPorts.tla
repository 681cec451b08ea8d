---------------------------- MODULE MCIkbdPorts ------------------------------
(* Model checking of IkbdPorts: the bound is given in the cfg files.        *)
EXTENDS IkbdPorts
===============================================================================
