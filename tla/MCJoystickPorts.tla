--------------------------- MODULE MCJoystickPorts ---------------------------
(* Model checking of JoystickPorts: the constants are given in the cfgs.    *)
EXTENDS JoystickPorts
===============================================================================
