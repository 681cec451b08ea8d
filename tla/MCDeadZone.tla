------------------------------ MODULE MCDeadZone ------------------------------
(***************************************************************************)
(* A stick of each kind of axis, at rest or pushed right.                   *)
(***************************************************************************)
EXTENDS DeadZone

MCReports ==
    [hid |-> {[bits |-> 8, x |-> x, y |-> 128, buttons |-> {}] : x \in {128, 255}}
             \cup {[bits |-> 16, x |-> x, y |-> 0, buttons |-> {}] : x \in {0, 32767}}]

===============================================================================
