------------------------------- MODULE MCMenu -------------------------------
(***************************************************************************)
(* Short remap pages, of which one holds the key ANSI keyboards lack, two  *)
(* keys to press on them, one of which the system keeps, and a flash that  *)
(* holds the user's settings, as a version wrote them that lacked some of  *)
(* the fields.                                                             *)
(***************************************************************************)
EXTENDS Menu

MCGroups == << <<2>>, <<44, 96>>, <<98>>, <<113>> >>
MCRemapKeys == {4, 5}
MCCaptureKeys == {4, 40}
MCImages ==
  { [Blank EXCEPT !.version = 1, !.mouse_speed = 8, !.mouse_enabled = 0, !.joy_device = 1,
                  !.language = 2, !.layout = 13, !.sleep = 1, !.brightness = 1,
                  !.key_remap = [h \in MCRemapKeys |-> 44]] }

=============================================================================
