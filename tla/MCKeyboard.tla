----------------------------- MODULE MCKeyboard -----------------------------
(***************************************************************************)
(* Two keyboards, the first taking LED bytes under report id 0 and the     *)
(* second under 1, and the reports of a user who types a letter, a shifted *)
(* letter, Ctrl+F11, Caps Lock alone and with a letter, and too many keys  *)
(* at once (keycode 1).  The key map is the default layout.                *)
(***************************************************************************)
EXTENDS Keyboard

MCKeyboards == {1, 2}
MCLedRid == <<0, 1>>
MCKeyMap == st_key_lookup_hid
Plain(keys) == [keys |-> keys, mods |-> {}]
MCReports ==
  << { Released, [keys |-> {4}, mods |-> {"lshift"}], [keys |-> {68}, mods |-> {"ctrl"}],
       [keys |-> {1}, mods |-> {"lshift"}] },
     { Released, Plain({57, 4}) } >>

=============================================================================
