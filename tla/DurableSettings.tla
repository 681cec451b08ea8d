--------------------------- MODULE DurableSettings ---------------------------
(***************************************************************************)
(* What the settings store promises.  A change is saved some time after it *)
(* was made; a power cut takes the settings back to what was saved.  Two   *)
(* cuts can do worse, and lose all settings: one while a change is         *)
(* waiting, which may fall into the erasing and programming of the flash,  *)
(* and one in a boot that rewrites what it found.  A boot rewrites only an *)
(* image that is not current, and leaves a current one.                    *)
(***************************************************************************)
CONSTANTS
  Blank,       \* an erased flash
  Read(_),     \* the settings that are made of a saved image
  Current(_),  \* the images that this version of the program writes
  InBounds(_)  \* the settings that can be shown

VARIABLES
  value, saved, waiting,
  booting      \* whether the boot has something to write yet

\* A boot that finds the image s.  Settings that are current and in bounds come
\* back as they were saved.
Started(v, s, w, b) ==
  /\ w = FALSE
  /\ b \in BOOLEAN
  /\ Current(s) => ~b
  /\ v = IF Current(s) /\ InBounds(s) THEN s ELSE Read(s)

Init == Started(value, saved, waiting, booting)

\* The value may become any other.
Change ==
  /\ ~booting
  /\ waiting' = TRUE
  /\ UNCHANGED <<saved, booting>>

Save ==
  /\ ~booting /\ waiting
  /\ saved' = value
  /\ waiting' = FALSE
  /\ UNCHANGED <<value, booting>>

\* A boot erases the flash, or programs what reads as the same settings, the last
\* time an image that no later boot rewrites.
Rewrite ==
  /\ booting
  /\ booting' \in BOOLEAN
  /\ \/ saved' = Blank /\ booting'
     \/ Read(saved') = value /\ (~booting' => Current(saved'))
  /\ UNCHANGED <<value, waiting>>

PowerCut ==
  /\ saved' \in {saved} \cup (IF waiting THEN {value, Blank} ELSE {})
  /\ Started(value', saved', waiting', booting')

Next == Change \/ Save \/ Rewrite \/ PowerCut

Spec == Init /\ [][Next]_<<value, saved, waiting, booting>>

=============================================================================
