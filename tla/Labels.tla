------------------------------- MODULE Labels -------------------------------
(***************************************************************************)
(* What the remap pages and the debug page call a key.  The keyboard of the *)
(* Atari ST has a table of labels by scan code, a USB keyboard one by its   *)
(* own codes, and each layout names only the keys on which it differs.  A   *)
(* character beyond ASCII is named by the byte of the font that draws it    *)
(* ("xE9"), whether the source writes it in UTF-8 or as that byte.          *)
(***************************************************************************)
EXTENDS KeyTables, Functions, TLC

\* kRemapGroup1to9, kRemapGroupAtoZ, kRemapGroupSpec, kRemapGroupPad.
RemapGroups ==
  << <<2, 3, 4, 5, 6, 7, 8, 9, 10, 11, 12, 13, 41>>,
     <<16, 17, 18, 19, 20, 21, 22, 23, 24, 25, 26, 27, 30, 31, 32, 33, 34, 35, 36, 37, 38,
       39, 40, 43, 96, 44, 45, 46, 47, 48, 49, 50, 51, 52, 53, 57>>,
     <<98, 97, 82, 71, 72, 80, 75, 77>>,
     <<99, 100, 101, 102, 74, 78, 103, 104, 105, 106, 107, 108, 109, 110, 111, 112, 113>> >>

kLayouts == <<"CZ-CZ", "CH-DE", "CH-FR", "DE-DE", "DK-DK", "EN-UK", "EN-US", "ES-ES",
              "FI-FI", "FR-FR", "HU-HU", "IT-IT", "NL-NL", "NO-NO", "PL-PL", "SE-SE">>

sc_is_iso_key(code) == code = 96
layout_has_iso_key(layout) == layout \notin {5, 14}

-------------------------------------------------------------------------------
(* The labels of the keys of the Atari ST. *)

k_de_de == 21 :> "Z" @@ 26 :> "xFC" @@ 27 :> "+" @@ 39 :> "xF6" @@ 40 :> "xE4" @@ 43 :> "~"
           @@ 96 :> "<" @@ 44 :> "Y" @@ 53 :> "-"
k_fr_fr == 2 :> "&" @@ 3 :> "xE9" @@ 4 :> "x22" @@ 5 :> "'" @@ 6 :> "(" @@ 7 :> "xA7" @@ 8 :> "xE8"
           @@ 9 :> "!" @@ 10 :> "xE7" @@ 11 :> "xE0" @@ 12 :> ")" @@ 13 :> "-" @@ 41 :> "x60"
           @@ 16 :> "A" @@ 17 :> "Z" @@ 26 :> "^" @@ 27 :> "$" @@ 30 :> "Q" @@ 39 :> "M"
           @@ 40 :> "xF9" @@ 43 :> "#" @@ 44 :> "W" @@ 50 :> "," @@ 51 :> ";" @@ 52 :> ":"
           @@ 53 :> "=" @@ 96 :> "<"
k_en_uk == 43 :> "#" @@ 96 :> "x5C"
k_es_es == 41 :> "xE7" @@ 26 :> "'" @@ 27 :> "x60" @@ 39 :> "xF1" @@ 40 :> ";" @@ 96 :> "<" @@ 53 :> "xB0"
k_it_it == 12 :> "'" @@ 13 :> "xEC" @@ 41 :> "xF9" @@ 26 :> "xE8" @@ 27 :> "+" @@ 39 :> "xF2"
           @@ 40 :> "xE0" @@ 96 :> "<" @@ 53 :> "-"
k_se_fi == 12 :> "+" @@ 13 :> "xE9" @@ 41 :> "'" @@ 26 :> "xE5" @@ 27 :> "xFC" @@ 39 :> "xF6"
           @@ 40 :> "xE4" @@ 96 :> "<" @@ 53 :> "-"
k_ch_fr == 12 :> "'" @@ 13 :> "^" @@ 41 :> "xA7" @@ 21 :> "Z" @@ 26 :> "xE8" @@ 27 :> "xA8"
           @@ 39 :> "xE9" @@ 40 :> "xE0" @@ 43 :> "$" @@ 96 :> "<" @@ 44 :> "Y" @@ 53 :> "-"
k_ch_de == 12 :> "'" @@ 13 :> "^" @@ 41 :> "xA7" @@ 21 :> "Z" @@ 26 :> "xFC" @@ 27 :> "xA8"
           @@ 39 :> "xF6" @@ 40 :> "xE4" @@ 43 :> "$" @@ 96 :> "<" @@ 44 :> "Y" @@ 53 :> "-"
k_no_no == 12 :> "+" @@ 13 :> "xE9" @@ 41 :> "'" @@ 26 :> "xE5" @@ 27 :> "xFC" @@ 39 :> "xF8"
           @@ 40 :> "xE6" @@ 96 :> "<" @@ 53 :> "-"
k_dk_dk == 12 :> "+" @@ 13 :> "xB4" @@ 41 :> "xE9" @@ 26 :> "xE5" @@ 27 :> "*" @@ 39 :> "xE6"
           @@ 40 :> "xF8" @@ 43 :> "#" @@ 96 :> "<" @@ 53 :> "-"
k_nl_nl == 43 :> "#" @@ 96 :> "x5C"
k_cz_cz == 2 :> "xF3" @@ 3 :> "x88" @@ 4 :> "x89" @@ 5 :> "x8A" @@ 6 :> "x8B" @@ 7 :> "x8C"
           @@ 8 :> "xFD" @@ 9 :> "xE1" @@ 10 :> "xED" @@ 11 :> "xE9" @@ 12 :> "=" @@ 13 :> "'"
           @@ 41 :> "#" @@ 21 :> "Z" @@ 26 :> "xFA" @@ 27 :> "x8D" @@ 39 :> "x90" @@ 40 :> "x8F"
           @@ 43 :> "x8E" @@ 96 :> "<" @@ 44 :> "Y" @@ 53 :> "-"
k_hu_hu == 12 :> "xF6" @@ 13 :> "xFC" @@ 41 :> "xF3" @@ 21 :> "Z" @@ 26 :> "xF0" @@ 27 :> "xFA"
           @@ 39 :> "xE9" @@ 40 :> "xE1" @@ 43 :> "x91" @@ 96 :> "xED" @@ 44 :> "Y" @@ 53 :> "-"

None == <<>>
k_overrides == <<k_cz_cz, k_ch_de, k_ch_fr, k_de_de, k_dk_dk, k_en_uk, None, k_es_es,
                 k_se_fi, k_fr_fr, k_hu_hu, k_it_it, k_nl_nl, k_no_no, None, k_se_fi>>

ScancodeNames ==
  <<"?", "1", "2", "3", "4", "5", "6", "7", "8", "9", "0", "-", "=", "?", "?",
    "Q", "W", "E", "R", "T", "Y", "U", "I", "O", "P", "[", "]", "?", "?",
    "A", "S", "D", "F", "G", "H", "J", "K", "L", ";", "'", "x60", "?",
    "x5C", "Z", "X", "C", "V", "B", "N", "M", ",", ".", "/", "?", "?", "?", "Sp">>
  \o [i \in 1 .. 13 |-> "?"]
  \o <<"ClH", "x83", "?", "K-", "x85", "?", "x86", "K+", "?", "x84", "?", "Ins">>
  \o [i \in 1 .. 13 |-> "?"]
  \o <<"<", "Und", "Hlp", "K(", "K)", "K/", "K*", "K7", "K8", "K9", "K4", "K5", "K6",
       "K1", "K2", "K3", "K0", "K.">>
st_scancode_name(code) == IF code \in DOMAIN ScancodeNames THEN ScancodeNames[code] ELSE "?"

OverrideOnly(tables, layout, code, otherwise) ==
  IF code \in DOMAIN tables[layout + 1] THEN tables[layout + 1][code] ELSE "?"
Override(tables, layout, code, otherwise) ==
  IF code \in DOMAIN tables[layout + 1] THEN tables[layout + 1][code] ELSE otherwise
get_layout_st_label(code, layout) == Override(k_overrides, layout, code, st_scancode_name(code))

-------------------------------------------------------------------------------
(* The labels of the keys of the USB keyboard. *)

HidNames ==
  <<"A", "B", "C", "D", "E", "F", "G", "H", "I", "J", "K", "L", "M", "N", "O", "P", "Q", "R",
    "S", "T", "U", "V", "W", "X", "Y", "Z", "1", "2", "3", "4", "5", "6", "7", "8", "9", "0",
    "Ent", "Esc", "BSp", "Tab", "Sp", "-", "=", "[", "]", "x5C", "#", ";", "'", "x60", ",", ".", "/",
    "CLk", "F1", "F2", "F3", "F4", "F5", "F6", "F7", "F8", "F9", "F10", "F11", "F12",
    "Prt", "SLk", "?", "Ins", "Hom", "PgU", "Del", "End", "PgD", "x86", "x85", "x84", "x83",
    "NLk", "K/", "K*", "K-", "K+", "KEn", "K1", "K2", "K3", "K4", "K5", "K6", "K7", "K8", "K9",
    "K0", "K.", "<">>
hid_en_us_label(hid) == IF hid - 3 \in DOMAIN HidNames THEN HidNames[hid - 3] ELSE "?"

\* The debug page's names of the positions: shorter, Pause has one, and the ISO
\* key has none.
ShortNames == 42 :> "Bs" @@ 71 :> "Scr" @@ 72 :> "Pau" @@ 75 :> "PU" @@ 78 :> "PD" @@ 83 :> "NL"
              @@ 88 :> "KE" @@ 100 :> "?"
hid_keycode_to_label(hid) ==
  IF hid \in DOMAIN ShortNames THEN ShortNames[hid] ELSE hid_en_us_label(hid)

k_hid_cz_cz == 53 :> ";" @@ 30 :> "+" @@ 31 :> "x89" @@ 32 :> "x8A" @@ 33 :> "x8B" @@ 34 :> "x8C"
               @@ 35 :> "x8D" @@ 36 :> "xFD" @@ 37 :> "xE1" @@ 38 :> "xED" @@ 39 :> "xE9"
               @@ 45 :> "=" @@ 46 :> "xB4" @@ 28 :> "Z" @@ 47 :> "xFA" @@ 48 :> ")" @@ 49 :> "x8E"
               @@ 51 :> "x91" @@ 52 :> "xA7" @@ 50 :> "xA8" @@ 100 :> "x5C" @@ 29 :> "Y" @@ 56 :> "-"
k_hid_ch_de == 53 :> "xA7" @@ 45 :> "'" @@ 46 :> "^" @@ 28 :> "Z" @@ 47 :> "xFC" @@ 48 :> "xA8"
               @@ 51 :> "xF6" @@ 52 :> "xE4" @@ 50 :> "$" @@ 100 :> "<" @@ 29 :> "Y" @@ 56 :> "-"
k_hid_de_de == 53 :> "^" @@ 45 :> "xDF" @@ 46 :> "xB4" @@ 28 :> "Z" @@ 47 :> "xFC" @@ 48 :> "+"
               @@ 51 :> "xF6" @@ 52 :> "xE4" @@ 50 :> "#" @@ 100 :> "<" @@ 29 :> "Y" @@ 56 :> "-"
k_hid_dk_dk == 53 :> "xBD" @@ 45 :> "+" @@ 46 :> "xB4" @@ 47 :> "xE5" @@ 48 :> "xA8" @@ 51 :> "xE6"
               @@ 52 :> "xF8" @@ 50 :> "'" @@ 100 :> "<" @@ 56 :> "-"
k_hid_en_uk == 53 :> "x60" @@ 100 :> "x5C"
k_hid_ch_fr == 53 :> "xA7" @@ 45 :> "'" @@ 46 :> "^" @@ 28 :> "Z" @@ 47 :> "xE8" @@ 48 :> "xA8"
               @@ 51 :> "xE9" @@ 52 :> "xE0" @@ 50 :> "$" @@ 100 :> "<" @@ 29 :> "Y" @@ 56 :> "-"
k_hid_fr_fr == 4 :> "Q" @@ 20 :> "A" @@ 26 :> "Z" @@ 29 :> "W" @@ 16 :> "," @@ 51 :> "M"
               @@ 53 :> "xB2" @@ 30 :> "&" @@ 31 :> "xE9" @@ 32 :> "x22" @@ 33 :> "'" @@ 34 :> "("
               @@ 35 :> "-" @@ 36 :> "xE8" @@ 37 :> "_" @@ 38 :> "xE7" @@ 39 :> "xE0" @@ 45 :> ")"
               @@ 46 :> "=" @@ 47 :> "^" @@ 48 :> "$" @@ 52 :> "xF9" @@ 50 :> "*" @@ 100 :> "<"
               @@ 54 :> ";" @@ 55 :> ":" @@ 56 :> "!"
k_hid_es_es == 53 :> "xB0" @@ 45 :> "'" @@ 46 :> "xA1" @@ 47 :> "x60" @@ 48 :> "+" @@ 51 :> "xF1"
               @@ 52 :> "xB4" @@ 50 :> "xE7" @@ 100 :> "<" @@ 56 :> "-"
k_hid_se_fi == 53 :> "xA7" @@ 45 :> "+" @@ 46 :> "xB4" @@ 47 :> "xE5" @@ 48 :> "xA8" @@ 51 :> "xF6"
               @@ 52 :> "xE4" @@ 50 :> "'" @@ 100 :> "<" @@ 56 :> "-"
k_hid_hu_hu == 53 :> "0" @@ 39 :> "xF6" @@ 45 :> "xFC" @@ 46 :> "xF3" @@ 28 :> "Z" @@ 47 :> "xF0"
               @@ 48 :> "xFA" @@ 51 :> "xE9" @@ 52 :> "xE1" @@ 50 :> "xFC" @@ 100 :> "xED"
               @@ 29 :> "Y" @@ 56 :> "-"
k_hid_it_it == 53 :> "x5C" @@ 45 :> "'" @@ 46 :> "xEC" @@ 47 :> "xE8" @@ 48 :> "+" @@ 51 :> "xF2"
               @@ 52 :> "xE0" @@ 50 :> "xF9" @@ 100 :> "<" @@ 56 :> "-"
k_hid_nl_nl == 53 :> "@" @@ 45 :> "/" @@ 46 :> "xB0" @@ 47 :> "xA8" @@ 48 :> "*" @@ 51 :> "+"
               @@ 52 :> "xB4" @@ 50 :> "<" @@ 100 :> "]" @@ 56 :> "-"
k_hid_no_no == 53 :> "|" @@ 45 :> "+" @@ 46 :> "x5C" @@ 47 :> "xE5" @@ 48 :> "xA8" @@ 51 :> "xF8"
               @@ 52 :> "xE6" @@ 50 :> "'" @@ 100 :> "<" @@ 56 :> "-"
k_hid_pl_pl == 53 :> "x93" @@ 45 :> "+" @@ 46 :> "'" @@ 28 :> "Z" @@ 47 :> "x94" @@ 48 :> "x95"
               @@ 51 :> "x96" @@ 52 :> "x97" @@ 50 :> "xF3" @@ 100 :> "<" @@ 56 :> "-"

k_hid_overrides ==
  <<k_hid_cz_cz, k_hid_ch_de, k_hid_ch_fr, k_hid_de_de, k_hid_dk_dk, k_hid_en_uk, None, k_hid_es_es,
    k_hid_se_fi, k_hid_fr_fr, k_hid_hu_hu, k_hid_it_it, k_hid_nl_nl, k_hid_no_no, k_hid_pl_pl, k_hid_se_fi>>

get_hid_layout_label(hid, layout) == Override(k_hid_overrides, layout, hid, hid_en_us_label(hid))

ShortcutKeys == 66 .. 69 \cup {86, 87}
hid_is_system_reserved == ShortcutKeys \cup 40 .. 43 \cup {57, 83}

-------------------------------------------------------------------------------
\* An entry of the remap page: the label of the ST's key, and beside it that of
\* the key pressed for it, or of the first key mapped to it.
MappedTo(remap, code) ==
  LET keys == {hid \in DOMAIN remap \ {0} : remap[hid] = code}
  IN  IF keys = {} THEN 0 ELSE CHOOSE hid \in keys : \A other \in keys : hid <= other
Caps(layout, code, hid) ==
  <<get_layout_st_label(code, layout),
    IF hid = 0 THEN "N/A" ELSE get_hid_layout_label(hid, layout)>>
IsOffered(layout, code) == sc_is_iso_key(code) => layout_has_iso_key(layout)

\* What the pages show of a layout nobody has remapped.
RemapCodes == UNION {Range(RemapGroups[g]) : g \in DOMAIN RemapGroups}
Entry(layout, code) == Caps(layout, code, MappedTo(st_key_lookup_hid, code))

\* In every layout each entry of the remap pages has two names, and no other
\* entry has the same two; the debug page names no two positions alike.  Either
\* table alone does not tell all keys apart.
EntryTold(layout, code) ==
  /\ Entry(layout, code)[1] # "?" /\ Entry(layout, code)[2] \notin {"?", "N/A"}
  /\ \A other \in RemapCodes \ {code} :
        IsOffered(layout, other) => Entry(layout, other) # Entry(layout, code)
  /\ LET hid == MappedTo(st_key_lookup_hid, code)
     IN  \A other \in HidCodes \ {hid} :
           hid_keycode_to_label(hid) # "?" => hid_keycode_to_label(other) # hid_keycode_to_label(hid)
=============================================================================
