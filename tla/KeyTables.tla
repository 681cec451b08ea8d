------------------------------ MODULE KeyTables ------------------------------
(***************************************************************************)
(* The two tables a key goes through: the layout table, from the USB code  *)
(* of a key to the scan code of the Atari ST, and the key table inside the *)
(* keyboard's ROM, from a crossing of the key matrix to its scan code,     *)
(* which the emulation of port 1 reads backwards.                          *)
(***************************************************************************)
EXTENDS Integers, Sequences

HidCodes == 0 .. 127
ScanCodes == 0 .. 127
Bits == 0 .. 7
Columns == 0 .. 14

LayoutRow ==
  <<0, 0, 0, 0, 30, 48, 46, 32, 18, 33, 34, 35, 23, 36, 37, 38, 50, 49, 24, 25,
    16, 19, 31, 20, 22, 47, 17, 45, 21, 44, 2, 3, 4, 5, 6, 7, 8, 9, 10, 11,
    28, 1, 14, 15, 57, 12, 13, 26, 27, 43, 41, 39, 40, 41, 51, 52, 53, 58, 59, 60,
    61, 62, 63, 64, 65, 66, 67, 68, 0, 0, 98, 97, 0, 82, 71, 99, 83, 0, 100, 77,
    75, 80, 72, 0, 101, 102, 74, 78, 114, 109, 110, 111, 106, 107, 108, 103, 104, 105, 112, 113,
    96, 0, 0, 0, 0, 0, 0, 0, 0, 0, 0, 0, 0, 0, 0, 0, 0, 0, 0, 0,
    0, 0, 0, 0, 0, 0, 0, 0>>
st_key_lookup_hid == [h \in HidCodes |-> LayoutRow[h + 1]]

\* The ROM's bytes 0xF206.., 0xF312.. and 0xF319...
RomModifiers == <<29, 42, 56, 54>>
RomFunction == <<0, 59, 60, 61>>
RomMatrix ==
  <<62, 1, 2, 15, 16, 30, 96, 44, 63, 3, 4, 17, 18, 31, 32, 45,
    64, 5, 6, 19, 20, 33, 46, 47, 65, 7, 8, 21, 34, 35, 48, 49,
    66, 9, 10, 22, 23, 36, 37, 50, 67, 11, 12, 24, 25, 38, 51, 57,
    68, 13, 41, 26, 27, 39, 52, 58, 98, 14, 83, 82, 43, 28, 40, 53,
    97, 72, 71, 75, 80, 77, 109, 112, 99, 100, 103, 104, 106, 107, 110, 113,
    101, 102, 105, 74, 108, 78, 111, 114>>

\* The scan code at a crossing, 0 where the matrix has no key.
get_scancode(bit, column) ==
  IF column >= 4 THEN RomMatrix[1 + bit + (column - 4) * 8]
  ELSE IF bit = 0 THEN RomFunction[1 + column]
  ELSE IF bit - 4 = column THEN RomModifiers[1 + column]
  ELSE 0

\* Port 1: the input bits that read 0 while the columns of "driven" are driven.
dr1_getb(down, driven) ==
  {bit \in Bits : \E column \in driven : get_scancode(bit, column) \in down}

\* What a scan that drives one column after the other finds pressed.
Scan(down) ==
  UNION {{<<bit, column>> : bit \in dr1_getb(down, {column})} : column \in Columns}

Crossings(code) ==
  {p \in Bits \X Columns : get_scancode(p[1], p[2]) = code}

=============================================================================
