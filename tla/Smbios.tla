------------------------------- MODULE Smbios -------------------------------
(***************************************************************************)
(* LibGetSmbiosSystemGuidAndSerialNumber and LibGetSmbiosString            *)
(* (lib/smbios.c): the structures in the table of the firmware are walked, *)
(* each a formatted part, whose length its second byte says, and strings,  *)
(* up to an empty one.  A byte is a number; of the formatted part there    *)
(* are the type, the length and the number of the serial number's string.  *)
(***************************************************************************)
EXTENDS Integers, SequencesExt, FiniteSetsExt

CONSTANTS
  SmbiosTables,   (* sequences of structures [type, pad, serial, strings]  *)
  GuidLength,     (* 0x19, the least length with a GUID and a serial number*)
  MissingBytes    (* what TableLength may say too little, as SMBIOS 2.1 did*)

VARIABLES
  structures,     (* as the firmware has written them                      *)
  TableLength,
  raw,            (* Smbios.Raw, from 1 on                                 *)
  walks,          (* Index                                                 *)
  serial,         (* the place of *SystemSerialNumber                      *)
  walking         (* walk, found, over (returned without an answer)        *)

smbiosVars == <<structures, TableLength, raw, walks, serial, walking>>

(* The pad makes the formatted part as long as its version has it.         *)
Formatted(s) == <<s.type, 3 + s.pad, s.serial>> \o [i \in 1..s.pad |-> 7]
StringBytes(s) ==
  IF s.strings = <<>> THEN <<0, 0>>
  ELSE FlattenSeq([i \in DOMAIN s.strings |-> Append(s.strings[i], 0)]) \o <<0>>
Written(ss) == FlattenSeq([i \in DOMAIN ss |-> Formatted(ss[i]) \o StringBytes(ss[i])])

bytes == Written(structures)

NoString == 0

SmbiosInit ==
  /\ structures \in SmbiosTables
  /\ \E n \in MissingBytes : TableLength = Max({0, Len(Written(structures)) - n})
  /\ raw = 1 /\ walks = 0 /\ serial = NoString /\ walking = "walk"

-----------------------------------------------------------------------------
HdrType(p) == bytes[p]
HdrLength(p) == bytes[p + 1]
SerialNumber(p) == bytes[p + 2]

EndOfStringAt(p) == Min({q \in p..Len(bytes) : bytes[q] = 0})

(* LibGetSmbiosString: the place of the string, or NoString, and of the    *)
(* next structure when the strings end before; -1, which is 0xffff then,   *)
(* skips all.                                                              *)
StringsBegin(p) == p + HdrLength(p)

LibGetSmbiosString(p, StringNumber) ==
  LET first == StringsBegin(p)
      behind == {q \in (first + 1)..Len(bytes) : bytes[q - 1] = 0}
      end == Min({q \in behind : bytes[q] = 0})
      begins == {first} \cup {q \in behind : q < end}
  IN  IF StringNumber = NoString THEN [string |-> NoString, raw |-> p]
      ELSE IF StringNumber <= Cardinality(begins)
        THEN [string |-> SetToSortSeq(begins, <)[StringNumber], raw |-> p]
      ELSE [string |-> NoString, raw |-> end + 1]

AllStrings == 65535

(* A system structure of an older version is looked at again and again.    *)
LookAgain ==
  /\ walking = "walk" /\ walks < TableLength
  /\ HdrType(raw) = 1 /\ HdrLength(raw) < GuidLength
  /\ walks' = walks + 1
  /\ UNCHANGED <<structures, TableLength, raw, serial, walking>>

SystemStructure ==
  /\ walking = "walk" /\ walks < TableLength
  /\ HdrType(raw) = 1 /\ HdrLength(raw) >= GuidLength
  /\ serial' = LibGetSmbiosString(raw, SerialNumber(raw)).string
  /\ walking' = "found"
  /\ UNCHANGED <<structures, TableLength, raw, walks>>

NextStructure ==
  /\ walking = "walk" /\ walks < TableLength /\ HdrType(raw) # 1
  /\ LET next == LibGetSmbiosString(raw, AllStrings).raw
     IN  /\ raw' = next
         /\ IF next > TableLength THEN walking' = "over" /\ UNCHANGED walks
            ELSE walks' = walks + 1 /\ UNCHANGED walking
  /\ UNCHANGED <<structures, TableLength, serial>>

WalkEnds ==
  /\ walking = "walk" /\ walks >= TableLength /\ walking' = "over"
  /\ UNCHANGED <<structures, TableLength, raw, walks, serial>>

SmbiosNext == LookAgain \/ SystemStructure \/ NextStructure \/ WalkEnds

-----------------------------------------------------------------------------
StructureStart(i) == Len(Written(SubSeq(structures, 1, i - 1))) + 1

(* The walk stands on the beginning of a structure, however many strings   *)
(* the one in front has, and the serial number is that of the first system *)
(* structure: the string its number says, or none where it has fewer.  It  *)
(* is not found only if there is no system structure in the table, as long *)
(* as it is said to be, or if it is an older one.                          *)
SerialOfSystem ==
  LET systems == {i \in DOMAIN structures : structures[i].type = 1}
      s == structures[Min(systems)]
      text(p) == SubSeq(bytes, p, EndOfStringAt(p) - 1)
  IN  /\ walking = "walk" => \E i \in DOMAIN structures : raw = StructureStart(i)
      /\ walking = "found" =>
           /\ systems # {} /\ 3 + s.pad >= GuidLength
           /\ IF s.serial \in DOMAIN s.strings
              THEN serial # NoString /\ text(serial) = s.strings[s.serial]
              ELSE serial = NoString \/ text(serial) = <<>>
      /\ walking = "over" =>
           \/ systems = {} \/ 3 + s.pad < GuidLength
           \/ StructureStart(Min(systems)) > TableLength
=============================================================================
