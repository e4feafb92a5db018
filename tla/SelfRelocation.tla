--------------------------- MODULE SelfRelocation ---------------------------
(***************************************************************************)
(* _relocate (gnuefi/reloc_riscv64.c): the image of the stub, loaded at    *)
(* ldbase, adjusts its own words by the table its dynamic section names.   *)
(* Addresses and sizes are counted in words; an entry has an offset, its   *)
(* type and an addend.                                                     *)
(***************************************************************************)
EXTENDS Integers, SequencesExt, FiniteSetsExt

CONSTANTS
  LoadBases,     (* where the image may be loaded                          *)
  LinkedImages,  (* the dynamic section, a sequence of tags and values, and*)
                 (* the table, a sequence of entries, which are words      *)
  TableAt, ImageWords   (* the layout of the image                         *)

VARIABLES
  ldbase, dyn, table, memory,
  rel, relsz, relent,
  relocating     (* dyn, apply, or the status                              *)

relocVars == <<ldbase, dyn, table, memory, rel, relsz, relent, relocating>>

NoTable == -1
R_RISCV_RELATIVE == 3

(* A word is an offset, a type, an addend, or code, which is its address.  *)
EntryWords(entries) == IF entries = <<>> THEN 1 ELSE Len(entries[1])
TableEnd(entries) == TableAt + Len(entries) * EntryWords(entries)
LoadedAt(base, entries) ==
  [a \in base..(base + ImageWords) |->
     LET i == a - base - TableAt
     IN  IF a - base \in TableAt..(TableEnd(entries) - 1)
         THEN entries[(i \div EntryWords(entries)) + 1][(i % EntryWords(entries)) + 1]
         ELSE a - base]

RelocInit ==
  /\ ldbase \in LoadBases
  /\ \E image \in LinkedImages : dyn = image.dyn /\ table = image.table
  /\ memory = LoadedAt(ldbase, table)
  /\ rel = NoTable /\ relsz = 0 /\ relent = 0 /\ relocating = "dyn"

(* The value of the last entry with a tag, up to DT_NULL.                  *)
TagValue(d, tag, default) ==
  LET end == Min({i \in DOMAIN d : d[i].tag = "NULL"})
      tagged == {i \in 1..(end - 1) : d[i].tag = tag}
  IN  IF tagged = {} THEN default ELSE d[Max(tagged)].val

(* The linker has put entries of one size into the table, and RELASZ says  *)
(* some of them; the words they name are in the image and not in the table.*)
ASSUME RelocAssumption ==
  /\ LoadBases \subseteq Nat /\ TableAt \in Nat /\ ImageWords \in Nat
  /\ \A image \in LinkedImages :
       LET t == image.table
           words == EntryWords(t)
       IN  /\ Len(t) \in Nat /\ DOMAIN t = 1..Len(t)
           /\ words \in Nat \ {0} /\ TableEnd(t) <= ImageWords + 1
           /\ \A k \in 1..Len(t) :
                /\ t[k] \in [1..words -> Int] /\ words >= 3
                /\ t[k][1] \in (0..ImageWords) \ (TableAt..(TableEnd(t) - 1))
           /\ TagValue(image.dyn, "RELA", NoTable) \in {TableAt, NoTable}
           /\ TagValue(image.dyn, "RELAENT", 0) \in {words, 0}
           /\ \E n \in 0..Len(t) : TagValue(image.dyn, "RELASZ", 0) = n * words

ReadDyn ==
  /\ relocating = "dyn"
  /\ LET at == TagValue(dyn, "RELA", NoTable)
         found == at # NoTable
         size == TagValue(dyn, "RELAENT", 0)
     IN  /\ rel' = IF found THEN at + ldbase ELSE NoTable
         /\ relsz' = TagValue(dyn, "RELASZ", 0) /\ relent' = size
         /\ relocating' = CASE ~found /\ size = 0 -> "SUCCESS"
                            [] found /\ size # 0 -> "apply"
                            [] OTHER -> "LOAD_ERROR"
  /\ UNCHANGED <<ldbase, dyn, table, memory>>

NextEntry_Packed(at) == at + 3    \* mutation: sizeof instead of DT_RELAENT
NextEntry(at) == at + relent

(* An entry that is not R_RISCV_RELATIVE is passed over.                   *)
Apply ==
  /\ relocating = "apply" /\ relsz > 0
  /\ memory' = IF memory[rel + 1] = R_RISCV_RELATIVE
               THEN [memory EXCEPT ![ldbase + memory[rel]] = ldbase + memory[rel + 2]]
               ELSE memory
  /\ rel' = NextEntry(rel) /\ relsz' = relsz - relent
  /\ UNCHANGED <<ldbase, dyn, table, relent, relocating>>

Relocated ==
  /\ relocating = "apply" /\ relsz <= 0
  /\ relocating' = "SUCCESS"
  /\ UNCHANGED <<ldbase, dyn, table, memory, rel, relsz, relent>>

RelocNext == ReadDyn \/ Apply \/ Relocated

RelocSpec == RelocInit /\ [][RelocNext]_relocVars

-----------------------------------------------------------------------------
(* When _relocate has succeeded every word the table names holds its       *)
(* addend moved by where the image was loaded, by the last entry that names*)
(* it, and all the others, those of the table among them, are as they were *)
(* loaded; without a size of the entries, or without a table, nothing was  *)
(* touched.                                                                *)
RelocatedWhereNamed ==
  LET named(w) == {k \in DOMAIN table : /\ k * relent <= TagValue(dyn, "RELASZ", 0)
                                        /\ table[k][2] = R_RISCV_RELATIVE
                                        /\ table[k][1] = w - ldbase}
      applied == relocating = "SUCCESS" /\ relent # 0
  IN  relocating \in {"SUCCESS", "LOAD_ERROR"} =>
        \A w \in DOMAIN memory :
          memory[w] = IF applied /\ named(w) # {}
                      THEN ldbase + table[Max(named(w))][3]
                      ELSE LoadedAt(ldbase, table)[w]
=============================================================================
