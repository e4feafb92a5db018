---------------------------- MODULE MCElfLoader -----------------------------
(***************************************************************************)
(* ElfLoader over files with up to three program headers out of a set      *)
(* that has one of every kind the loader distinguishes.                    *)
(***************************************************************************)
EXTENDS ElfLoader

Delta == 12   (* the kernel's distance of virtual from physical addresses  *)

Segment(offset, filesz, paddr, memsz) ==
  [load |-> TRUE, offset |-> offset, filesz |-> filesz, paddr |-> paddr,
   vaddr |-> paddr + Delta, memsz |-> memsz, align |-> PageSize]

Text == Segment(0, 2, 4, 2)
Data == Segment(2, 1, 8, 2)       \* one byte of data, one of bss
Bss == Segment(0, 0, 6, 1)
Overlapping == Segment(1, 1, 5, 3)
Empty == Segment(0, 0, 11, 0)
Unaligned == Segment(0, 2, 3, 2)
BehindFile == Segment(2, 2, 4, 3)
TooSmall == Segment(0, 3, 8, 2)   \* more bytes in the file than in memory
Elsewhere == [Data EXCEPT !.vaddr = 15]
Note == [Text EXCEPT !.load = FALSE]
OddlyAligned == [Text EXCEPT !.align = 1]

Kinds == {Text, Data, Bss, Overlapping, Empty, Unaligned, BehindFile,
          TooSmall, Elsewhere, Note}

File(phdrs, entry) ==
  [size |-> 3, ident |-> TRUE, phentsize |-> TRUE, phnum |-> Len(phdrs),
   sections |-> "none", shInfo |-> 0, phdrs |-> phdrs, entry |-> entry]

Kernel == File(<<Text, Data>>, 17)

(* Headers the parser looks at; PN_XNUM is 5 - 1.                          *)
ExtraHeaders(sections, shInfo) ==
  [Kernel EXCEPT !.phnum = PnXnum, !.sections = sections, !.shInfo = shInfo]

OddFiles ==
  {[Kernel EXCEPT !.ident = FALSE], [Kernel EXCEPT !.phentsize = FALSE],
   [Kernel EXCEPT !.phnum = 0], [Kernel EXCEPT !.phnum = 3],
   ExtraHeaders("none", 2), ExtraHeaders("outside", 2), ExtraHeaders("inside", 0),
   ExtraHeaders("inside", 2), File(<<OddlyAligned>>, 17), File(<<OddlyAligned, Data>>, 17)}

SmallFiles ==
  {File(phdrs, entry) :
     phdrs \in UNION {[1..n -> Kinds] : n \in 1..3}, entry \in {17, 20}}
  \cup OddFiles
=============================================================================
