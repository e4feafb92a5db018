----------------------------- MODULE ElfLoader ------------------------------
(***************************************************************************)
(* load_elf: the kernel, an ELF file linked into the stub, is put into     *)
(* memory.  The program headers are walked twice: once to find the extent  *)
(* of the image, once to copy the segments into one aligned allocation.    *)
(* A byte of the file is named by its offset, memory maps an address to    *)
(* the byte of the file it holds, to Zero or to Junk.                      *)
(***************************************************************************)
EXTENDS Align, Sequences

CONSTANTS
  Files,      (* the ELF files that may be linked in                       *)
  PageSize,   (* EFI_PAGE_SIZE                                             *)
  MemAlign,   (* KERNEL_MEM_ALIGN                                          *)
  MemTop,     (* memory has the addresses 0..MemTop-1                      *)
  U16, U64    (* the first number a u16, a u64 does not hold               *)

ProgramHeaders ==
  [load : BOOLEAN, offset : Nat, filesz : Nat, paddr : Nat, vaddr : Nat,
   memsz : Nat, align : Nat]

(* phdrs are the program headers the file has room for from e_phoff on;    *)
(* sections tells where e_shoff points.                                    *)
ElfFiles ==
  [size : Nat, ident : BOOLEAN, phentsize : BOOLEAN, phnum : 0..(U16 - 1),
   sections : {"none", "outside", "inside"}, shInfo : Nat,
   phdrs : Seq(ProgramHeaders), entry : Nat]

ASSUME ElfAssumption ==
  /\ PageSize \in Nat \ {0}
  /\ MemAlign \in Nat /\ MemAlign > 1
  /\ U16 \in Nat \ {0} /\ U64 \in Nat \ {0}
  /\ MemTop \in 0..U64
  /\ U64 % MemAlign = 0                         \* both are powers of two
  /\ Files \subseteq ElfFiles
  \* A kernel is linked below the top of the address space.
  /\ \A f \in Files : \A k \in 1..Len(f.phdrs) :
       LET p == f.phdrs[k]
       IN  /\ p.paddr + p.memsz + MemAlign < U64
           /\ p.vaddr < U64 /\ p.offset + p.filesz < U64

Addresses == 0..(MemTop - 1)
Zero == -1
Junk == -2

VARIABLES
  file,       (* the payload                                               *)
  at,         (* where load_elf is                                         *)
  k,          (* the program header a loop is at                           *)
  phnum,      (* phdrs_nr                                                  *)
  extent,     (* min_paddr, max_paddr, min_vaddr                           *)
  base, size, (* allocated_paddr, allocated_size                           *)
  owned,      (* the addresses allocated for the kernel                    *)
  memory,     (* what every address holds                                  *)
  info        (* the result in payload_info                                *)

vars == <<file, at, k, phnum, extent, base, size, owned, memory, info>>

NoInfo == [paddr |-> 0, size |-> 0, entry |-> 0]

(* The extent before any segment was seen: UINT64_MAX, 0, UINT64_MAX.      *)
NoExtent == [minPaddr |-> U64 - 1, maxPaddr |-> 0, minVaddr |-> U64 - 1]

Init ==
  /\ file \in Files
  /\ at = "parse" /\ k = 1 /\ phnum = 0
  /\ extent = NoExtent
  /\ base = 0 /\ size = 0
  /\ owned = {}
  /\ memory = [a \in Addresses |-> Junk]
  /\ info = NoInfo

-----------------------------------------------------------------------------
(* elf_get_header and parse_phdrs.                                         *)
PnXnum == U16 - 1

(* The number of program headers a u16 of the code ends up with.           *)
ParsedPhnum(f) == IF f.phnum = PnXnum THEN f.shInfo % U16 ELSE f.phnum

HeadersAccepted(f) ==
  /\ f.ident /\ f.phnum # 0 /\ f.phentsize
  /\ f.phnum = PnXnum => f.sections = "inside" /\ ParsedPhnum(f) # 0
  /\ ParsedPhnum(f) <= Len(f.phdrs)

Parse ==
  /\ at = "parse" /\ HeadersAccepted(file)
  /\ at' = "measure" /\ phnum' = ParsedPhnum(file)
  /\ UNCHANGED <<file, k, extent, base, size, owned, memory, info>>

ParseFails ==
  /\ at = "parse" /\ ~HeadersAccepted(file)
  /\ at' = "refused"
  /\ UNCHANGED <<file, k, phnum, extent, base, size, owned, memory, info>>

-----------------------------------------------------------------------------
(* efi_allocate_kernel_memory: the extent of the segments ...              *)
Smaller(x, y) == IF x < y THEN x ELSE y
Larger(x, y) == IF x > y THEN x ELSE y

(* p_align & !EFI_PAGE_SIZE: the operator is the logical not.              *)
LogicalNot(x) == IF x = 0 THEN 1 ELSE 0
BadAlign(p) == (p.align % 2) * LogicalNot(PageSize) # 0

Extended_LastEnd(e, p) ==         \* mutation: max_paddr without max()
  [minPaddr |-> Smaller(e.minPaddr, p.paddr),
   maxPaddr |-> p.paddr + p.memsz,
   minVaddr |-> Smaller(e.minVaddr, p.vaddr)]

Extended(e, p) ==
  [minPaddr |-> Smaller(e.minPaddr, p.paddr),
   maxPaddr |-> Larger(e.maxPaddr, p.paddr + p.memsz),
   minVaddr |-> Smaller(e.minVaddr, p.vaddr)]

Header == file.phdrs[k]

Measure ==
  /\ at = "measure" /\ k <= phnum
  /\ Header.load => ~BadAlign(Header)
  /\ extent' = IF Header.load THEN Extended(extent, Header) ELSE extent
  /\ k' = k + 1
  /\ UNCHANGED <<file, at, phnum, base, size, owned, memory, info>>

(* ... and one allocation for all of them, which is zeroed.  The           *)
(* allocation itself is efi_allocate_pages_aligned in PageAlloc.           *)
MemSize == RoundUp(extent.maxPaddr - extent.minPaddr, MemAlign)

Cleared_Not(m, region) ==         \* mutation: no memset
  m

Cleared(m, region) == [a \in Addresses |-> IF a \in region THEN Zero ELSE m[a]]

Allocate ==
  /\ at = "measure" /\ k = phnum + 1
  /\ extent.minPaddr % MemAlign = 0
  /\ \E b \in Addresses :
       LET region == b .. (b + MemSize - 1)
       IN  /\ b % MemAlign = 0 /\ region \subseteq Addresses
           /\ base' = b /\ size' = MemSize
           /\ owned' = region
           /\ memory' = Cleared(memory, region)
  /\ at' = "copy" /\ k' = 1
  /\ UNCHANGED <<file, phnum, extent, info>>

(* load_elf does not look at the status of load_program and goes on with   *)
(* the zeros its results were initialized with.                            *)
Unloaded == [paddr |-> 0, size |-> 0, entry |-> file.entry]

(* An unaligned image, a bad alignment, or no memory.                      *)
AllocateFails ==
  /\ at = "measure"
  /\ k <= phnum => Header.load /\ BadAlign(Header)
  /\ at' = "unloaded" /\ info' = Unloaded
  /\ UNCHANGED <<file, k, phnum, extent, base, size, owned, memory>>

-----------------------------------------------------------------------------
(* load_program: the segments are copied one by one.                       *)
SegmentAccepted(f, p) ==
  /\ ~BadAlign(p)
  /\ p.offset + p.filesz <= f.size
  /\ p.memsz >= p.filesz

Target(p) == base + (p.paddr - extent.minPaddr)

(* memcpy of the bytes the segment has in the file.                        *)
Copied(m, p, to) ==
  [a \in Addresses |-> IF a \in to .. (to + p.filesz - 1)
                         THEN p.offset + (a - to) ELSE m[a]]

SkipHeader ==
  /\ at = "copy" /\ k <= phnum /\ ~Header.load
  /\ k' = k + 1
  /\ UNCHANGED <<file, at, phnum, extent, base, size, owned, memory, info>>

Copy ==
  /\ at = "copy" /\ k <= phnum /\ Header.load
  /\ SegmentAccepted(file, Header)
  /\ memory' = IF Header.memsz = 0 THEN memory
               ELSE Copied(memory, Header, Target(Header))
  /\ k' = k + 1
  /\ UNCHANGED <<file, at, phnum, extent, base, size, owned, info>>

CopyFails_Leaks ==                \* mutation: return instead of goto failed
  /\ at = "copy" /\ k <= phnum /\ Header.load
  /\ ~SegmentAccepted(file, Header)
  /\ at' = "unloaded" /\ info' = Unloaded
  /\ UNCHANGED <<file, k, phnum, extent, base, size, owned, memory>>

(* A refused segment frees the allocation.                                 *)
CopyFails ==
  /\ at = "copy" /\ k <= phnum /\ Header.load
  /\ ~SegmentAccepted(file, Header)
  /\ owned' = owned \ (base .. (base + size - 1))
  /\ at' = "unloaded" /\ info' = Unloaded
  /\ UNCHANGED <<file, k, phnum, extent, base, size, memory>>

EntryPoint_Physical(f) ==         \* mutation: relative to the physical base
  ((f.entry - extent.minPaddr) + base) % U64

EntryPoint(f) == ((f.entry - extent.minVaddr) + base) % U64

Loaded ==
  /\ at = "copy" /\ k = phnum + 1
  /\ at' = "loaded"
  /\ info' = [paddr |-> base, size |-> size, entry |-> EntryPoint(file)]
  /\ UNCHANGED <<file, k, phnum, extent, base, size, owned, memory>>

Next ==
  \/ Parse \/ ParseFails
  \/ Measure \/ Allocate \/ AllocateFails
  \/ SkipHeader \/ Copy \/ CopyFails \/ Loaded

Spec == Init /\ [][Next]_vars

-----------------------------------------------------------------------------
TypeOK ==
  /\ file \in Files
  /\ at \in {"parse", "measure", "copy", "loaded", "unloaded", "refused"}
  /\ phnum \in 0..Len(file.phdrs) /\ k \in 1..(phnum + 1)
  /\ extent \in [minPaddr : 0..(U64 - 1), maxPaddr : 0..(U64 - 1),
                 minVaddr : 0..(U64 - 1)]
  /\ base \in Nat /\ size \in Nat
  /\ owned \subseteq Addresses
  /\ memory \in [Addresses -> Int]
  /\ info \in [paddr : Nat, size : Nat, entry : Nat]

(* What the file says of its headers, for a number of headers a u16 holds. *)
HeaderCount(f) == IF f.phnum = PnXnum THEN f.shInfo ELSE f.phnum
Segments(f) == {f.phdrs[n] : n \in {n \in 1..HeaderCount(f) : f.phdrs[n].load}}

(* Segments whose ranges of physical memory are disjoint.                  *)
Apart(f) ==
  \A m, n \in 1..HeaderCount(f) :
    LET p == f.phdrs[m]  q == f.phdrs[n]
    IN  m < n /\ p.load /\ q.load =>
          p.paddr + p.memsz <= q.paddr \/ q.paddr + q.memsz <= p.paddr

(* Loading the kernel writes to nothing but the memory allocated for it.   *)
OutsideUntouched ==
  at # "unloaded" => \A a \in Addresses \ owned : memory[a] = Junk

(* The kernel finds itself in memory as its file describes it: every       *)
(* segment has the bytes of the file at its place in the image and zeros   *)
(* behind them, and what lies between the segments is zero.                *)
ImageCorrect ==
  at = "loaded" /\ HeaderCount(file) < U16 /\ Apart(file) =>
    /\ \A p \in Segments(file) : \A o \in 0..(p.memsz - 1) :
         memory[Target(p) + o] = IF o < p.filesz THEN p.offset + o ELSE Zero
    /\ \A a \in owned :
         \/ memory[a] = Zero
         \/ \E p \in Segments(file) : a \in Target(p)..(Target(p) + p.memsz - 1)

(* All segments are mapped at the same distance from where they lie.       *)
Linear(f) == \A p, q \in Segments(f) : p.vaddr - p.paddr = q.vaddr - q.paddr

(* The address the stub jumps to holds the byte of the file that the       *)
(* kernel is linked to start at.                                           *)
EntryCorrect ==
  at = "loaded" /\ HeaderCount(file) < U16 /\ Apart(file) /\ Linear(file) =>
    \A p \in Segments(file) :
      file.entry \in p.vaddr..(p.vaddr + p.filesz - 1) =>
        /\ info.entry \in owned
        /\ memory[info.entry] = p.offset + (file.entry - p.vaddr)

(* Memory is held exactly while there is a kernel, or the beginning of     *)
(* one, in it; payload_info and the payload table name what is held.       *)
HeldIfLoaded ==
  /\ at \in {"parse", "measure", "unloaded", "refused"} => owned = {}
  /\ at = "loaded" => owned = info.paddr .. (info.paddr + info.size - 1)
=============================================================================
