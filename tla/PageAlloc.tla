----------------------------- MODULE PageAlloc ------------------------------
(***************************************************************************)
(* The page allocations of the stub: efi_allocate_pages,                   *)
(* efi_allocate_pages_aligned and efi_free over the AllocatePages and      *)
(* FreePages of the firmware.  An aligned allocation asks for more pages   *)
(* than it needs and gives back the ones before and behind the aligned     *)
(* run, one firmware call at a time.  Sizes and bounds are in bytes,       *)
(* memory is a set of page numbers, and Top is the first number that does  *)
(* not fit into an unsigned long.                                          *)
(***************************************************************************)
EXTENDS Align, FiniteSets

CONSTANTS
  PageSize,   (* EFI_PAGE_SIZE, which is also EFI_ALLOC_ALIGN              *)
  TopPage,    (* the pages are numbered 0..TopPage-1                       *)
  Sizes,      (* the sizes callers ask for                                 *)
  Aligns,     (* the alignments callers ask for, in pages                  *)
  Maxes,      (* the addresses callers do not want exceeded                *)
  MaxBlocks   (* bound on the blocks callers hold at a time                *)

Top == TopPage * PageSize

ASSUME PageAllocAssumption ==
  /\ PageSize \in Nat \ {0}
  /\ TopPage \in Nat \ {0}
  /\ Sizes \subseteq 0..(Top - PageSize)
  /\ Aligns \subseteq Nat \ {0}
  /\ \A a \in Aligns : TopPage % a = 0        \* they are powers of two
  /\ Maxes \subseteq 0..(Top - 1)

VARIABLES
  owned,    (* the pages the firmware has allocated to the stub            *)
  blocks,   (* the blocks callers hold                                     *)
  call      (* the aligned allocation that is under way, or Idle           *)

vars == <<owned, blocks, call>>

Idle == [at |-> "idle"]

Pages == 0..(TopPage - 1)
Run(first, n) == first .. (first + n - 1)

(* efi_free gives back as many pages as the size a caller held.            *)
NrPages(size) == RoundUp(size, PageSize) \div PageSize
PagesOf(b) == Run(b.page, NrPages(b.size))

Init ==
  /\ owned = {}
  /\ blocks = {}
  /\ call = Idle

-----------------------------------------------------------------------------
(* AllocatePages finds a run of free pages that ends at or below limit, a  *)
(* byte address; memory the stub does not own may be in use by others.     *)
Placements(n, limit) ==
  {first \in Pages : /\ n > 0
                     /\ (first + n) * PageSize - 1 <= limit
                     /\ Run(first, n) \cap owned = {}}

(* FreePages refuses a run it did not allocate; the code does not look.    *)
FreePages(first, n) ==
  owned' = IF Run(first, n) \subseteq owned THEN owned \ Run(first, n)
                                            ELSE owned

(* The highest address that may be allocated: max plus one wraps to zero   *)
(* when max is the largest unsigned long, and back.                        *)
Limit(max, align) == (RoundDown((max + 1) % Top, align) - 1) % Top

Block(first, size, align, max) ==
  [page |-> first, size |-> size, align |-> align, max |-> max]

AllocatePages(size, max) ==
  /\ call = Idle
  /\ Cardinality(blocks) < MaxBlocks
  /\ \E first \in Placements(DivRoundUp(size, PageSize), Limit(max, PageSize)) :
       /\ owned' = owned \cup Run(first, DivRoundUp(size, PageSize))
       /\ blocks' = blocks \cup {Block(first, size, 1, max)}
  /\ UNCHANGED call

-----------------------------------------------------------------------------
(* efi_allocate_pages_aligned: first more pages than needed ...            *)
AlignedPage(base, align) == RoundUp(base, align) % TopPage

AllocateAligned(size, max, align) ==
  LET n == NrPages(size)
      slack == align - 1
  IN  /\ call = Idle
      /\ Cardinality(blocks) < MaxBlocks
      /\ \E base \in Placements(n + slack, Limit(max, align * PageSize)) :
           /\ owned' = owned \cup Run(base, n + slack)
           /\ call' = [at |-> "head", base |-> base,
                       block |-> Block(AlignedPage(base, align), size, align, max)]
      /\ UNCHANGED blocks

(* ... then those in front of the aligned run go back ...                  *)
Misplaced == call.base % call.block.align

FreeHead_OffByOne ==              \* mutation: slack - l pages in front
  /\ call.at = "head"
  /\ IF Misplaced = 0 THEN UNCHANGED owned
     ELSE FreePages(call.base, call.block.align - 1 - Misplaced)
  /\ call' = [call EXCEPT !.at = "tail"]
  /\ UNCHANGED blocks

FreeHead ==
  /\ call.at = "head"
  /\ IF Misplaced = 0 THEN UNCHANGED owned
     ELSE FreePages(call.base, call.block.align - 1 - Misplaced + 1)
  /\ call' = [call EXCEPT !.at = "tail"]
  /\ UNCHANGED blocks

(* ... and those behind it.                                                *)
Tail_OneTooMany ==                \* mutation: slack = l
  IF Misplaced = 0 THEN call.block.align - 1 ELSE Misplaced

Tail == IF Misplaced = 0 THEN call.block.align - 1 ELSE Misplaced - 1

FreeTail ==
  /\ call.at = "tail"
  /\ FreePages(call.block.page + NrPages(call.block.size), Tail)
  /\ blocks' = blocks \cup {call.block}
  /\ call' = Idle

(* efi_free: the caller gives back what it asked for.                      *)
Free(b) ==
  /\ call = Idle
  /\ FreePages(b.page, NrPages(b.size))
  /\ blocks' = blocks \ {b}
  /\ UNCHANGED call

Next ==
  \/ \E size \in Sizes, max \in Maxes : AllocatePages(size, max)
  \/ \E size \in Sizes, max \in Maxes, align \in Aligns :
       AllocateAligned(size, max, align)
  \/ FreeHead \/ FreeTail
  \/ \E b \in blocks : Free(b)

Spec == Init /\ [][Next]_vars

-----------------------------------------------------------------------------
BlockType == [page : Pages, size : Sizes, align : Aligns \cup {1}, max : Maxes]

TypeOK ==
  /\ owned \subseteq Pages
  /\ blocks \subseteq BlockType
  /\ call \in {Idle} \cup [at : {"head", "tail"}, base : Pages,
                           block : BlockType]

(* Between two calls the stub owns exactly the pages of the blocks its     *)
(* callers hold: the slack of an aligned allocation is given back to the   *)
(* last page, and nothing that belongs to a block is given back with it.   *)
Conserved == call = Idle => owned = UNION {PagesOf(b) : b \in blocks}

(* No page belongs to two blocks.                                          *)
Disjoint ==
  \A b, c \in blocks : b # c => PagesOf(b) \cap PagesOf(c) = {}

(* Every block is aligned as asked.                                        *)
Aligned == \A b \in blocks : b.page % b.align = 0

(* The last page of a block does not exceed max, provided max leaves room  *)
(* for one aligned run (see MCPageAlloc for what happens otherwise).       *)
BelowMax ==
  \A b \in blocks :
    b.max + 1 >= b.align * PageSize
      => (b.page + NrPages(b.size)) * PageSize - 1 <= b.max

(* What a caller of efi_allocate_pages or efi_allocate_pages_aligned holds: *)
(* pages of its own, aligned as asked, and none above max.                 *)
BlocksAsPromised ==
  /\ Disjoint
  /\ Aligned
  /\ BelowMax
=============================================================================
