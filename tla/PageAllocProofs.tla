--------------------------- MODULE PageAllocProofs --------------------------
(***************************************************************************)
(* Theorems about the page allocations, for every page size, every amount  *)
(* of memory, every alignment that divides it, and every number of blocks. *)
(***************************************************************************)
EXTENDS PageAlloc, NumberTheorems

-----------------------------------------------------------------------------
(* Arithmetic.                                                             *)

(* Multiplying by the page size keeps the order.                           *)
LEMMA Monotone ==
  ASSUME NEW i \in Int, NEW j \in Int, NEW k \in Nat \ {0}
  PROVE  i <= j <=> i * k <= j * k
<1>1. ASSUME i <= j PROVE i * k <= j * k
  <2>1. (j - i) * k >= 0
    BY <1>1
  <2>2. (j - i) * k = j * k - i * k
    OBVIOUS
  <2> QED
    BY <2>1, <2>2
<1>2. ASSUME i > j PROVE i * k > j * k
  <2>1. (i - j) * k >= k
    BY <1>2
  <2>2. (i - j) * k = i * k - j * k
    OBVIOUS
  <2> QED
    BY <2>1, <2>2
<1> QED
  BY <1>1, <1>2

(* Both ways of counting the pages of a size agree: what efi_allocate_pages *)
(* asks for is what efi_free gives back.                                   *)
LEMMA PageCount ==
  ASSUME NEW size \in Nat
  PROVE  NrPages(size) \in Nat /\ DivRoundUp(size, PageSize) = NrPages(size)
<1> USE PageAllocAssumption
<1>1. PICK y \in Nat : y = size + (PageSize - 1)
  OBVIOUS
<1>2. PICK q \in Int : q = y \div PageSize
  BY DivMod
<1>3. q >= 0
  BY <1>1, <1>2
<1>4. PICK m \in Int : m = q * PageSize
  BY <1>2
<1>5. m = PageSize * q + 0
  BY <1>4
<1>6. m \div PageSize = q
  BY <1>5, DivUnique
<1>7. NrPages(size) = q /\ DivRoundUp(size, PageSize) = q
  BY <1>1, <1>2, <1>4, <1>6, Zenon
  DEF NrPages, RoundUp, RoundDown, DivRoundUp
<1> QED
  BY <1>2, <1>3, <1>7

(* A number below the modulus is its own remainder.                        *)
LEMMA SmallMod ==
  ASSUME NEW a \in Nat \ {0}, NEW x \in 0..(a - 1)
  PROVE  x % a = x
<1>1. x = a * 0 + x /\ 0 <= x /\ x < a /\ a > 0
  OBVIOUS
<1> QED
  BY <1>1, DivUnique

(* The limit handed to the firmware is an address, and it is at most max   *)
(* when max leaves room for one aligned run.                               *)
LEMMA LimitIs ==
  ASSUME NEW max \in 0..(Top - 1), NEW a \in Nat \ {0}
  PROVE  Limit(max, a) \in 0..(Top - 1) /\ (max + 1 >= a => Limit(max, a) <= max)
<1>1. PICK t \in Nat \ {0} : t = Top
  BY PageAllocAssumption DEF Top
<1>2. PICK m \in 0..(t - 1) : m = (max + 1) % t
  BY <1>1
<1>3. PICK d \in Int : d = RoundDown(m, a) /\ d = m - (m % a)
  <2>1. m \in Int
    OBVIOUS
  <2> QED
    BY <2>1, RoundDownIs
<1>4. Limit(max, a) = (d - 1) % t
  BY <1>1, <1>2, <1>3, Zenon DEF Limit
<1>5. (d - 1) % t \in 0..(t - 1)
  BY <1>1, <1>3
<1>6. PICK s \in 0..(a - 1) : s = m % a
  BY <1>2, DivMod
<1>7. d = m - s
  BY <1>3, <1>6, Zenon
<1>8. ASSUME max + 1 >= a PROVE (d - 1) % t <= max
  <2>1. CASE max + 1 = t
    BY <1>5, <2>1
  <2>2. CASE max + 1 # t
    <3>1. max + 1 \in 0..(t - 1)
      BY <1>1, <2>2
    <3>2. m = max + 1
      BY <1>1, <1>2, <3>1, SmallMod
    <3>3. d - 1 \in 0..(t - 1)
      BY <1>2, <1>6, <1>7, <1>8, <3>2
    <3>4. (d - 1) % t = d - 1
      BY <1>1, <3>3, SmallMod
    <3> QED
      BY <1>6, <1>7, <3>2, <3>4
  <2> QED
    BY <2>1, <2>2
<1> QED
  BY <1>1, <1>4, <1>5, <1>8, Zenon

-----------------------------------------------------------------------------
(* One aligned allocation.                                                 *)

(* Where the aligned page lies in the run the firmware gave: misplaced by  *)
(* l pages, it is align - l further on; only an empty block whose aligned  *)
(* page would lie beyond the last page gets page zero.                     *)
LEMMA Geometry ==
  ASSUME NEW base \in Pages, NEW align \in Nat \ {0}, TopPage % align = 0,
         NEW n \in Nat, n + align - 1 > 0, base + n + align - 1 <= TopPage,
         NEW page, page = AlignedPage(base, align),
         NEW l, l = base % align
  PROVE  /\ page \in Pages /\ page % align = 0 /\ l \in 0..(align - 1)
         /\ page + n <= base + n + align - 1
         /\ l = 0 => page = base
         /\ l # 0 => \/ page = base + (align - l)
                     \/ page = 0 /\ n = 0 /\ l = 1
<1> USE PageAllocAssumption DEF Pages
<1>1. base \in Int /\ base \in Nat /\ l \in 0..(align - 1)
  BY DivMod
<1>2. PICK u \in Int : u = RoundUp(base, align) /\ u % align = 0
  BY <1>1, RoundUpIs
<1>3. (l = 0 => u = base) /\ (l # 0 => u = base + (align - l))
  BY <1>1, <1>2, RoundUpIs, Zenon
<1>4. page = u % TopPage
  BY <1>2, Zenon DEF AlignedPage
<1>5. CASE u < TopPage
  <2>1. u \in 0..(TopPage - 1)
    BY <1>1, <1>3, <1>5
  <2>2. page = u
    BY <1>4, <2>1, SmallMod
  <2>3. page % align = 0
    BY <1>2, <2>2, Zenon
  <2> QED
    BY <1>1, <1>3, <2>1, <2>2, <2>3
<1>6. CASE u >= TopPage
  <2>1. l # 0 /\ u = base + (align - l) /\ n = 0 /\ l = 1 /\ u = TopPage
    BY <1>1, <1>3, <1>6
  <2>2. TopPage = TopPage * 1 + 0 /\ TopPage > 0 /\ 0 = align * 0 + 0 /\ align > 0
    OBVIOUS
  <2>3. TopPage % TopPage = 0 /\ 0 % align = 0
    BY <2>2, DivUnique
  <2>4. page = 0
    BY <1>4, <2>1, <2>3
  <2>5. page % align = 0
    BY <2>3, <2>4, Zenon
  <2> QED
    BY <1>1, <2>1, <2>4, <2>5
<1> QED
  BY <1>2, <1>5, <1>6

(* What the firmware hands out lies in memory and was free.                *)
LEMMA Handed ==
  ASSUME NEW n \in Nat, NEW limit \in 0..(Top - 1),
         NEW first \in Placements(n, limit)
  PROVE  /\ first \in Pages /\ n > 0 /\ first + n <= TopPage
         /\ (first + n) * PageSize - 1 <= limit
         /\ Run(first, n) \subseteq Pages /\ Run(first, n) \cap owned = {}
<1> USE PageAllocAssumption
<1>1. /\ first \in Pages /\ n > 0 /\ (first + n) * PageSize - 1 <= limit
      /\ Run(first, n) \cap owned = {}
  BY DEF Placements
<1>2. first \in Int /\ first >= 0 /\ first + n \in Int
  BY <1>1 DEF Pages
<1>3. (first + n) * PageSize <= TopPage * PageSize
  <2>1. PICK e \in Int : e = (first + n) * PageSize
    BY <1>2
  <2>2. PICK t \in Int : t = TopPage * PageSize
    OBVIOUS
  <2>3. e - 1 <= limit /\ limit <= t - 1
    BY <1>1, <2>1, <2>2 DEF Top
  <2> QED
    BY <2>1, <2>2, <2>3
<1>4. first + n <= TopPage
  BY <1>2, <1>3, Monotone
<1>5. Run(first, n) \subseteq Pages
  BY <1>1, <1>2, <1>4 DEF Run, Pages
<1> QED
  BY <1>1, <1>4, <1>5

-----------------------------------------------------------------------------
(* The invariant.                                                          *)

Held == UNION {PagesOf(b) : b \in blocks}

(* The part of the firmware's run that the allocation still holds.         *)
InFlight ==
  IF call.at = "head"
    THEN Run(call.base, NrPages(call.block.size) + call.block.align - 1)
    ELSE Run(call.block.page, NrPages(call.block.size) + Tail)

CallInv ==
  LET align == call.block.align
      n == NrPages(call.block.size)
  IN  call.at # "idle" =>
        /\ TopPage % align = 0 /\ align \in Nat \ {0}
        /\ n + align - 1 > 0 /\ call.base + n + align - 1 <= TopPage
        /\ (call.base + n + align - 1) * PageSize - 1
              <= Limit(call.block.max, align * PageSize)
        /\ call.block.page = AlignedPage(call.base, align)
        /\ owned = Held \cup InFlight
        /\ Held \cap InFlight = {}

BlocksInv ==
  /\ call.at = "idle" => owned = Held
  /\ Disjoint /\ Aligned /\ BelowMax

(* A new block that shares no page with the others and is placed right     *)
(* leaves the blocks in order.                                             *)
LEMMA NewBlock ==
  ASSUME TypeOK, BlocksInv, NEW b \in BlockType,
         Held \cap PagesOf(b) = {}, b.page % b.align = 0,
         b.max + 1 >= b.align * PageSize
           => (b.page + NrPages(b.size)) * PageSize - 1 <= b.max,
         blocks' = blocks \cup {b}
  PROVE  /\ Disjoint' /\ Aligned' /\ BelowMax'
         /\ Held' = Held \cup PagesOf(b)
<1>1. \A c \in blocks : PagesOf(c) \subseteq Held
  BY DEF Held
<1>2. Disjoint'
  BY <1>1 DEF BlocksInv, Disjoint
<1>3. Aligned'
  BY DEF BlocksInv, Aligned
<1>4. BelowMax'
  BY DEF BlocksInv, BelowMax
<1>5. Held' = Held \cup PagesOf(b)
  BY DEF Held
<1> QED
  BY <1>2, <1>3, <1>4, <1>5

-----------------------------------------------------------------------------
(* One lemma per operation.                                                *)

IInv == TypeOK /\ CallInv /\ BlocksInv

(* Idle and the records of an allocation under way are told apart by "at". *)
LEMMA CallIs ==
  ASSUME TypeOK
  PROVE  /\ call.at = "idle" <=> call = Idle
         /\ call.at # "idle" =>
              /\ call \in [at : {"head", "tail"}, base : Pages,
                           block : BlockType]
              /\ call.block.page \in Pages /\ call.block.size \in Sizes
              /\ call.block.align \in Aligns \cup {1}
              /\ call.block.max \in Maxes
<1>1. CASE call = Idle
  BY <1>1 DEF Idle
<1>2. CASE call \in [at : {"head", "tail"}, base : Pages, block : BlockType]
  BY <1>2 DEF Idle, BlockType
<1> QED
  BY <1>1, <1>2 DEF TypeOK

(* efi_allocate_pages.                                                     *)
LEMMA AllocatePagesStep ==
  ASSUME IInv, NEW size \in Sizes, NEW max \in Maxes, AllocatePages(size, max)
  PROVE  IInv'
<1> USE PageAllocAssumption
<1>1. size \in Nat /\ max \in 0..(Top - 1)
  BY DEF Top
<1>2. PICK n \in Nat : n = NrPages(size) /\ n = DivRoundUp(size, PageSize)
  BY <1>1, PageCount
<1>3. PICK limit \in 0..(Top - 1) :
        limit = Limit(max, PageSize) /\ (max + 1 >= PageSize => limit <= max)
  BY <1>1, LimitIs
<1>4. PICK first \in Placements(n, limit) :
        /\ owned' = owned \cup Run(first, n)
        /\ blocks' = blocks \cup {Block(first, size, 1, max)}
  BY <1>2, <1>3 DEF AllocatePages
<1>5. /\ first \in Pages /\ first \in Int /\ (first + n) * PageSize - 1 <= limit
      /\ Run(first, n) \subseteq Pages /\ Run(first, n) \cap owned = {}
  BY <1>4, Handed DEF Pages
<1>6. PICK b : b = Block(first, size, 1, max)
  OBVIOUS
<1>7. /\ b \in BlockType /\ PagesOf(b) = Run(first, n)
      /\ b.page = first /\ b.size = size /\ b.align = 1 /\ b.max = max
  BY <1>2, <1>5, <1>6 DEF Block, BlockType, PagesOf
<1>8. call = Idle /\ UNCHANGED call /\ call.at = "idle"
  BY DEF AllocatePages, Idle
<1>9. owned = Held /\ TypeOK /\ BlocksInv
  BY <1>8 DEF IInv, BlocksInv
<1>10. b.page % b.align = 0
  <2>1. first % 1 \in 0..0
    BY <1>5
  <2>2. first % 1 = 0
    BY <2>1
  <2> QED
    BY <1>7, <2>2
<1>11. b.max + 1 >= b.align * PageSize
         => (b.page + NrPages(b.size)) * PageSize - 1 <= b.max
  <2>0. 1 * PageSize = PageSize
    OBVIOUS
  <2> SUFFICES ASSUME max + 1 >= PageSize
               PROVE  (first + n) * PageSize - 1 <= max
    BY <1>2, <1>7, <2>0, Zenon
  <2>1. PICK e \in Int : e = (first + n) * PageSize
    BY <1>5
  <2>2. e - 1 <= limit /\ limit <= max
    BY <1>3, <1>5, <2>1
  <2> QED
    BY <1>1, <2>1, <2>2
<1>12. /\ Disjoint' /\ Aligned' /\ BelowMax'
       /\ Held' = Held \cup PagesOf(b)
  <2>1. blocks' = blocks \cup {b} /\ Held \cap PagesOf(b) = {}
    BY <1>4, <1>5, <1>6, <1>7, <1>9
  <2> QED
    BY <1>7, <1>9, <1>10, <1>11, <2>1, NewBlock
<1>13. TypeOK'
  BY <1>4, <1>5, <1>6, <1>7, <1>8, <1>9 DEF TypeOK
<1>14. BlocksInv'
  BY <1>4, <1>7, <1>9, <1>12 DEF BlocksInv
<1>15. CallInv'
  BY <1>8 DEF CallInv
<1> QED
  BY <1>13, <1>14, <1>15 DEF IInv

(* efi_allocate_pages_aligned, the request for more than is needed.        *)
LEMMA AllocateAlignedStep ==
  ASSUME IInv, NEW size \in Sizes, NEW max \in Maxes, NEW align \in Aligns,
         AllocateAligned(size, max, align)
  PROVE  IInv'
<1> USE PageAllocAssumption
<1>1. size \in Nat /\ max \in 0..(Top - 1) /\ align \in Nat \ {0}
  BY DEF Top
<1>2. PICK n \in Nat : n = NrPages(size)
  BY <1>1, PageCount
<1>3. PICK wide \in Nat \ {0} : wide = align * PageSize
  <2>1. align * PageSize >= 1
    BY <1>1
  <2> QED
    BY <1>1, <2>1
<1>4. PICK limit \in 0..(Top - 1) : limit = Limit(max, align * PageSize)
  BY <1>1, <1>3, LimitIs
<1>5. PICK k \in Nat : k = n + (align - 1) /\ k = n + align - 1
  BY <1>1
<1>6. PICK base \in Placements(k, limit) :
        /\ owned' = owned \cup Run(base, k)
        /\ call' = [at |-> "head", base |-> base,
                    block |-> Block(AlignedPage(base, align), size, align, max)]
  BY <1>2, <1>4, <1>5 DEF AllocateAligned
<1>7. /\ base \in Pages /\ base \in Int /\ k > 0 /\ base + k <= TopPage
      /\ (base + k) * PageSize - 1 <= limit
      /\ Run(base, k) \subseteq Pages /\ Run(base, k) \cap owned = {}
  BY <1>6, Handed DEF Pages
<1>8. call.at = "idle" /\ UNCHANGED blocks
  BY DEF AllocateAligned, Idle
<1>9. owned = Held /\ TypeOK /\ BlocksInv
  BY <1>8 DEF IInv, BlocksInv
<1>10. PICK page \in Pages : page = AlignedPage(base, align)
  <2>1. TopPage % align = 0 /\ n + align - 1 > 0 /\ base + n + align - 1 <= TopPage
    BY <1>1, <1>2, <1>5, <1>7
  <2> QED
    BY <1>1, <1>2, <1>7, <2>1, Geometry
<1>11. /\ call'.at = "head" /\ call'.base = base /\ call'.block.page = page
       /\ call'.block.size = size /\ call'.block.align = align
       /\ call'.block.max = max
       /\ call' \in [at : {"head", "tail"}, base : Pages, block : BlockType]
  BY <1>6, <1>7, <1>10 DEF Block, BlockType
<1>12. Held' = Held /\ owned' = Held' \cup Run(base, k)
       /\ Held' \cap Run(base, k) = {}
  BY <1>6, <1>7, <1>8, <1>9 DEF Held
<1>13. TypeOK'
  BY <1>6, <1>7, <1>8, <1>9, <1>11 DEF TypeOK
<1>14. BlocksInv'
  BY <1>8, <1>9, <1>11 DEF BlocksInv, Disjoint, Aligned, BelowMax
<1>15. CallInv'
  <2>1. InFlight' = Run(base, k)
    BY <1>2, <1>5, <1>11 DEF InFlight
  <2>2. base + n + align - 1 = base + k
    BY <1>1, <1>5, <1>7
  <2>3. TopPage % align = 0
    OBVIOUS
  <2> QED
    BY <1>1, <1>2, <1>4, <1>5, <1>7, <1>10, <1>11, <1>12, <2>1, <2>2, <2>3
    DEF CallInv
<1> QED
  BY <1>13, <1>14, <1>15 DEF IInv

(* What the type and the invariant say of an allocation under way, in the  *)
(* terms of Geometry.                                                      *)
LEMMA UnderWay ==
  ASSUME IInv, call.at # "idle",
         NEW n, n = NrPages(call.block.size),
         NEW l, l = Misplaced
  PROVE  LET base == call.base
             align == call.block.align
             page == call.block.page
         IN  /\ base \in Pages /\ base \in Int /\ page \in Pages /\ page \in Int
             /\ align \in Nat \ {0} /\ n \in Nat /\ l \in 0..(align - 1)
             /\ page % align = 0 /\ page + n <= base + n + align - 1
             /\ l = 0 => page = base
             /\ l # 0 => \/ page = base + (align - l)
                         \/ page = 0 /\ n = 0 /\ l = 1
<1> USE PageAllocAssumption
<1>1. TypeOK /\ CallInv
  BY DEF IInv
<1>2. /\ call.base \in Pages /\ call.block.page \in Pages
      /\ call.block.size \in Sizes
  BY <1>1, CallIs
<1>3. n \in Nat
  <2>0. Sizes \subseteq Nat
    OBVIOUS
  <2>1. PICK size \in Nat : size = call.block.size
    BY <1>2, <2>0, Zenon
  <2> QED
    BY <2>1, PageCount
<1>4. /\ call.block.align \in Nat \ {0} /\ TopPage % call.block.align = 0
      /\ n + call.block.align - 1 > 0
      /\ call.base + n + call.block.align - 1 <= TopPage
      /\ call.block.page = AlignedPage(call.base, call.block.align)
  BY <1>1 DEF CallInv
<1>5. l = call.base % call.block.align
  BY DEF Misplaced
<1>6. /\ call.block.page % call.block.align = 0 /\ l \in 0..(call.block.align - 1)
      /\ call.block.page + n <= call.base + n + call.block.align - 1
      /\ l = 0 => call.block.page = call.base
      /\ l # 0 => \/ call.block.page = call.base + (call.block.align - l)
                  \/ call.block.page = 0 /\ n = 0 /\ l = 1
  BY <1>2, <1>3, <1>4, <1>5, Geometry
<1>7. call.base \in Int /\ call.block.page \in Int
  BY <1>2 DEF Pages
<1> QED
  BY <1>2, <1>3, <1>4, <1>6, <1>7, Zenon

(* Giving back the pages in front of the aligned run.                      *)
LEMMA FreeHeadStep == ASSUME IInv, FreeHead PROVE IInv'
<1> USE PageAllocAssumption
<1>1. call.at = "head" /\ call.at # "idle" /\ TypeOK /\ CallInv /\ BlocksInv
  BY DEF FreeHead, IInv
<1>2. PICK n : n = NrPages(call.block.size)
  OBVIOUS
<1>3. PICK l : l = Misplaced
  OBVIOUS
<1>4. PICK base \in Pages, page \in Pages, align \in Nat \ {0} :
        base = call.base /\ page = call.block.page /\ align = call.block.align
  BY <1>1, <1>2, <1>3, UnderWay
<1>5. /\ base \in Int /\ page \in Int /\ n \in Nat /\ l \in 0..(align - 1)
      /\ l = 0 => page = base
      /\ l # 0 => page = base + (align - l) \/ (page = 0 /\ n = 0 /\ l = 1)
  BY <1>1, <1>2, <1>3, <1>4, UnderWay
<1>6. /\ call' = [call EXCEPT !.at = "tail"] /\ UNCHANGED blocks
      /\ IF l = 0 THEN UNCHANGED owned ELSE FreePages(base, align - 1 - l + 1)
  BY <1>3, <1>4 DEF FreeHead
<1>7. /\ call'.at = "tail" /\ call'.base = base /\ call'.block = call.block
      /\ call' \in [at : {"head", "tail"}, base : Pages, block : BlockType]
  BY <1>1, <1>4, <1>6, CallIs
<1>8. InFlight = Run(base, n + align - 1)
  BY <1>1, <1>2, <1>4 DEF InFlight
<1>9. PICK t \in Nat : t = IF l = 0 THEN align - 1 ELSE l - 1
  BY <1>5
<1>10. InFlight' = Run(page, n + t)
  <2>1. Tail' = t
    BY <1>3, <1>4, <1>7, <1>9 DEF Tail, Misplaced
  <2> QED
    BY <1>2, <1>4, <1>7, <2>1 DEF InFlight
<1>11. owned = Held \cup InFlight /\ Held \cap InFlight = {}
  BY <1>1 DEF CallInv
<1>12. owned' = Held \cup Run(page, n + t) /\ Held \cap Run(page, n + t) = {}
  <2>1. CASE l = 0
    <3>1. Run(page, n + t) = Run(base, n + align - 1)
      BY <1>5, <1>9, <2>1 DEF Run
    <3> QED
      BY <1>6, <1>8, <1>11, <2>1, <3>1
  <2>2. CASE l # 0
    <3>1. owned' = IF Run(base, align - l) \subseteq owned
                   THEN owned \ Run(base, align - l) ELSE owned
      <4>1. align - 1 - l + 1 = align - l
        BY <1>5
      <4> QED
        BY <1>6, <2>2, <4>1 DEF FreePages
    <3>2. /\ Run(base, align - l) \subseteq Run(base, n + align - 1)
          /\ Run(base, n + align - 1) \ Run(base, align - l) = Run(page, n + t)
      BY <1>5, <1>9, <2>2 DEF Run
    <3> QED
      BY <1>8, <1>11, <3>1, <3>2
  <2> QED
    BY <2>1, <2>2
<1>13. Held' = Held
  BY <1>6 DEF Held
<1>14. TypeOK'
  <2>1. owned' \subseteq owned
    BY <1>6 DEF FreePages
  <2> QED
    BY <1>1, <1>6, <1>7, <2>1 DEF TypeOK
<1>15. BlocksInv'
  BY <1>1, <1>6, <1>7 DEF BlocksInv, Disjoint, Aligned, BelowMax
<1>16. CallInv'
  BY <1>1, <1>4, <1>7, <1>10, <1>12, <1>13 DEF CallInv
<1> QED
  BY <1>14, <1>15, <1>16 DEF IInv

(* Giving back the pages behind it, and the block to the caller.           *)
LEMMA FreeTailStep == ASSUME IInv, FreeTail PROVE IInv'
<1> USE PageAllocAssumption
<1>1. call.at = "tail" /\ call.at # "idle" /\ TypeOK /\ CallInv /\ BlocksInv
  BY DEF FreeTail, IInv
<1>2. PICK n : n = NrPages(call.block.size)
  OBVIOUS
<1>3. PICK l : l = Misplaced
  OBVIOUS
<1>4. PICK page \in Pages, align \in Nat \ {0} :
        page = call.block.page /\ align = call.block.align /\ page \in Int
  BY <1>1, <1>2, <1>3, UnderWay
<1>5. n \in Nat /\ l \in 0..(align - 1) /\ page % align = 0
  BY <1>1, <1>2, <1>3, <1>4, UnderWay
<1>6. page + n <= call.base + n + align - 1 /\ call.base \in Int
  BY <1>1, <1>2, <1>3, <1>4, UnderWay
<1>7. PICK t \in Nat : t = Tail
  BY <1>3, <1>4, <1>5 DEF Tail
<1>8. /\ FreePages(page + n, t) /\ call' = Idle
      /\ blocks' = blocks \cup {call.block}
  BY <1>2, <1>4, <1>7 DEF FreeTail
<1>9. owned = Held \cup Run(page, n + t) /\ Held \cap Run(page, n + t) = {}
  BY <1>1, <1>2, <1>4, <1>7 DEF CallInv, InFlight
<1>10. /\ Run(page + n, t) \subseteq Run(page, n + t)
       /\ Run(page, n + t) \ Run(page + n, t) = Run(page, n)
       /\ Run(page, n) \subseteq Run(page, n + t)
  BY <1>4, <1>5 DEF Run
<1>11. owned' = Held \cup Run(page, n)
  BY <1>8, <1>9, <1>10 DEF FreePages
<1>12. call.block \in BlockType /\ PagesOf(call.block) = Run(page, n)
  BY <1>1, <1>2, <1>4, CallIs DEF PagesOf
<1>13. call.block.max + 1 >= align * PageSize
         => (page + n) * PageSize - 1 <= call.block.max
  <2> SUFFICES ASSUME call.block.max + 1 >= align * PageSize
               PROVE  (page + n) * PageSize - 1 <= call.block.max
    OBVIOUS
  <2>1. call.block.max \in 0..(Top - 1)
    BY <1>1, CallIs
  <2>2. PICK wide \in Nat \ {0} : wide = align * PageSize
    <3>1. align * PageSize >= 1
      OBVIOUS
    <3> QED
      BY <3>1
  <2>3. PICK limit \in 0..(Top - 1) :
          limit = Limit(call.block.max, wide) /\ limit <= call.block.max
    BY <2>1, <2>2, LimitIs
  <2>4. (call.base + n + align - 1) * PageSize - 1 <= limit
    BY <1>1, <1>2, <1>4, <2>2, <2>3 DEF CallInv
  <2>5. PICK i \in Int : i = call.base + n + align - 1
    BY <1>4, <1>5, <1>6
  <2>6. PICK j \in Int : j = page + n
    BY <1>4, <1>5
  <2>7. j * PageSize <= i * PageSize
    BY <1>6, <2>5, <2>6, Monotone
  <2>8. i * PageSize - 1 <= limit /\ i * PageSize \in Int /\ j * PageSize \in Int
    BY <2>4, <2>5
  <2>9. PICK m \in Nat : m = call.block.max /\ limit <= m
    BY <2>1, <2>3
  <2>10. j * PageSize - 1 <= m
    BY <2>7, <2>8, <2>9, <2>3
  <2> QED
    BY <2>6, <2>9, <2>10
<1>14. /\ Disjoint' /\ Aligned' /\ BelowMax'
       /\ Held' = Held \cup PagesOf(call.block)
  <2>1. Held \cap PagesOf(call.block) = {}
    BY <1>9, <1>10, <1>12
  <2>2. call.block.page % call.block.align = 0
    BY <1>4, <1>5
  <2>3. call.block.max + 1 >= call.block.align * PageSize
          => (call.block.page + NrPages(call.block.size)) * PageSize - 1
               <= call.block.max
    BY <1>2, <1>4, <1>13, Zenon
  <2> QED
    BY <1>1, <1>8, <1>12, <2>1, <2>2, <2>3, NewBlock
<1>15. TypeOK'
  <2>1. owned' \subseteq owned
    BY <1>8 DEF FreePages
  <2> QED
    BY <1>1, <1>8, <1>12, <2>1 DEF TypeOK
<1>16. BlocksInv' /\ CallInv'
  BY <1>8, <1>11, <1>12, <1>14 DEF BlocksInv, CallInv, Idle
<1> QED
  BY <1>15, <1>16 DEF IInv

(* efi_free.                                                               *)
LEMMA FreeStep == ASSUME IInv, NEW b \in blocks, Free(b) PROVE IInv'
<1>1. call = Idle /\ call' = Idle /\ call.at = "idle" /\ call'.at = "idle"
  BY DEF Free, Idle
<1>2. /\ TypeOK /\ owned = Held /\ Disjoint /\ Aligned /\ BelowMax
      /\ blocks' = blocks \ {b}
  BY <1>1 DEF IInv, BlocksInv, Free
<1>3. PagesOf(b) \subseteq owned
  BY <1>2 DEF Held
<1>4. owned' = owned \ PagesOf(b)
  BY <1>3 DEF Free, FreePages, PagesOf
<1>5. owned' = Held'
  BY <1>2, <1>4 DEF Held, Disjoint
<1>6. Disjoint' /\ Aligned' /\ BelowMax'
  BY <1>2 DEF Disjoint, Aligned, BelowMax
<1>7. TypeOK'
  BY <1>1, <1>2, <1>4 DEF TypeOK
<1> QED
  BY <1>1, <1>5, <1>6, <1>7 DEF IInv, BlocksInv, CallInv

-----------------------------------------------------------------------------
(* The theorems.                                                           *)

(* Every step of the allocator keeps the invariant.                        *)
LEMMA Inductive == Spec => []IInv
<1>1. Init => IInv
  BY DEF Init, Idle, IInv, TypeOK, CallInv, BlocksInv, Held, Disjoint, Aligned,
         BelowMax
<1>2. IInv /\ [Next]_vars => IInv'
  <2> SUFFICES ASSUME IInv, [Next]_vars PROVE IInv'
    OBVIOUS
  <2>1. CASE UNCHANGED vars
    BY <2>1
    DEF vars, IInv, TypeOK, CallInv, BlocksInv, Held, InFlight, Tail,
        Misplaced, Disjoint, Aligned, BelowMax
  <2>2. CASE Next
    BY <2>2, AllocatePagesStep, AllocateAlignedStep, FreeHeadStep,
       FreeTailStep, FreeStep
    DEF Next
  <2> QED
    BY <2>1, <2>2
<1> QED
  BY <1>1, <1>2, PTL DEF Spec

(* Page numbers, sizes and the call under way keep their types.            *)
THEOREM TypeCorrect == Spec => []TypeOK
<1>1. IInv => TypeOK
  BY DEF IInv
<1> QED
  BY <1>1, Inductive, PTL

(* Trimming an aligned allocation neither leaks a page nor gives back one  *)
(* that somebody uses, and efi_free gives back what was allocated.         *)
THEOREM ConservedTheorem == Spec => []Conserved
<1>1. IInv => Conserved
  BY DEF IInv, BlocksInv, Conserved, Held, Idle
<1> QED
  BY <1>1, Inductive, PTL

(* The blocks callers hold are disjoint, aligned and below their bound.    *)
THEOREM BlocksTheorem == Spec => []BlocksAsPromised
<1>1. IInv => BlocksAsPromised
  BY DEF IInv, BlocksInv, BlocksAsPromised
<1> QED
  BY <1>1, Inductive, PTL
=============================================================================
