-------------------------- MODULE ElfLoaderProofs ---------------------------
(***************************************************************************)
(* Theorems about load_elf, for every file, every size of memory and every *)
(* alignment.                                                              *)
(***************************************************************************)
EXTENDS ElfLoader, NumberTheorems, SequenceTheorems

-----------------------------------------------------------------------------
(* The inductive invariant.                                                *)

IsSegment(n) == file.phdrs[n].load
Place(n) == Target(file.phdrs[n])

(* The extent covers the segments among the first n headers and is reached *)
(* by some of them, unless there is none.                                  *)
Covers(n) ==
  \A m \in 1..n : IsSegment(m) =>
    /\ extent.minPaddr <= file.phdrs[m].paddr
    /\ file.phdrs[m].paddr + file.phdrs[m].memsz <= extent.maxPaddr
    /\ extent.minVaddr <= file.phdrs[m].vaddr

Reached(n) ==
  \/ extent.minPaddr = U64 - 1 /\ extent.minVaddr = U64 - 1
  \/ /\ \E m \in 1..n : IsSegment(m) /\ file.phdrs[m].paddr = extent.minPaddr
     /\ \E m \in 1..n : IsSegment(m) /\ file.phdrs[m].vaddr = extent.minVaddr

ExtentInv ==
  /\ at = "parse" => phnum = 0 /\ extent = NoExtent
  /\ at \in {"measure", "copy", "loaded"} => phnum = ParsedPhnum(file)
  /\ at = "measure" => Covers(k - 1) /\ Reached(k - 1)
  /\ at \in {"copy", "loaded"} => Covers(phnum) /\ Reached(phnum)

(* What is allocated is one region in which the extent has room.           *)
RegionInv ==
  at \in {"copy", "loaded"} =>
    /\ owned = base .. (base + size - 1)
    /\ extent.minPaddr # U64 - 1
    /\ extent.maxPaddr - extent.minPaddr <= size

(* The bytes of a segment that was copied, and of one that was not yet.    *)
HoldsSegment(n) ==
  \A o \in 0..(file.phdrs[n].memsz - 1) :
    memory[Place(n) + o] = IF o < file.phdrs[n].filesz
                             THEN file.phdrs[n].offset + o ELSE Zero
HoldsZeros(n) ==
  \A o \in 0..(file.phdrs[n].memsz - 1) : memory[Place(n) + o] = Zero

(* With c - 1 headers copied.                                              *)
ImageUpTo(c) ==
  /\ \A a \in owned :
       \/ memory[a] = Zero
       \/ \E n \in 1..(c - 1) :
            IsSegment(n) /\ a \in Place(n)..(Place(n) + file.phdrs[n].memsz - 1)
  /\ HeaderCount(file) = phnum /\ Apart(file) =>
       \A n \in 1..phnum : IsSegment(n) =>
         (n < c => HoldsSegment(n)) /\ (c <= n => HoldsZeros(n))
  /\ \A n \in 1..phnum : IsSegment(n) /\ n < c =>
       file.phdrs[n].filesz <= file.phdrs[n].memsz

ImageInv ==
  /\ at = "copy" => ImageUpTo(k)
  /\ at = "loaded" => ImageUpTo(phnum + 1) /\ info.entry = EntryPoint(file)

IInv ==
  /\ TypeOK /\ ExtentInv /\ RegionInv
  /\ OutsideUntouched /\ HeldIfLoaded /\ ImageInv

-----------------------------------------------------------------------------
(* The files.                                                              *)

LEMMA HeaderIs ==
  ASSUME NEW f \in Files, NEW n \in 1..Len(f.phdrs)
  PROVE  LET p == f.phdrs[n]
         IN  /\ p.load \in BOOLEAN /\ p.offset \in Nat /\ p.filesz \in Nat
             /\ p.paddr \in Nat /\ p.vaddr \in Nat /\ p.memsz \in Nat
             /\ p.align \in Nat
             /\ p.paddr + p.memsz + MemAlign < U64 /\ p.vaddr < U64
<1>1. f \in ElfFiles
  BY ElfAssumption
<1>2. f.phdrs \in Seq(ProgramHeaders)
  BY <1>1 DEF ElfFiles
<1>3. f.phdrs[n] \in ProgramHeaders
  BY <1>2
<1> QED
  BY <1>3, ElfAssumption DEF ProgramHeaders

(* The header count the parser reads is the one of the file, below 2^16.   *)
LEMMA CountIs ==
  ASSUME NEW f \in Files
  PROVE  /\ f.entry \in Nat /\ f.size \in Nat /\ Len(f.phdrs) \in Nat
         /\ ParsedPhnum(f) \in Nat
         /\ HeaderCount(f) < U16 => HeaderCount(f) = ParsedPhnum(f)
<1>1. /\ f.entry \in Nat /\ f.size \in Nat /\ f.phnum \in 0..(U16 - 1)
      /\ f.shInfo \in Nat /\ f.phdrs \in Seq(ProgramHeaders)
  BY ElfAssumption DEF ElfFiles
<1>2. Len(f.phdrs) \in Nat
  BY <1>1
<1>3. PICK s \in Nat, u \in Nat \ {0} : s = f.shInfo /\ u = U16
  BY <1>1, ElfAssumption
<1>4. s % u \in Nat /\ (s < u => s % u = s)
  BY SMTT(30)
<1>5. ParsedPhnum(f) \in Nat
  BY <1>1, <1>3, <1>4 DEF ParsedPhnum
<1>6. HeaderCount(f) < U16 => HeaderCount(f) = ParsedPhnum(f)
  BY <1>3, <1>4 DEF ParsedPhnum, HeaderCount
<1> QED
  BY <1>1, <1>2, <1>5, <1>6

(* UINT64_MAX is not aligned: a file without a segment is refused.         *)
LEMMA NoExtentUnaligned == (U64 - 1) % MemAlign # 0
<1>1. PICK a \in Nat, u \in Nat \ {0} :
        a = MemAlign /\ u = U64 /\ a > 1 /\ u % a = 0
  BY ElfAssumption
<1>2. a \in Nat \ {0} /\ u \in Int
  BY <1>1
<1>3. PICK q \in Int : u = a * q
  BY <1>1, <1>2, Multiples
<1>4. PICK m \in Int : m = a * (q - 1) /\ m = u - a
  BY <1>3, SMTT(30)
<1>5. u - 1 = a * (q - 1) + (a - 1)
  BY <1>4
<1>6. PICK x \in Int, b \in Int, r \in Int :
        x = u - 1 /\ b = q - 1 /\ r = a - 1
  OBVIOUS
<1>7. x = a * b + r /\ 0 <= r /\ r < a
  BY <1>1, <1>4, <1>5, <1>6
<1>8. x % a = r
  BY <1>1, <1>7, DivUnique
<1>9. (u - 1) % a = a - 1
  BY <1>6, <1>8
<1> QED
  BY <1>1, <1>9
-----------------------------------------------------------------------------
(* A state.                                                                *)

LEMMA Types ==
  ASSUME TypeOK
  PROVE  /\ file \in Files /\ phnum \in Nat /\ k \in Nat /\ 1 <= k
         /\ k <= phnum + 1 /\ phnum <= Len(file.phdrs)
         /\ extent.minPaddr \in Nat /\ extent.maxPaddr \in Nat
         /\ extent.minVaddr \in Nat
         /\ extent.minPaddr < U64 /\ extent.maxPaddr < U64 /\ extent.minVaddr < U64
         /\ base \in Nat /\ size \in Nat
         /\ U64 \in Nat /\ MemTop \in Nat /\ MemTop <= U64 /\ MemAlign \in Nat
<1>1. file \in Files /\ Len(file.phdrs) \in Nat
  BY CountIs DEF TypeOK
<1> QED
  BY <1>1, ElfAssumption DEF TypeOK

(* A program header within the count has numbers that do not wrap around.  *)
LEMMA SegmentIs ==
  ASSUME TypeOK, NEW n \in 1..phnum
  PROVE  /\ n \in Nat
         /\ IsSegment(n) \in BOOLEAN
         /\ file.phdrs[n].offset \in Nat /\ file.phdrs[n].filesz \in Nat
         /\ file.phdrs[n].paddr \in Nat /\ file.phdrs[n].vaddr \in Nat
         /\ file.phdrs[n].memsz \in Nat
         /\ file.phdrs[n].paddr + file.phdrs[n].memsz + MemAlign < U64
         /\ file.phdrs[n].vaddr < U64
<1>1. file \in Files /\ n \in 1..Len(file.phdrs) /\ n \in Nat
  BY CountIs, Types
<1> QED
  BY <1>1, HeaderIs DEF IsSegment

(* The bytes of a segment lie in the region.                               *)
LEMMA RoomIs ==
  ASSUME NEW paddr \in Nat, NEW memsz \in Nat, NEW min \in Nat, NEW max \in Nat,
         NEW b \in Nat, NEW s \in Nat,
         min <= paddr, paddr + memsz <= max, max - min <= s
  PROVE  \E q \in Nat :
           /\ q = b + (paddr - min) /\ b <= q /\ q + memsz <= b + s
           /\ \A o \in 0..(memsz - 1) : q + o \in b .. (b + s - 1)
<1>1. PICK q \in Int : q = b + (paddr - min)
  OBVIOUS
<1>2. q \in Nat /\ b <= q /\ q + memsz <= b + s
  BY <1>1
<1>3. ASSUME NEW o \in 0..(memsz - 1) PROVE q + o \in b .. (b + s - 1)
  BY <1>2
<1> QED
  BY <1>1, <1>2, <1>3

(* A loadable segment lies inside the pages the loader has allocated.      *)
LEMMA SegmentRoom ==
  ASSUME TypeOK, Covers(phnum), RegionInv, at = "copy" \/ at = "loaded",
         NEW n \in 1..phnum, IsSegment(n)
  PROVE  /\ Place(n) \in Nat
         /\ Place(n) = base + (file.phdrs[n].paddr - extent.minPaddr)
         /\ base <= Place(n) /\ Place(n) + file.phdrs[n].memsz <= base + size
         /\ \A o \in 0..(file.phdrs[n].memsz - 1) :
              Place(n) + o \in owned /\ Place(n) + o \in Addresses
<1>1. PICK paddr \in Nat, memsz \in Nat, min \in Nat, max \in Nat,
          b \in Nat, s \in Nat :
        /\ paddr = file.phdrs[n].paddr /\ memsz = file.phdrs[n].memsz
        /\ min = extent.minPaddr /\ max = extent.maxPaddr /\ b = base /\ s = size
  BY Types, SegmentIs
<1>2. owned = base .. (base + size - 1) /\ owned \subseteq Addresses
  BY DEF RegionInv, TypeOK
<1>3. min <= paddr /\ paddr + memsz <= max
  BY <1>1 DEF Covers
<1>4. max - min <= s
  BY <1>1 DEF RegionInv
<1>5. PICK q \in Nat :
        /\ q = b + (paddr - min) /\ b <= q /\ q + memsz <= b + s
        /\ \A o \in 0..(memsz - 1) : q + o \in b .. (b + s - 1)
  BY <1>3, <1>4, RoomIs
<1>6. Place(n) = q
  BY <1>1, <1>5 DEF Place, Target
<1>7. \A o \in 0..(memsz - 1) : q + o \in owned /\ q + o \in Addresses
  BY <1>1, <1>2, <1>5
<1> QED
  BY <1>1, <1>5, <1>6, <1>7

-----------------------------------------------------------------------------
(* The first walk over the headers.                                        *)

LEMMA SmallerIs ==
  ASSUME NEW x \in Nat, NEW y \in Nat
  PROVE  \E z \in Nat : /\ z = Smaller(x, y) /\ z <= x /\ z <= y
                        /\ z = x \/ z = y
BY DEF Smaller

(* The larger of two numbers is one of them, and below neither.            *)
LEMMA LargerIs ==
  ASSUME NEW x \in Nat, NEW y \in Nat
  PROVE  \E z \in Nat : /\ z = Larger(x, y) /\ x <= z /\ y <= z
                        /\ z = x \/ z = y
BY DEF Larger

(* Measuring one more segment keeps what the extent covers.                *)
LEMMA ExtendedIs ==
  ASSUME TypeOK, at = "measure", Covers(k - 1), Reached(k - 1), Measure
  PROVE  /\ extent' \in [minPaddr : 0..(U64 - 1), maxPaddr : 0..(U64 - 1),
                         minVaddr : 0..(U64 - 1)]
         /\ Covers(k - 1)' /\ Reached(k - 1)'
<1>1. /\ k \in 1..phnum /\ k \in Nat /\ k' - 1 = k
      /\ file' = file /\ phnum' = phnum
      /\ extent' = IF IsSegment(k) THEN Extended(extent, Header) ELSE extent
  BY Types DEF Measure, IsSegment, Header
<1>2. PICK paddr \in Nat, memsz \in Nat, vaddr \in Nat, u \in Nat,
          min \in Nat, max \in Nat, minv \in Nat :
        /\ paddr = file.phdrs[k].paddr /\ memsz = file.phdrs[k].memsz
        /\ vaddr = file.phdrs[k].vaddr /\ u = U64
        /\ min = extent.minPaddr /\ max = extent.maxPaddr
        /\ minv = extent.minVaddr
        /\ paddr + memsz + 1 < u /\ vaddr < u /\ min < u /\ max < u /\ minv < u
  <2>1. PICK paddr \in Nat, memsz \in Nat, vaddr \in Nat :
          /\ paddr = file.phdrs[k].paddr /\ memsz = file.phdrs[k].memsz
          /\ vaddr = file.phdrs[k].vaddr
          /\ paddr + memsz + MemAlign < U64 /\ vaddr < U64
    BY <1>1, SegmentIs
  <2>2. PICK min \in Nat, max \in Nat, minv \in Nat, u \in Nat :
          /\ min = extent.minPaddr /\ max = extent.maxPaddr
          /\ minv = extent.minVaddr /\ u = U64
          /\ min < u /\ max < u /\ minv < u
    BY Types
  <2>3. MemAlign \in Nat /\ MemAlign > 1
    BY ElfAssumption
  <2>4. paddr + memsz + 1 < u
    BY <2>1, <2>2, <2>3
  <2> QED
    BY <2>1, <2>2, <2>4
<1>3. CASE ~IsSegment(k)
  <2>1. extent' = extent
    BY <1>1, <1>3
  <2>2. extent \in [minPaddr : 0..(U64 - 1), maxPaddr : 0..(U64 - 1),
                    minVaddr : 0..(U64 - 1)]
    BY DEF TypeOK
  <2>3. ASSUME NEW m \in 1..k, IsSegment(m) PROVE m \in 1..(k - 1)
    BY <1>1, <1>3, <2>3
  <2>4. Covers(k - 1)'
    BY <1>1, <2>1, <2>3 DEF Covers, IsSegment
  <2>5. 1..(k - 1) \subseteq 1..k
    BY <1>1
  <2>6. Reached(k - 1)'
    BY <1>1, <2>1, <2>5 DEF Reached, IsSegment
  <2> QED
    BY <2>1, <2>2, <2>4, <2>6
<1>4. CASE IsSegment(k)
  <2>1. /\ extent' = [minPaddr |-> Smaller(min, paddr),
                      maxPaddr |-> Larger(max, paddr + memsz),
                      minVaddr |-> Smaller(minv, vaddr)]
    BY <1>1, <1>2, <1>4 DEF Extended, Header
  <2>2. PICK min1 \in Nat, max1 \in Nat, minv1 \in Nat :
          /\ min1 = extent'.minPaddr /\ max1 = extent'.maxPaddr
          /\ minv1 = extent'.minVaddr
          /\ min1 <= min /\ min1 <= paddr /\ (min1 = min \/ min1 = paddr)
          /\ max <= max1 /\ paddr + memsz <= max1 /\ max1 < u
          /\ minv1 <= minv /\ minv1 <= vaddr /\ (minv1 = minv \/ minv1 = vaddr)
    <3>0. PICK last \in Nat : last = paddr + memsz /\ last < u
      BY <1>2
    <3>1. PICK min1 \in Nat : /\ min1 = Smaller(min, paddr)
                              /\ min1 <= min /\ min1 <= paddr
                              /\ min1 = min \/ min1 = paddr
      BY SmallerIs
    <3>2. PICK minv1 \in Nat : /\ minv1 = Smaller(minv, vaddr)
                               /\ minv1 <= minv /\ minv1 <= vaddr
                               /\ minv1 = minv \/ minv1 = vaddr
      BY SmallerIs
    <3>3. PICK max1 \in Nat : /\ max1 = Larger(max, last)
                              /\ max <= max1 /\ last <= max1
                              /\ max1 = max \/ max1 = last
      BY LargerIs
    <3>4. max1 < u
      BY <1>2, <3>0, <3>3
    <3>5. /\ extent'.minPaddr = min1 /\ extent'.maxPaddr = max1
          /\ extent'.minVaddr = minv1
      BY <2>1, <3>0, <3>1, <3>2, <3>3
    <3> QED
      BY <3>0, <3>1, <3>2, <3>3, <3>4, <3>5
  <2>3. extent' \in [minPaddr : 0..(U64 - 1), maxPaddr : 0..(U64 - 1),
                     minVaddr : 0..(U64 - 1)]
    BY <1>2, <2>1, <2>2
  <2>4. ASSUME NEW m \in 1..k, IsSegment(m)
        PROVE  /\ min1 <= file.phdrs[m].paddr
               /\ file.phdrs[m].paddr + file.phdrs[m].memsz <= max1
               /\ minv1 <= file.phdrs[m].vaddr
    <3>1. m \in 1..phnum
      BY <1>1, Types
    <3>2. /\ file.phdrs[m].paddr \in Nat /\ file.phdrs[m].memsz \in Nat
          /\ file.phdrs[m].vaddr \in Nat
      BY <3>1, SegmentIs
    <3>3. CASE m = k
      BY <1>2, <2>2, <3>3
    <3>4. CASE m # k
      <4>1. m \in 1..(k - 1)
        BY <1>1, <3>4
      <4>2. /\ min <= file.phdrs[m].paddr
            /\ file.phdrs[m].paddr + file.phdrs[m].memsz <= max
            /\ minv <= file.phdrs[m].vaddr
        BY <1>2, <2>4, <4>1 DEF Covers
      <4> QED
        BY <2>2, <3>2, <4>2
    <3> QED
      BY <3>3, <3>4
  <2>5. Covers(k - 1)'
    BY <1>1, <2>2, <2>4 DEF Covers, IsSegment
  <2>6. k \in 1..k /\ 1..(k - 1) \subseteq 1..k
    BY <1>1
  <2>7. min1 < u - 1
    BY <1>2, <2>2
  <2>8. ASSUME min = u - 1, minv = u - 1 PROVE Reached(k - 1)'
    (* k has the first segment: there is none before it. *)
    <3>1. min1 = paddr
      BY <2>2, <2>7, <2>8
    <3>2. vaddr < u /\ minv1 <= vaddr /\ (minv1 = minv \/ minv1 = vaddr)
      BY <1>2, <2>2
    <3>3. minv1 = vaddr
      BY <2>8, <3>2
    <3> QED
      BY <1>1, <1>2, <1>4, <2>2, <2>6, <3>1, <3>3 DEF Reached, IsSegment
  <2>9. ASSUME ~(min = u - 1 /\ minv = u - 1) PROVE Reached(k - 1)'
    <3>1. /\ \E m \in 1..(k - 1) : IsSegment(m) /\ file.phdrs[m].paddr = min
          /\ \E m \in 1..(k - 1) : IsSegment(m) /\ file.phdrs[m].vaddr = minv
      BY <1>2, <2>9 DEF Reached
    <3>2. \E m \in 1..k : IsSegment(m) /\ file.phdrs[m].paddr = min1
      BY <1>2, <1>4, <2>2, <2>6, <3>1
    <3>3. \E m \in 1..k : IsSegment(m) /\ file.phdrs[m].vaddr = minv1
      BY <1>2, <1>4, <2>2, <2>6, <3>1
    <3> QED
      BY <1>1, <2>2, <3>2, <3>3 DEF Reached, IsSegment
  <2> QED
    BY <2>3, <2>5, <2>8, <2>9
<1> QED
  BY <1>3, <1>4
-----------------------------------------------------------------------------
(* The allocation.                                                         *)

LEMMA AllocateStep ==
  ASSUME IInv, Allocate
  PROVE  IInv'
<1>1. /\ TypeOK /\ ExtentInv /\ RegionInv /\ OutsideUntouched /\ HeldIfLoaded
      /\ at = "measure" /\ k = phnum + 1 /\ k - 1 = phnum
      /\ Covers(phnum) /\ Reached(phnum)
  <2>1. TypeOK /\ at = "measure" /\ k = phnum + 1
    BY DEF IInv, Allocate
  <2>2. k - 1 = phnum
    BY <2>1, Types
  <2> QED
    BY <2>1, <2>2 DEF IInv, ExtentInv
<1>2. /\ at' = "copy" /\ k' = 1 /\ file' = file /\ phnum' = phnum
      /\ extent' = extent /\ info' = info
  BY DEF Allocate
<1>3. /\ base' \in Addresses /\ size' = MemSize
      /\ owned' = base' .. (base' + size' - 1)
      /\ owned' \subseteq Addresses /\ memory' = Cleared(memory, owned')
  BY DEF Allocate
<1>4. extent.minPaddr % MemAlign = 0
  BY DEF Allocate
<1>5. extent.minPaddr # U64 - 1
  BY <1>4, NoExtentUnaligned
<1>6. PICK min \in Nat, max \in Nat, b \in Nat :
        min = extent.minPaddr /\ max = extent.maxPaddr /\ b = base'
  BY <1>1, <1>3, Types DEF Addresses
<1>7. min <= max
  <2>1. PICK m \in 1..phnum : IsSegment(m) /\ file.phdrs[m].paddr = min
    BY <1>1, <1>5, <1>6 DEF Reached
  <2>2. PICK memsz \in Nat : memsz = file.phdrs[m].memsz
    BY <1>1, SegmentIs
  <2>3. min + memsz <= max
    BY <1>1, <1>6, <2>1, <2>2 DEF Covers
  <2> QED
    BY <2>3
<1>8. PICK s \in Nat : s = size' /\ max - min <= s
  <2>1. max - min \in Int /\ MemAlign \in Nat \ {0}
    BY ElfAssumption
  <2>2. PICK x \in Int, u \in Int :
          x = max - min /\ u = RoundUp(max - min, MemAlign) /\ x <= u
    BY <2>1, RoundUpBounds
  <2>3. size' = u
    BY <1>3, <1>6, <2>2 DEF MemSize
  <2> QED
    BY <1>7, <2>2, <2>3
<1>9. \A a \in Addresses :
        memory'[a] = IF a \in owned' THEN Zero ELSE memory[a]
  BY <1>3 DEF Cleared
<1>10. TypeOK'
  <2>1. phnum + 1 >= 1
    BY <1>1, Types
  <2>2. memory' \in [Addresses -> Int]
    <3>1. \A a \in Addresses : memory[a] \in Int
      BY <1>1 DEF TypeOK
    <3>2. \A a \in Addresses : (IF a \in owned' THEN Zero ELSE memory[a]) \in Int
      BY <3>1 DEF Zero
    <3> QED
      BY <1>3, <3>2 DEF Cleared
  <2>3. k' \in 1..(phnum' + 1)
    BY <1>1, <1>2, <2>1, Types
  <2> QED
    BY <1>1, <1>2, <1>3, <1>6, <1>8, <2>2, <2>3 DEF TypeOK
<1>11. Covers(phnum)' /\ Reached(phnum)'
  BY <1>1, <1>2 DEF Covers, Reached, IsSegment
<1>12. ExtentInv'
  BY <1>1, <1>2, <1>11 DEF ExtentInv
<1>13. RegionInv'
  BY <1>2, <1>3, <1>5, <1>6, <1>8 DEF RegionInv
<1>14. OutsideUntouched'
  <2>1. \A a \in Addresses : memory[a] = Junk
    BY <1>1 DEF OutsideUntouched, HeldIfLoaded
  <2> QED
    BY <1>9, <2>1 DEF OutsideUntouched
<1>15. HeldIfLoaded'
  BY <1>2 DEF HeldIfLoaded
<1>16. \A a \in owned' : memory'[a] = Zero
  BY <1>3, <1>9
<1>17. ASSUME NEW n \in 1..phnum, IsSegment(n) PROVE HoldsZeros(n)'
  <2>1. PICK paddr \in Nat, memsz \in Nat :
          paddr = file.phdrs[n].paddr /\ memsz = file.phdrs[n].memsz
    BY <1>1, SegmentIs
  <2>2. min <= paddr /\ paddr + memsz <= max
    BY <1>1, <1>6, <1>17, <2>1 DEF Covers
  <2>3. PICK q \in Nat :
          /\ q = b + (paddr - min)
          /\ \A o \in 0..(memsz - 1) : q + o \in b .. (b + s - 1)
    <3>1. max - min <= s
      BY <1>8
    <3> QED
      BY <2>2, <3>1, RoomIs
  <2>4. \A o \in 0..(memsz - 1) : memory'[q + o] = Zero
    BY <1>3, <1>6, <1>8, <1>16, <2>3
  <2>5. Place(n)' = q
    BY <1>2, <1>6, <2>1, <2>3 DEF Place, Target
  <2> QED
    BY <1>2, <2>1, <2>4, <2>5 DEF HoldsZeros
<1>18. ImageUpTo(k)'
  <2>1. ASSUME NEW n \in 1..phnum PROVE 1 <= n /\ ~(n < 1)
    BY <1>1, Types
  <2> QED
    BY <1>2, <1>16, <1>17, <2>1 DEF ImageUpTo, IsSegment
<1>19. ImageInv'
  BY <1>2, <1>18 DEF ImageInv
<1> QED
  BY <1>10, <1>12, <1>13, <1>14, <1>15, <1>19 DEF IInv
-----------------------------------------------------------------------------
(* One segment is copied.                                                  *)

LEMMA CopyStep ==
  ASSUME IInv, Copy
  PROVE  IInv'
<1>1. /\ TypeOK /\ ExtentInv /\ RegionInv /\ OutsideUntouched /\ HeldIfLoaded
      /\ ImageUpTo(k) /\ at = "copy" /\ Covers(phnum)
  BY DEF IInv, Copy, ExtentInv, ImageInv
<1>2. /\ k \in Nat /\ k \in 1..phnum /\ k' = k + 1 /\ IsSegment(k)
      /\ file' = file /\ at' = at /\ phnum' = phnum /\ extent' = extent
      /\ base' = base /\ size' = size /\ owned' = owned /\ info' = info
  BY <1>1, Types DEF Copy, IsSegment, Header
<1>3. PICK offset \in Nat, filesz \in Nat, memsz \in Nat :
        /\ offset = file.phdrs[k].offset /\ filesz = file.phdrs[k].filesz
        /\ memsz = file.phdrs[k].memsz /\ filesz <= memsz
  <2>1. file.phdrs[k].filesz <= file.phdrs[k].memsz
    BY <1>1, <1>2, SegmentIs DEF Copy, SegmentAccepted, Header
  <2> QED
    BY <1>1, <1>2, <2>1, SegmentIs
<1>4. PICK to \in Nat :
        /\ to = Place(k)
        /\ \A o \in 0..(memsz - 1) : to + o \in owned /\ to + o \in Addresses
  BY <1>1, <1>2, <1>3, SegmentRoom
<1>5. \A a \in Addresses : a \in Nat
  BY Types, <1>1 DEF Addresses
<1>6. /\ memory' \in [Addresses -> Int]
      /\ \A a \in Addresses :
           memory'[a] = IF a \in to .. (to + filesz - 1)
                          THEN offset + (a - to) ELSE memory[a]
  <2>1. CASE memsz = 0
    <3>1. memory' = memory /\ memory \in [Addresses -> Int]
      BY <1>1, <1>3, <2>1 DEF Copy, Header, TypeOK
    <3>2. to .. (to + filesz - 1) = {}
      BY <1>3, <2>1
    <3> QED
      BY <3>1, <3>2
  <2>2. CASE memsz # 0
    <3>1. memory' = [a \in Addresses |-> IF a \in to .. (to + filesz - 1)
                                           THEN offset + (a - to) ELSE memory[a]]
      BY <1>3, <1>4, <2>2 DEF Copy, Copied, Header, Place
    <3>2. \A a \in Addresses : memory[a] \in Int
      BY <1>1 DEF TypeOK
    <3>3. \A a \in Addresses :
            (IF a \in to .. (to + filesz - 1)
               THEN offset + (a - to) ELSE memory[a]) \in Int
      BY <1>5, <3>2
    <3> QED
      BY <3>1, <3>3
  <2> QED
    BY <2>1, <2>2
<1>7. TypeOK'
  <2>1. k' \in 1..(phnum' + 1)
    BY <1>1, <1>2, Types
  <2> QED
    BY <1>1, <1>2, <1>6, <2>1 DEF TypeOK
<1>8. ExtentInv' /\ RegionInv' /\ HeldIfLoaded'
  BY <1>1, <1>2
  DEF ExtentInv, RegionInv, HeldIfLoaded, Covers, Reached, IsSegment
(* What is written is owned. *)
<1>9. ASSUME NEW a \in Addresses, a \in to .. (to + filesz - 1)
      PROVE  a \in owned
  <2>1. a - to \in 0..(memsz - 1) /\ to + (a - to) = a
    BY <1>3, <1>5, <1>9
  <2> QED
    BY <1>4, <2>1
<1>10. OutsideUntouched'
  <2>1. ASSUME NEW a \in Addresses \ owned PROVE memory'[a] = Junk
    BY <1>1, <1>6, <1>9 DEF OutsideUntouched
  <2> QED
    BY <1>2, <2>1 DEF OutsideUntouched
(* Every byte of the region is zero or one of a copied segment. *)
<1>11. ASSUME NEW a \in owned
       PROVE  \/ memory'[a] = Zero
              \/ \E n \in 1..k : /\ IsSegment(n)
                                 /\ a \in Place(n)..(Place(n) + file.phdrs[n].memsz - 1)
  <2>0. a \in Addresses /\ a \in Nat
    BY <1>1, <1>5 DEF TypeOK
  <2>1. CASE a \in to .. (to + filesz - 1)
    <3>1. a \in to .. (to + memsz - 1)
      BY <1>3, <2>0, <2>1
    <3> QED
      BY <1>2, <1>3, <1>4, <3>1
  <2>2. CASE a \notin to .. (to + filesz - 1)
    <3>1. memory'[a] = memory[a]
      BY <1>6, <2>0, <2>2
    <3>2. 1..(k - 1) \subseteq 1..k
      BY <1>2
    <3> QED
      BY <1>1, <3>1, <3>2 DEF ImageUpTo
  <2> QED
    BY <2>1, <2>2
(* Segments that are apart do not disturb each other. *)
<1>12. ASSUME HeaderCount(file) = phnum, Apart(file),
              NEW n \in 1..phnum, IsSegment(n), n # k,
              NEW o \in 0..(file.phdrs[n].memsz - 1)
       PROVE  memory'[Place(n) + o] = memory[Place(n) + o]
  <2>1. PICK paddr \in Nat, len \in Nat, q \in Nat :
          /\ paddr = file.phdrs[n].paddr /\ len = file.phdrs[n].memsz
          /\ q = Place(n) /\ q = base + (paddr - extent.minPaddr)
          /\ q + o \in Addresses
    BY <1>1, <1>12, SegmentRoom, SegmentIs
  <2>2. PICK kpaddr \in Nat :
          /\ kpaddr = file.phdrs[k].paddr
          /\ to = base + (kpaddr - extent.minPaddr)
    BY <1>1, <1>2, <1>4, SegmentRoom, SegmentIs
  <2>3. paddr + len <= kpaddr \/ kpaddr + memsz <= paddr
    <3>1. n < k \/ k < n
      BY <1>1, <1>2, <1>12, SegmentIs
    <3> QED
      BY <1>2, <1>3, <1>12, <2>1, <2>2, <3>1 DEF Apart, IsSegment
  <2>4. base \in Nat /\ extent.minPaddr \in Nat
    BY <1>1, Types
  <2>5. q + len <= to \/ to + memsz <= q
    BY <2>1, <2>2, <2>3, <2>4
  <2>6. o \in 0..(len - 1)
    BY <1>12, <2>1
  <2>7. q + o \notin to .. (to + filesz - 1)
    BY <1>3, <2>5, <2>6
  <2> QED
    BY <1>6, <2>1, <2>7
<1>13. ASSUME HeaderCount(file) = phnum, Apart(file),
              NEW n \in 1..phnum, IsSegment(n)
       PROVE  (n < k' => HoldsSegment(n)') /\ (k' <= n => HoldsZeros(n)')
  <2>0. n \in Nat /\ Place(n)' = Place(n) /\ (n < k => HoldsSegment(n))
        /\ (k <= n => HoldsZeros(n))
    BY <1>1, <1>2, <1>13, SegmentIs DEF ImageUpTo, Place, Target
  <2>1. CASE n = k
    <3>1. ASSUME NEW o \in 0..(memsz - 1)
          PROVE  memory'[to + o] = IF o < filesz THEN offset + o ELSE Zero
      <4>1. memory[to + o] = Zero
        BY <1>2, <1>3, <1>4, <2>0, <2>1 DEF HoldsZeros
      <4>2. to + o \in to .. (to + filesz - 1) <=> o < filesz
        BY <1>3
      <4>3. to + o \in Addresses /\ (to + o) - to = o
        BY <1>4
      <4> QED
        BY <1>6, <4>1, <4>2, <4>3
    <3>2. HoldsSegment(n)'
      BY <1>2, <1>3, <1>4, <2>0, <2>1, <3>1 DEF HoldsSegment
    <3> QED
      BY <1>2, <2>1, <3>2
  <2>2. CASE n # k
    <3>1. n < k' => n < k
      BY <1>2, <2>0, <2>2
    <3>2. k' <= n => k <= n
      BY <1>2, <2>0
    <3>3. n < k => HoldsSegment(n)'
      BY <1>2, <1>12, <1>13, <2>0, <2>2 DEF HoldsSegment
    <3>4. k <= n => HoldsZeros(n)'
      BY <1>2, <1>12, <1>13, <2>0, <2>2 DEF HoldsZeros
    <3> QED
      BY <3>1, <3>2, <3>3, <3>4
  <2> QED
    BY <2>1, <2>2
<1>14. ImageUpTo(k)'
  <2>0. ASSUME NEW n \in 1..phnum, IsSegment(n), n < k + 1
        PROVE  file.phdrs[n].filesz <= file.phdrs[n].memsz
    <3>1. n = k \/ n < k
      BY <1>1, <1>2, <2>0, SegmentIs
    <3> QED
      BY <1>1, <1>3, <2>0, <3>1 DEF ImageUpTo
  <2>1. k' - 1 = k /\ HeaderCount(file)' = HeaderCount(file)
        /\ Apart(file)' = Apart(file)
    BY <1>2
  <2>2. \A n : Place(n)' = Place(n) /\ IsSegment(n)' = IsSegment(n)
    BY <1>2 DEF Place, Target, IsSegment
  <2> QED
    BY <1>2, <1>11, <1>13, <2>0, <2>1, <2>2 DEF ImageUpTo
<1>15. ImageInv'
  BY <1>1, <1>2, <1>14 DEF ImageInv
<1> QED
  BY <1>7, <1>8, <1>10, <1>15 DEF IInv
-----------------------------------------------------------------------------
(* The other steps.                                                        *)

LEMMA InitInv == Init => IInv
<1> SUFFICES ASSUME Init PROVE IInv
  OBVIOUS
<1>1. /\ file \in Files /\ at = "parse" /\ k = 1 /\ phnum = 0
      /\ extent = NoExtent /\ base = 0 /\ size = 0 /\ owned = {}
      /\ memory = [a \in Addresses |-> Junk] /\ info = NoInfo
  BY DEF Init
<1>2. TypeOK
  <2>1. phnum \in 0..Len(file.phdrs) /\ k \in 1..(phnum + 1)
    BY <1>1, CountIs
  <2>2. extent \in [minPaddr : 0..(U64 - 1), maxPaddr : 0..(U64 - 1),
                    minVaddr : 0..(U64 - 1)]
    <3>1. U64 \in Nat \ {0}
      BY ElfAssumption
    <3>2. U64 - 1 \in 0..(U64 - 1) /\ 0 \in 0..(U64 - 1)
      BY <3>1
    <3> QED
      BY <1>1, <3>2 DEF NoExtent
  <2>3. memory \in [Addresses -> Int]
    BY <1>1 DEF Junk
  <2>4. info \in [paddr : Nat, size : Nat, entry : Nat]
    BY <1>1 DEF NoInfo
  <2> QED
    BY <1>1, <2>1, <2>2, <2>3, <2>4 DEF TypeOK
<1>3. ExtentInv /\ RegionInv /\ ImageInv /\ HeldIfLoaded
  BY <1>1 DEF ExtentInv, RegionInv, ImageInv, HeldIfLoaded
<1>4. OutsideUntouched
  BY <1>1 DEF OutsideUntouched
<1> QED
  BY <1>2, <1>3, <1>4 DEF IInv

(* Parsing the headers keeps the invariant.                                *)
LEMMA ParseStep ==
  ASSUME IInv, Parse
  PROVE  IInv'
<1>1. /\ TypeOK /\ OutsideUntouched /\ HeldIfLoaded
      /\ at = "parse" /\ phnum = 0 /\ extent = NoExtent /\ k = 1
  <2>1. at = "parse" /\ phnum = 0 /\ extent = NoExtent /\ TypeOK
    BY DEF IInv, Parse, ExtentInv
  <2>2. k = 1
    BY <2>1, Types
  <2> QED
    BY <2>1, <2>2 DEF IInv
<1>2. /\ at' = "measure" /\ phnum' = ParsedPhnum(file) /\ file' = file
      /\ k' = k /\ extent' = extent /\ base' = base /\ size' = size
      /\ owned' = owned /\ memory' = memory /\ info' = info
  BY DEF Parse
<1>3. phnum' \in Nat /\ phnum' \in 0..Len(file.phdrs)
  <2>1. ParsedPhnum(file) <= Len(file.phdrs)
    BY DEF Parse, HeadersAccepted
  <2> QED
    BY <1>1, <1>2, <2>1, Types, CountIs
<1>4. k' \in 1..(phnum' + 1)
  BY <1>1, <1>2, <1>3
<1>5. TypeOK'
  BY <1>1, <1>2, <1>3, <1>4 DEF TypeOK
<1>6. Covers(k - 1)' /\ Reached(k - 1)'
  <2>1. k' - 1 = 0 /\ 1..(k' - 1) = {}
    BY <1>1, <1>2
  <2> QED
    BY <1>1, <1>2, <2>1 DEF Covers, Reached, NoExtent
<1>7. ExtentInv'
  BY <1>2, <1>6 DEF ExtentInv
<1>8. RegionInv' /\ ImageInv' /\ HeldIfLoaded' /\ OutsideUntouched'
  BY <1>1, <1>2 DEF RegionInv, ImageInv, HeldIfLoaded, OutsideUntouched
<1> QED
  BY <1>5, <1>7, <1>8 DEF IInv

(* So does measuring a segment,                                            *)
LEMMA MeasureStep ==
  ASSUME IInv, Measure
  PROVE  IInv'
<1>1. /\ TypeOK /\ ExtentInv /\ OutsideUntouched /\ HeldIfLoaded
      /\ at = "measure" /\ Covers(k - 1) /\ Reached(k - 1)
  BY DEF IInv, Measure, ExtentInv
<1>2. /\ at' = at /\ k' = k + 1 /\ k <= phnum /\ file' = file
      /\ phnum' = phnum /\ base' = base /\ size' = size
      /\ owned' = owned /\ memory' = memory /\ info' = info
  BY DEF Measure
<1>3. /\ extent' \in [minPaddr : 0..(U64 - 1), maxPaddr : 0..(U64 - 1),
                      minVaddr : 0..(U64 - 1)]
      /\ Covers(k - 1)' /\ Reached(k - 1)'
  BY <1>1, ExtendedIs
<1>4. k' \in 1..(phnum' + 1)
  BY <1>1, <1>2, Types
<1>5. TypeOK'
  BY <1>1, <1>2, <1>3, <1>4 DEF TypeOK
<1>6. ExtentInv'
  BY <1>1, <1>2, <1>3 DEF ExtentInv
<1>7. RegionInv' /\ ImageInv' /\ HeldIfLoaded' /\ OutsideUntouched'
  BY <1>1, <1>2 DEF RegionInv, ImageInv, HeldIfLoaded, OutsideUntouched
<1> QED
  BY <1>5, <1>6, <1>7 DEF IInv

(* skipping a header that is not loaded,                                   *)
LEMMA SkipStep ==
  ASSUME IInv, SkipHeader
  PROVE  IInv'
<1>1. /\ TypeOK /\ ExtentInv /\ RegionInv /\ OutsideUntouched /\ HeldIfLoaded
      /\ at = "copy" /\ ImageUpTo(k)
  BY DEF IInv, SkipHeader, ImageInv
<1>2. /\ at' = at /\ k' = k + 1 /\ k <= phnum /\ ~IsSegment(k) /\ file' = file
      /\ phnum' = phnum /\ extent' = extent /\ base' = base /\ size' = size
      /\ owned' = owned /\ memory' = memory /\ info' = info
  BY DEF SkipHeader, IsSegment, Header
<1>3. k \in Nat /\ k' - 1 = k /\ k' \in 1..(phnum' + 1)
  BY <1>1, <1>2, Types
<1>4. TypeOK'
  BY <1>1, <1>2, <1>3 DEF TypeOK
<1>5. ExtentInv' /\ RegionInv' /\ HeldIfLoaded' /\ OutsideUntouched'
  BY <1>1, <1>2
  DEF ExtentInv, Covers, Reached, IsSegment, RegionInv, HeldIfLoaded,
      OutsideUntouched
<1>6. ImageUpTo(k)'
  <2>1. 1..(k - 1) \subseteq 1..k
    BY <1>3
  <2>2. ASSUME NEW n \in 1..phnum, IsSegment(n)
        PROVE  (n < k' <=> n < k) /\ (k' <= n <=> k <= n)
    <3>1. n # k /\ n \in Nat
      BY <1>1, <1>2, <2>2, SegmentIs
    <3> QED
      BY <1>2, <1>3, <3>1
  <2>3. \A n : /\ Place(n)' = Place(n) /\ IsSegment(n)' = IsSegment(n)
               /\ HoldsSegment(n)' = HoldsSegment(n)
               /\ HoldsZeros(n)' = HoldsZeros(n)
    BY <1>2 DEF Place, Target, IsSegment, HoldsSegment, HoldsZeros
  <2>4. HeaderCount(file)' = HeaderCount(file) /\ Apart(file)' = Apart(file)
    BY <1>2
  <2> QED
    BY <1>1, <1>2, <1>3, <2>1, <2>2, <2>3, <2>4 DEF ImageUpTo
<1>7. ImageInv'
  BY <1>1, <1>2, <1>6 DEF ImageInv
<1> QED
  BY <1>4, <1>5, <1>7 DEF IInv

(* and the end of the copying.                                             *)
LEMMA LoadedStep ==
  ASSUME IInv, Loaded
  PROVE  IInv'
<1>1. /\ TypeOK /\ ExtentInv /\ RegionInv /\ OutsideUntouched /\ HeldIfLoaded
      /\ at = "copy" /\ ImageUpTo(k)
  BY DEF IInv, Loaded, ImageInv
<1>2. /\ at' = "loaded" /\ k = phnum + 1 /\ k' = k /\ file' = file
      /\ info' = [paddr |-> base, size |-> size, entry |-> EntryPoint(file)]
      /\ phnum' = phnum /\ extent' = extent /\ base' = base /\ size' = size
      /\ owned' = owned /\ memory' = memory
  BY DEF Loaded
<1>3. EntryPoint(file) \in Nat
  <2>1. PICK x \in Int : x = (file.entry - extent.minVaddr) + base
    BY <1>1, Types, CountIs
  <2>2. PICK u \in Nat \ {0} : u = U64
    BY ElfAssumption
  <2>3. x % u \in Nat
    BY DivMod, <2>2
  <2> QED
    BY <2>1, <2>2, <2>3 DEF EntryPoint
<1>4. TypeOK'
  <2>1. info' \in [paddr : Nat, size : Nat, entry : Nat]
    BY <1>1, <1>2, <1>3, Types
  <2> QED
    BY <1>1, <1>2, <2>1 DEF TypeOK
<1>5. ExtentInv' /\ RegionInv' /\ OutsideUntouched'
  BY <1>1, <1>2
  DEF ExtentInv, Covers, Reached, IsSegment, RegionInv, OutsideUntouched
<1>6. HeldIfLoaded'
  BY <1>1, <1>2 DEF RegionInv, HeldIfLoaded
<1>7. EntryPoint(file)' = EntryPoint(file)
  BY <1>2 DEF EntryPoint
<1>8. ImageUpTo(phnum + 1)'
  BY <1>1, <1>2
  DEF ImageUpTo, Place, Target, IsSegment, HoldsSegment, HoldsZeros
<1>9. ImageInv'
  BY <1>2, <1>7, <1>8 DEF ImageInv
<1> QED
  BY <1>4, <1>5, <1>6, <1>9 DEF IInv

(* The payload is refused, there is no memory, or a segment is bad.        *)
LEMMA FailStep ==
  ASSUME IInv, ParseFails \/ AllocateFails \/ CopyFails
  PROVE  IInv'
<1>1. TypeOK /\ OutsideUntouched /\ HeldIfLoaded /\ RegionInv
  BY DEF IInv
<1>2. /\ at' \in {"refused", "unloaded"} /\ file' = file /\ k' = k
      /\ phnum' = phnum /\ extent' = extent /\ base' = base /\ size' = size
      /\ owned' \subseteq owned /\ memory' = memory
  BY DEF ParseFails, AllocateFails, CopyFails
<1>3. owned' = {}
  <2>1. CASE ParseFails
    BY <1>1, <2>1 DEF ParseFails, HeldIfLoaded
  <2>2. CASE AllocateFails
    BY <1>1, <2>2 DEF AllocateFails, HeldIfLoaded
  <2>3. CASE CopyFails
    BY <1>1, <2>3 DEF CopyFails, RegionInv
  <2> QED
    BY <2>1, <2>2, <2>3
<1>4. info' \in [paddr : Nat, size : Nat, entry : Nat]
  <2>1. Unloaded \in [paddr : Nat, size : Nat, entry : Nat]
    BY <1>1, Types, CountIs DEF Unloaded
  <2>2. info' = info \/ info' = Unloaded
    BY DEF ParseFails, AllocateFails, CopyFails
  <2> QED
    BY <1>1, <2>1, <2>2 DEF TypeOK
<1>5. TypeOK'
  BY <1>1, <1>2, <1>4 DEF TypeOK
<1>6. ExtentInv' /\ RegionInv' /\ ImageInv'
  BY <1>2 DEF ExtentInv, RegionInv, ImageInv
<1>7. OutsideUntouched'
  <2>1. ASSUME at' # "unloaded" PROVE at = "parse"
    BY <2>1 DEF ParseFails, AllocateFails, CopyFails
  <2> QED
    BY <1>1, <1>2, <1>3, <2>1 DEF OutsideUntouched, HeldIfLoaded
<1>8. HeldIfLoaded'
  BY <1>2, <1>3 DEF HeldIfLoaded
<1> QED
  BY <1>5, <1>6, <1>7, <1>8 DEF IInv

(* Every step keeps the invariant.                                         *)
LEMMA Inductive == Spec => []IInv
<1>1. Init => IInv
  BY InitInv
<1>2. IInv /\ [Next]_vars => IInv'
  <2> SUFFICES ASSUME IInv, [Next]_vars PROVE IInv'
    OBVIOUS
  <2>1. CASE Parse
    BY <2>1, ParseStep
  <2>2. CASE Measure
    BY <2>2, MeasureStep
  <2>3. CASE Allocate
    BY <2>3, AllocateStep
  <2>4. CASE SkipHeader
    BY <2>4, SkipStep
  <2>5. CASE Copy
    BY <2>5, CopyStep
  <2>6. CASE Loaded
    BY <2>6, LoadedStep
  <2>7. CASE ParseFails \/ AllocateFails \/ CopyFails
    BY <2>7, FailStep
  <2>8. CASE UNCHANGED vars
    BY <2>8
    DEF vars, IInv, TypeOK, ExtentInv, Covers, Reached, IsSegment, RegionInv,
        OutsideUntouched, HeldIfLoaded, ImageInv, ImageUpTo, HoldsSegment,
        HoldsZeros, Place, Target, EntryPoint
  <2> QED
    BY <2>1, <2>2, <2>3, <2>4, <2>5, <2>6, <2>7, <2>8 DEF Next
<1> QED
  BY <1>1, <1>2, PTL DEF Spec
-----------------------------------------------------------------------------
(* The theorems.                                                           *)

(* load_elf keeps its counters in their ranges: it reads no program header *)
(* behind the table that parse_phdrs found in the file.                    *)
THEOREM TypeCorrect == Spec => []TypeOK
<1>1. IInv => TypeOK
  BY DEF IInv
<1> QED
  BY <1>1, Inductive, PTL

(* The memcpy of load_program and the memset of efi_allocate_kernel_memory *)
(* stay in the allocation, whatever the program headers say.               *)
THEOREM OutsideUntouchedTheorem == Spec => []OutsideUntouched
<1>1. IInv => OutsideUntouched
  BY DEF IInv
<1> QED
  BY <1>1, Inductive, PTL

(* Every path through load_elf that returns no kernel has freed the memory *)
(* it allocated for one; payload_info names the memory that is held.       *)
THEOREM HeldIfLoadedTheorem == Spec => []HeldIfLoaded
<1>1. IInv => HeldIfLoaded
  BY DEF IInv
<1> QED
  BY <1>1, Inductive, PTL

(* The segments of a file that is loaded are headers the loop has seen.    *)
LEMMA SegmentsAre ==
  ASSUME IInv, at = "loaded", HeaderCount(file) < U16, NEW p \in Segments(file)
  PROVE  /\ HeaderCount(file) = phnum
         /\ \E n \in 1..phnum : IsSegment(n) /\ p = file.phdrs[n]
<1>1. HeaderCount(file) = phnum
  BY CountIs DEF IInv, TypeOK, ExtentInv
<1> QED
  BY <1>1 DEF Segments, IsSegment

(* load_program leaves a correct image, and nothing but zeros between its  *)
(* segments.                                                               *)
THEOREM ImageCorrectTheorem == Spec => []ImageCorrect
<1>1. ASSUME IInv PROVE ImageCorrect
  <2> SUFFICES ASSUME at = "loaded", HeaderCount(file) < U16, Apart(file)
               PROVE  /\ \A p \in Segments(file) : \A o \in 0..(p.memsz - 1) :
                           memory[Target(p) + o] =
                             IF o < p.filesz THEN p.offset + o ELSE Zero
                      /\ \A a \in owned :
                           \/ memory[a] = Zero
                           \/ \E p \in Segments(file) :
                                a \in Target(p)..(Target(p) + p.memsz - 1)
    BY DEF ImageCorrect
  <2>1. TypeOK /\ ImageUpTo(phnum + 1) /\ phnum \in Nat /\ (phnum + 1) - 1 = phnum
    BY <1>1, Types DEF IInv, ImageInv
  <2>2. HeaderCount(file) = phnum
    BY <1>1, CountIs DEF IInv, TypeOK, ExtentInv
  <2>3. ASSUME NEW p \in Segments(file), NEW o \in 0..(p.memsz - 1)
        PROVE  memory[Target(p) + o] = IF o < p.filesz THEN p.offset + o ELSE Zero
    <3>1. PICK n \in 1..phnum : IsSegment(n) /\ p = file.phdrs[n]
      BY <1>1, SegmentsAre
    <3>2. n < phnum + 1
      BY <2>1
    <3>3. HoldsSegment(n)
      BY <2>1, <2>2, <3>1, <3>2 DEF ImageUpTo
    <3> QED
      BY <3>1, <3>3 DEF HoldsSegment, Place
  <2>4. ASSUME NEW a \in owned, memory[a] # Zero
        PROVE  \E p \in Segments(file) : a \in Target(p)..(Target(p) + p.memsz - 1)
    <3>1. PICK n \in 1..phnum :
            IsSegment(n) /\ a \in Place(n)..(Place(n) + file.phdrs[n].memsz - 1)
      BY <2>1, <2>4 DEF ImageUpTo
    <3>2. file.phdrs[n] \in Segments(file)
      BY <2>2, <3>1 DEF Segments, IsSegment
    <3> QED
      BY <3>1, <3>2 DEF Place
  <2> QED
    BY <2>3, <2>4
<1> QED
  BY <1>1, Inductive, PTL

(* The image is as far from where it was linked in virtual as in physical  *)
(* memory.                                                                 *)
LEMMA ExtentIsLinear ==
  ASSUME IInv, at = "loaded", HeaderCount(file) < U16, Linear(file),
         NEW p \in Segments(file)
  PROVE  p.vaddr - p.paddr = extent.minVaddr - extent.minPaddr
<1>1. TypeOK /\ RegionInv /\ Covers(phnum) /\ Reached(phnum)
  BY DEF IInv, ExtentInv
<1>2. HeaderCount(file) = phnum
  BY SegmentsAre
<1>3. PICK n \in 1..phnum : IsSegment(n) /\ p = file.phdrs[n]
  BY SegmentsAre
<1>4. /\ \E m \in 1..phnum : IsSegment(m) /\ file.phdrs[m].paddr = extent.minPaddr
      /\ \E m \in 1..phnum : IsSegment(m) /\ file.phdrs[m].vaddr = extent.minVaddr
  BY <1>1 DEF Reached, RegionInv
<1>5. PICK x \in 1..phnum : IsSegment(x) /\ file.phdrs[x].paddr = extent.minPaddr
  BY <1>4
<1>6. PICK y \in 1..phnum : IsSegment(y) /\ file.phdrs[y].vaddr = extent.minVaddr
  BY <1>4
<1>7. /\ file.phdrs[n] \in Segments(file) /\ file.phdrs[x] \in Segments(file)
      /\ file.phdrs[y] \in Segments(file)
  BY <1>2, <1>3, <1>5, <1>6 DEF Segments, IsSegment
<1>8. PICK pv \in Nat, pp \in Nat, xv \in Nat, xp \in Nat, yv \in Nat, yp \in Nat :
        /\ pv = p.vaddr /\ pp = p.paddr
        /\ xv = file.phdrs[x].vaddr /\ xp = file.phdrs[x].paddr
        /\ yv = file.phdrs[y].vaddr /\ yp = file.phdrs[y].paddr
  BY <1>1, <1>3, SegmentIs
<1>9. pv - pp = xv - xp /\ pv - pp = yv - yp
  BY <1>3, <1>7, <1>8 DEF Linear
<1>10. extent.minPaddr = xp /\ extent.minVaddr = yv /\ xp <= yp /\ yv <= xv
  BY <1>1, <1>5, <1>6, <1>8 DEF Covers
<1> QED
  BY <1>8, <1>9, <1>10

(* The stub jumps to where the entry point of the kernel was copied.       *)
THEOREM EntryCorrectTheorem == Spec => []EntryCorrect
<1>1. ASSUME IInv PROVE EntryCorrect
  <2> SUFFICES ASSUME at = "loaded", HeaderCount(file) < U16, Apart(file),
                      Linear(file), NEW p \in Segments(file),
                      file.entry \in p.vaddr..(p.vaddr + p.filesz - 1)
               PROVE  /\ info.entry \in owned
                      /\ memory[info.entry] = p.offset + (file.entry - p.vaddr)
    BY DEF EntryCorrect
  <2>1. TypeOK /\ RegionInv /\ Covers(phnum) /\ ImageUpTo(phnum + 1)
        /\ phnum \in Nat /\ info.entry = EntryPoint(file)
    BY <1>1, Types DEF IInv, ExtentInv, ImageInv
  <2>2. HeaderCount(file) = phnum
    BY <1>1, SegmentsAre
  <2>3. PICK n \in 1..phnum : IsSegment(n) /\ p = file.phdrs[n]
    BY <1>1, SegmentsAre
  <2>4. HoldsSegment(n)
    <3>1. n < phnum + 1
      BY <2>1
    <3> QED
      BY <2>1, <2>2, <2>3, <3>1 DEF ImageUpTo
  <2>5. PICK v \in Nat, pa \in Nat, filesz \in Nat, memsz \in Nat,
             minp \in Nat, minv \in Nat, b \in Nat, e \in Nat, u \in Nat :
          /\ v = p.vaddr /\ pa = p.paddr /\ filesz = p.filesz /\ memsz = p.memsz
          /\ minp = extent.minPaddr /\ minv = extent.minVaddr /\ b = base
          /\ e = file.entry /\ u = U64
    BY <2>1, <2>3, SegmentIs, Types, CountIs
  <2>6. v - pa = minv - minp
    BY <1>1, <2>5, ExtentIsLinear
  <2>7. PICK o \in Nat : o = e - v /\ o < filesz
    BY <2>5
  <2>8. o < memsz
    <3>1. n < phnum + 1
      BY <2>1
    <3>2. filesz <= memsz
      BY <2>1, <2>3, <2>5, <3>1 DEF ImageUpTo
    <3> QED
      BY <2>5, <2>7, <3>2
  <2>9. PICK q \in Nat : /\ q = Place(n) /\ q = b + (pa - minp)
                         /\ q + o \in owned /\ q + o \in Addresses
    BY <2>1, <2>3, <2>5, <2>7, <2>8, SegmentRoom
  <2>10. (e - minv) + b = q + o
    BY <2>6, <2>7, <2>9
  <2>11. q + o < u
    BY <2>1, <2>5, <2>9, Types DEF Addresses
  <2>12. PICK z \in Nat : z = q + o
    OBVIOUS
  <2>13. z % u = z
    BY <2>11, <2>12, SMTT(30)
  <2>14. info.entry = q + o
    BY <2>1, <2>5, <2>10, <2>12, <2>13 DEF EntryPoint
  <2>15. memory[q + o] = p.offset + o
    BY <2>3, <2>4, <2>5, <2>7, <2>8, <2>9 DEF HoldsSegment
  <2> QED
    BY <2>5, <2>7, <2>9, <2>14, <2>15
<1> QED
  BY <1>1, Inductive, PTL
=============================================================================
