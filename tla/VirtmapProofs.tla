--------------------------- MODULE VirtmapProofs ----------------------------
(***************************************************************************)
(* Theorems about efi_get_virtmap, for every memory map and every size of  *)
(* its pages.                                                              *)
(***************************************************************************)
EXTENDS Virtmap, NumberTheorems, FiniteSetTheorems

-----------------------------------------------------------------------------
(* One range.                                                              *)

(* Where a range is placed and where the next one may start.               *)
LEMMA RangeIs ==
  ASSUME NEW d \in Descriptors, NEW at \in Nat
  PROVE  \E p \in Nat, v \in Nat, next \in Nat :
           /\ v = VirtFor(d, at) /\ next = NextBase(d, at)
           /\ RoundUp(at, K64) <= p /\ RoundDown(v, K64) = p
           /\ v + d.pages = next
           /\ v % K64 = d.start % K64
           /\ d.start % M2 = 0 /\ d.pages >= M2 => v % M2 = 0
<1> USE VirtmapAssumption
<1>0. PICK p, v, next : /\ p = PlacementFor(d, at)
                        /\ v = VirtFor(d, at) /\ next = NextBase(d, at)
  OBVIOUS
<1>1. PICK start \in Nat, pages \in Nat \ {0} : start = d.start /\ pages = d.pages
  BY DEF Descriptors
<1>2. PICK r \in 0..(K64 - 1) : r = start % K64
  <2>1. start \in Int
    OBVIOUS
  <2>2. start % K64 \in 0..(K64 - 1)
    BY <2>1, DivMod
  <2> QED
    BY <2>2
<1>3. PICK down \in Int : down = RoundDown(start, K64) /\ down = start - r
  <2>1. start \in Int
    OBVIOUS
  <2>2. RoundDown(start, K64) = start - (start % K64)
    BY <2>1, RoundDownIs
  <2> QED
    BY <1>2, <2>2
<1>4. PICK size \in Nat : size = WidenedSize(d) /\ size = pages + r
  <2>1. pages + (start - down) = pages + r
    BY <1>3
  <2>2. WidenedSize(d) = pages + r
    BY <1>1, <1>3, <2>1, Zenon DEF WidenedSize
  <2> QED
    BY <2>2
<1>5. PICK q \in Int : /\ q = p /\ q % K64 = 0 /\ at <= q
                       /\ start % M2 = 0 /\ size >= M2 => q % M2 = 0
  <2>0. at \in Int
    OBVIOUS
  <2>1. CASE start % M2 = 0 /\ size >= M2
    <3>1. PICK u \in Int : u = RoundUp(at, M2) /\ u % M2 = 0 /\ at <= u
      BY <2>0, RoundUpIs, RoundUpBounds
    <3>2. u % K64 = 0
      BY <3>1, MultipleOfMultiple
    <3>3. p = u
      BY <1>0, <1>1, <1>4, <2>1, <3>1, Zenon DEF PlacementFor
    <3> QED
      BY <3>1, <3>2, <3>3
  <2>2. CASE ~(start % M2 = 0 /\ size >= M2)
    <3>1. PICK u \in Int : u = RoundUp(at, K64) /\ u % K64 = 0 /\ at <= u
      BY <2>0, RoundUpIs, RoundUpBounds
    <3>2. p = u
      BY <1>0, <1>1, <1>4, <2>2, <3>1, Zenon DEF PlacementFor
    <3> QED
      BY <2>2, <3>1, <3>2
  <2> QED
    BY <2>1, <2>2
<1>6. RoundUp(at, K64) <= q
  BY <1>5, SmallestMultiple
<1>7. PICK w \in Nat : w = v /\ w = q + r
  <2>1. start + (q - down) = q + r
    BY <1>3
  <2>2. v = q + r
    BY <1>0, <1>1, <1>3, <1>5, <2>1, Zenon DEF VirtFor
  <2> QED
    BY <1>5, <2>2
<1>8. w % K64 = r /\ RoundDown(w, K64) = q
  <2>1. (q + r) % K64 = r /\ RoundDown(q + r, K64) = q
    BY <1>5, OffsetFromMultiple
  <2> QED
    BY <1>7, <2>1, Zenon
<1>9. next = q + size
  BY <1>0, <1>4, <1>5, Zenon DEF NextBase
<1>10. ASSUME start % M2 = 0, pages >= M2 PROVE w % M2 = 0
  <2>0. start \in Int
    OBVIOUS
  <2>1. start % K64 = 0
    BY <1>10, <2>0, MultipleOfMultiple
  <2>2. r = 0
    BY <1>2, <2>1
  <2>3. size >= M2
    BY <1>4, <1>10
  <2>4. w = q
    BY <1>7, <2>2
  <2> QED
    BY <1>5, <1>10, <2>3, <2>4
<1>11. q \in Nat /\ next \in Nat /\ w + pages = next
  BY <1>4, <1>5, <1>7, <1>9
<1>12. /\ p \in Nat /\ v \in Nat /\ next \in Nat
       /\ RoundUp(at, K64) <= p /\ RoundDown(v, K64) = p
  BY <1>5, <1>6, <1>7, <1>8, <1>11
<1>13. v + d.pages = next /\ v % K64 = d.start % K64
  BY <1>1, <1>2, <1>7, <1>8, <1>11, Zenon
<1>14. d.start % M2 = 0 /\ d.pages >= M2 => v % M2 = 0
  BY <1>1, <1>7, <1>10, Zenon
<1> QED
  BY <1>0, <1>12, <1>13, <1>14, Zenon

-----------------------------------------------------------------------------
(* The invariant.                                                          *)

(* The entries written so far end at or below virtBase.                    *)
LayoutInv ==
  /\ \A n \in 1..count : runtimeMap[n].virt + runtimeMap[n].pages <= virtBase
  /\ Separate /\ Congruent /\ Sectioned

(* What is left to do is what the loop has not reached.                    *)
LoopInv ==
  /\ i # 0 =>
       LET done == RuntimeUpTo(map, i - 1)
       IN  IF novamap
             THEN count = 0 /\ \A n \in done : map[n].virt = map[n].start
             ELSE InUse = {map[n] : n \in done}
  /\ MapsAgree

(* One entry was used for each runtime descriptor the loop has passed, and *)
(* there is room for all of them.                                          *)
RoomInv ==
  /\ i # 0 /\ ~novamap => count = Cardinality(RuntimeUpTo(map, i - 1))
  /\ Cardinality(RuntimeUpTo(map, Len(map))) <= MaxDescs

IInv == TypeOK /\ LayoutInv /\ LoopInv /\ RoomInv

-----------------------------------------------------------------------------
(* The steps.                                                              *)

(* A descriptor of the map under the loop.                                 *)
LEMMA TheDescriptor ==
  ASSUME TypeOK, AtDescriptor
  PROVE  /\ i \in 1..Len(map) /\ map[i] \in Descriptors
         /\ Len(map) \in Nat /\ i - 1 \in Nat /\ virtBase \in Nat
  BY DEF TypeOK, AtDescriptor

(* The runtime descriptors of a map are finitely many.                     *)
LEMMA FinitelyMany ==
  ASSUME NEW m, NEW n \in Int
  PROVE  /\ IsFiniteSet(RuntimeUpTo(m, n))
         /\ Cardinality(RuntimeUpTo(m, n)) \in Nat
<1>1. IsFiniteSet(1..n) /\ RuntimeUpTo(m, n) \in SUBSET (1..n)
  BY FS_Interval DEF RuntimeUpTo
<1>2. IsFiniteSet(RuntimeUpTo(m, n))
  BY <1>1, FS_Subset
<1> QED
  BY <1>2, FS_CardinalityType

(* One more descriptor adds one, if it is a runtime descriptor.            *)
LEMMA OneMore ==
  ASSUME NEW m, NEW n \in Nat \ {0}
  PROVE  /\ m[n].runtime =>
              /\ RuntimeUpTo(m, n) = RuntimeUpTo(m, n - 1) \cup {n}
              /\ Cardinality(RuntimeUpTo(m, n))
                   = Cardinality(RuntimeUpTo(m, n - 1)) + 1
         /\ ~m[n].runtime => RuntimeUpTo(m, n) = RuntimeUpTo(m, n - 1)
<1>1. 1..n = 1..(n - 1) \cup {n} /\ n \notin 1..(n - 1) /\ n - 1 \in Int
  OBVIOUS
<1>2. ASSUME ~m[n].runtime PROVE RuntimeUpTo(m, n) = RuntimeUpTo(m, n - 1)
  BY <1>1, <1>2 DEF RuntimeUpTo
<1>3. ASSUME m[n].runtime
      PROVE  RuntimeUpTo(m, n) = RuntimeUpTo(m, n - 1) \cup {n}
  BY <1>1, <1>3 DEF RuntimeUpTo
<1>4. n \notin RuntimeUpTo(m, n - 1) /\ IsFiniteSet(RuntimeUpTo(m, n - 1))
  BY <1>1, FinitelyMany DEF RuntimeUpTo
<1>5. Cardinality(RuntimeUpTo(m, n - 1) \cup {n})
        = Cardinality(RuntimeUpTo(m, n - 1)) + 1
  BY <1>4, FS_AddElement
<1> QED
  BY <1>2, <1>3, <1>5

(* The descriptors the loop has passed are some of the whole map's.        *)
LEMMA NoMoreThanAll ==
  ASSUME NEW m, NEW n \in Int, NEW k \in Int, k <= n
  PROVE  Cardinality(RuntimeUpTo(m, k)) <= Cardinality(RuntimeUpTo(m, n))
<1>1. RuntimeUpTo(m, k) \in SUBSET RuntimeUpTo(m, n)
  BY DEF RuntimeUpTo
<1> QED
  BY <1>1, FinitelyMany, FS_Subset

(* A descriptor is only given an address.                                  *)
LEMMA MappedIs ==
  ASSUME NEW d \in Descriptors, NEW at \in Nat, NEW e, e = Mapped(d, at)
  PROVE  /\ e \in Descriptors
         /\ e.start = d.start /\ e.pages = d.pages /\ e.runtime = d.runtime
         /\ e.virt = VirtFor(d, at)
<1>1. PICK v \in Nat : v = VirtFor(d, at)
  BY RangeIs
<1>2. e = [d EXCEPT !.virt = v]
  BY <1>1, Zenon DEF Mapped
<1>3. /\ e \in Descriptors
      /\ e.start = d.start /\ e.pages = d.pages /\ e.runtime = d.runtime
      /\ e.virt = v
  BY <1>2 DEF Descriptors
<1> QED
  BY <1>1, <1>3, Zenon

(* A new call starts with an empty runtime map.                            *)
LEMMA CallStep ==
  ASSUME IInv, NEW m \in Maps, Call(m)
  PROVE  IInv'
<1>1. /\ m \in Seq(Descriptors) /\ MaxDescs \in Nat
      /\ Cardinality(RuntimeUpTo(m, Len(m))) <= MaxDescs
  BY VirtmapAssumption
<1>2. TypeOK'
  <2>1. /\ novamap' = novamap /\ runtimeMap' = runtimeMap /\ map' = m
        /\ i' = 1 /\ virtBase' = VirtmapBase /\ count' = 0
        /\ calls' = calls + 1
    BY DEF Call
  <2>2. 1 \in 0..(Len(m) + 1) /\ VirtmapBase \in Nat
    BY <1>1, VirtmapAssumption
  <2> QED
    BY <1>1, <2>1, <2>2 DEF IInv, TypeOK
<1>3. 1..count' = {}
  BY DEF Call
<1>4. LayoutInv'
  BY <1>3 DEF LayoutInv, Separate, Congruent, Sectioned, InUse
<1>5. LoopInv'
  <2>1. i' = 1 /\ count' = 0 /\ RuntimeUpTo(map', i' - 1) = {}
    BY DEF Call, RuntimeUpTo
  <2>2. InUse' = {}
    BY <1>3 DEF InUse
  <2>3. MapsAgree'
    BY <2>1 DEF MapsAgree
  <2> QED
    BY <2>1, <2>2, <2>3 DEF LoopInv
<1>6. RoomInv'
  <2>1. i' = 1 /\ count' = 0 /\ RuntimeUpTo(map', i' - 1) = {} /\ map' = m
    BY DEF Call, RuntimeUpTo
  <2> QED
    BY <1>1, <2>1, FS_EmptySet DEF RoomInv
<1> QED
  BY <1>2, <1>4, <1>5, <1>6 DEF IInv

(* The loop passes over a descriptor of boot time.                         *)
LEMMA SkipStep ==
  ASSUME IInv, SkipBootTime
  PROVE  IInv'
<1>1. TypeOK /\ LayoutInv /\ LoopInv /\ RoomInv /\ AtDescriptor
  BY DEF IInv, SkipBootTime
<1>2. i \in 1..Len(map) /\ Len(map) \in Nat /\ i - 1 \in Nat
  BY <1>1, TheDescriptor
<1>3. TypeOK'
  BY <1>1, <1>2 DEF TypeOK, SkipBootTime
<1>4. LayoutInv'
  BY <1>1 DEF LayoutInv, Separate, Congruent, Sectioned, InUse, SkipBootTime
<1>5. /\ i' = i + 1 /\ i' # 0 /\ i # 0 /\ i' - 1 = i
      /\ UNCHANGED <<novamap, map, runtimeMap, count>>
  BY <1>2 DEF SkipBootTime
<1>6. RuntimeUpTo(map, i) = RuntimeUpTo(map, i - 1)
  <2>1. i \in Nat \ {0} /\ ~map[i].runtime
    BY <1>2 DEF SkipBootTime
  <2> QED
    BY <2>1, OneMore
<1>7. LoopInv'
  <2>1. InUse' = InUse
    BY <1>5 DEF InUse
  <2>2. MapsAgree'
    BY <1>5 DEF MapsAgree
  <2> QED
    BY <1>1, <1>5, <1>6, <2>1, <2>2 DEF LoopInv
<1>8. RoomInv'
  BY <1>1, <1>5, <1>6 DEF RoomInv
<1> QED
  BY <1>3, <1>4, <1>7, <1>8 DEF IInv

(* With efi_novamap a descriptor maps to itself.                           *)
LEMMA MapToItselfStep ==
  ASSUME IInv, MapToItself
  PROVE  IInv'
<1>1. TypeOK /\ LayoutInv /\ LoopInv /\ RoomInv /\ AtDescriptor /\ novamap
  BY DEF IInv, MapToItself
<1>2. /\ i \in 1..Len(map) /\ Len(map) \in Nat /\ i - 1 \in Nat
      /\ map[i] \in Descriptors
  BY <1>1, TheDescriptor
<1>3. PICK e \in Descriptors :
        /\ e = [map[i] EXCEPT !.virt = map[i].start]
        /\ e.virt = e.start /\ e.runtime = map[i].runtime
  <2>1. PICK d \in Descriptors : d = map[i]
    BY <1>2
  <2>2. PICK s \in Nat : s = d.start
    BY DEF Descriptors
  <2>3. PICK e : e = [d EXCEPT !.virt = s]
    OBVIOUS
  <2>4. e \in Descriptors /\ e.virt = e.start /\ e.runtime = d.runtime
    BY <2>2, <2>3 DEF Descriptors
  <2> QED
    BY <2>1, <2>2, <2>3, <2>4, Zenon
<1>4. map' = [map EXCEPT ![i] = e]
  BY <1>3 DEF MapToItself
<1>5. /\ map' \in Seq(Descriptors) /\ Len(map') = Len(map)
      /\ map'[i] = e /\ \A n \in 1..(i - 1) : map'[n] = map[n]
  BY <1>1, <1>2, <1>4 DEF TypeOK
<1>10. \A n \in 1..Len(map) : map'[n].runtime = map[n].runtime
  <2>1. \A n \in 1..Len(map) : n # i => map'[n] = map[n]
    BY <1>1, <1>2, <1>4 DEF TypeOK
  <2> QED
    BY <1>3, <1>5, <2>1
<1>6. /\ i' = i + 1 /\ i' # 0 /\ i # 0
      /\ UNCHANGED <<novamap, virtBase, runtimeMap, count, calls>>
  BY <1>2 DEF MapToItself
<1>7. TypeOK'
  BY <1>1, <1>2, <1>5, <1>6 DEF TypeOK
<1>8. LayoutInv'
  BY <1>1, <1>6 DEF LayoutInv, Separate, Congruent, Sectioned, InUse
<1>9. LoopInv'
  <2>1. count' = 0 /\ \A n \in RuntimeUpTo(map, i - 1) :
                                      map[n].virt = map[n].start
    BY <1>1, <1>6 DEF LoopInv
  <2>2. \A n \in RuntimeUpTo(map', i' - 1) : map'[n].virt = map'[n].start
    <3> SUFFICES ASSUME NEW n \in 1..(i' - 1), map'[n].runtime
                 PROVE  map'[n].virt = map'[n].start
      BY DEF RuntimeUpTo
    <3>1. CASE n = i
      BY <1>3, <1>5, <3>1
    <3>2. CASE n # i
      <4>1. n \in 1..(i - 1)
        BY <1>2, <1>6, <3>2
      <4> QED
        BY <1>5, <2>1, <4>1 DEF RuntimeUpTo
    <3> QED
      BY <3>1, <3>2
  <2>3. MapsAgree'
    BY <1>6 DEF MapsAgree
  <2> QED
    BY <1>1, <1>6, <2>1, <2>2, <2>3 DEF LoopInv
<1>11. RoomInv'
  <2>1. RuntimeUpTo(map', Len(map')) = RuntimeUpTo(map, Len(map))
    BY <1>5, <1>10 DEF RuntimeUpTo
  <2> QED
    BY <1>1, <1>6, <2>1 DEF RoomInv
<1> QED
  BY <1>7, <1>8, <1>9, <1>11 DEF IInv

(* The loop gives a descriptor its address and copies it.                  *)
LEMMA AssignStep ==
  ASSUME IInv, AssignAddress
  PROVE  IInv'
<1>1. TypeOK /\ LayoutInv /\ LoopInv /\ RoomInv /\ AtDescriptor /\ ~novamap
  BY DEF IInv, AssignAddress
<1>0. K64 \in Nat \ {0} /\ MaxDescs \in Nat
  BY VirtmapAssumption
<1>2. /\ i \in 1..Len(map) /\ Len(map) \in Nat /\ i - 1 \in Nat
      /\ map[i] \in Descriptors /\ virtBase \in Nat
  BY <1>1, TheDescriptor
<1>3. PICK d \in Descriptors : d = map[i]
  BY <1>2
<1>4. PICK e \in Descriptors :
        /\ e = Mapped(d, virtBase) /\ e.virt = VirtFor(d, virtBase)
        /\ e.start = d.start /\ e.pages = d.pages /\ e.runtime = d.runtime
  BY <1>2, MappedIs
<1>5. PICK p \in Nat, next \in Nat :
        /\ next = NextBase(d, virtBase)
        /\ RoundUp(virtBase, K64) <= p /\ RoundDown(e.virt, K64) = p
        /\ e.virt + e.pages = next /\ e.virt % K64 = e.start % K64
        /\ e.start % M2 = 0 /\ e.pages >= M2 => e.virt % M2 = 0
  <2>1. PICK p \in Nat, v \in Nat, next \in Nat :
          /\ v = VirtFor(d, virtBase) /\ next = NextBase(d, virtBase)
          /\ RoundUp(virtBase, K64) <= p /\ RoundDown(v, K64) = p
          /\ v + d.pages = next /\ v % K64 = d.start % K64
          /\ d.start % M2 = 0 /\ d.pages >= M2 => v % M2 = 0
    BY <1>2, RangeIs, Zenon
  <2>2. e.virt = v
    BY <1>4, <2>1
  <2> QED
    BY <1>4, <2>1, <2>2, Zenon
<1>6. /\ count \in Nat /\ count + 1 \in 1..MaxDescs
      /\ RuntimeUpTo(map, i) = RuntimeUpTo(map, i - 1) \cup {i}
      /\ count + 1 = Cardinality(RuntimeUpTo(map, i))
  <2>1. count \in Nat
    BY <1>0, <1>1 DEF TypeOK
  <2>2. count = Cardinality(RuntimeUpTo(map, i - 1))
    BY <1>1, <1>2 DEF RoomInv
  <2>3. i \in Nat \ {0} /\ map[i].runtime
    BY <1>2 DEF AssignAddress
  <2>4. /\ RuntimeUpTo(map, i) = RuntimeUpTo(map, i - 1) \cup {i}
        /\ Cardinality(RuntimeUpTo(map, i))
             = Cardinality(RuntimeUpTo(map, i - 1)) + 1
    BY <2>3, OneMore
  <2>5. Cardinality(RuntimeUpTo(map, i)) <= Cardinality(RuntimeUpTo(map, Len(map)))
    <3>1. i \in Int /\ Len(map) \in Int /\ i <= Len(map)
      BY <1>2
    <3> QED
      BY <3>1, NoMoreThanAll
  <2>6. Cardinality(RuntimeUpTo(map, Len(map))) <= MaxDescs
    BY <1>1 DEF RoomInv
  <2>7. Cardinality(RuntimeUpTo(map, Len(map))) \in Nat
    BY <1>2, FinitelyMany
  <2> QED
    BY <1>0, <2>1, <2>2, <2>4, <2>5, <2>6, <2>7
<1>7. /\ map' = [map EXCEPT ![i] = e]
      /\ runtimeMap' = [runtimeMap EXCEPT ![count + 1] = e]
      /\ count' = count + 1 /\ virtBase' = next /\ i' = i + 1
      /\ UNCHANGED <<novamap, calls>> /\ d.runtime
  BY <1>3, <1>4, <1>5 DEF AssignAddress
<1>8. /\ map' \in Seq(Descriptors) /\ Len(map') = Len(map)
      /\ map'[i] = e /\ \A n \in 1..(i - 1) : map'[n] = map[n]
  BY <1>1, <1>2, <1>7 DEF TypeOK
<1>15. \A n \in 1..Len(map) : map'[n].runtime = map[n].runtime
  <2>1. \A n \in 1..Len(map) : n # i => map'[n] = map[n]
    BY <1>1, <1>2, <1>7 DEF TypeOK
  <2> QED
    BY <1>3, <1>4, <1>8, <2>1
<1>16. /\ RuntimeUpTo(map', i' - 1) = RuntimeUpTo(map, i)
       /\ RuntimeUpTo(map', Len(map')) = RuntimeUpTo(map, Len(map))
  <2>1. i' - 1 = i /\ Len(map') = Len(map) /\ \A n \in 1..i : n \in 1..Len(map)
    BY <1>2, <1>7, <1>8
  <2> QED
    BY <1>15, <2>1 DEF RuntimeUpTo
<1>9. /\ runtimeMap' \in [1..MaxDescs -> Descriptors]
      /\ runtimeMap'[count + 1] = e
      /\ \A n \in 1..count : runtimeMap'[n] = runtimeMap[n]
      /\ \A n \in 1..count : runtimeMap[n] \in Descriptors
  <2>1. runtimeMap \in [1..MaxDescs -> Descriptors]
    BY <1>1 DEF TypeOK
  <2>2. \A n \in 1..count : n \in 1..MaxDescs /\ n # count + 1
    BY <1>0, <1>6
  <2> QED
    BY <1>6, <1>7, <2>1, <2>2
<1>10. TypeOK'
  BY <1>0, <1>1, <1>2, <1>6, <1>7, <1>8, <1>9 DEF TypeOK
<1>11. 1..count' = 1..count \cup {count + 1}
  BY <1>6, <1>7
<1>12. InUse' = InUse \cup {e}
  BY <1>9, <1>11 DEF InUse
<1>13. LayoutInv'
  <2>1. virtBase <= RoundUp(virtBase, K64) /\ RoundUp(virtBase, K64) \in Int
    <3>1. virtBase \in Int
      BY <1>2
    <3> QED
      BY <1>0, <3>1, RoundUpBounds
  <2>2. virtBase <= virtBase'
    <3>1. e.virt \in Nat /\ e.pages \in Nat
      BY DEF Descriptors
    <3>2. RoundDown(e.virt, K64) <= e.virt
      <4>1. PICK x \in Int : x = e.virt
        BY <3>1
      <4>2. PICK r \in Nat : r = x % K64
        <5>1. x % K64 \in 0..(K64 - 1)
          BY <1>0, <4>1, DivMod
        <5> QED
          BY <1>0, <5>1
      <4>3. RoundDown(x, K64) = x - r
        BY <1>0, <4>2, RoundDownIs
      <4>4. RoundDown(x, K64) <= x
        BY <4>3
      <4> QED
        BY <4>1, <4>4
    <3> QED
      BY <1>2, <1>5, <1>7, <2>1, <3>1, <3>2
  <2>3. \A n \in 1..count' :
           runtimeMap'[n].virt + runtimeMap'[n].pages <= virtBase'
    <3> SUFFICES ASSUME NEW n \in 1..count'
                 PROVE  runtimeMap'[n].virt + runtimeMap'[n].pages <= virtBase'
      OBVIOUS
    <3>1. CASE n = count + 1
      BY <1>5, <1>7, <1>9, <3>1
    <3>2. CASE n # count + 1
      <4>1. n \in 1..count
        BY <1>11, <3>2
      <4>2. PICK x \in Nat : x = runtimeMap[n].virt + runtimeMap[n].pages
        BY <1>9, <4>1 DEF Descriptors
      <4>3. x <= virtBase
        BY <1>1, <4>1, <4>2 DEF LayoutInv
      <4>4. x <= virtBase'
        BY <1>2, <1>7, <2>2, <4>3
      <4> QED
        BY <1>9, <4>1, <4>2, <4>4
    <3> QED
      BY <3>1, <3>2
  <2>4. Separate'
    <3> SUFFICES ASSUME NEW m \in 1..count', NEW n \in 1..count', m < n
                 PROVE  RoundUp(runtimeMap'[m].virt + runtimeMap'[m].pages, K64)
                          <= RoundDown(runtimeMap'[n].virt, K64)
      BY DEF Separate
    <3>1. m \in 1..count
      BY <1>6, <1>7
    <3>2. CASE n \in 1..count
      BY <1>1, <1>9, <3>1, <3>2 DEF LayoutInv, Separate
    <3>3. CASE n = count + 1
      <4>1. PICK x \in Nat : x = runtimeMap[m].virt + runtimeMap[m].pages
        BY <1>9, <3>1 DEF Descriptors
      <4>2. x <= virtBase
        BY <1>1, <3>1, <4>1 DEF LayoutInv
      <4>3. x \in Int /\ virtBase \in Int
        BY <1>2
      <4>4. PICK u \in Int : u = RoundUp(virtBase, K64)
        BY <2>1
      <4>5. PICK w \in Int : w = RoundUp(x, K64)
        BY <1>0, <4>3, RoundUpIs
      <4>6. w <= u
        BY <1>0, <4>2, <4>3, <4>4, <4>5, RoundUpMonotone
      <4>7. w <= p
        BY <1>5, <4>4, <4>6
      <4>8. RoundUp(runtimeMap'[m].virt + runtimeMap'[m].pages, K64) = w
        BY <1>9, <3>1, <4>1, <4>5
      <4>9. RoundDown(runtimeMap'[n].virt, K64) = p
        BY <1>5, <1>9, <3>3
      <4> QED
        BY <4>7, <4>8, <4>9
    <3> QED
      BY <1>11, <3>2, <3>3
  <2>5. Congruent' /\ Sectioned'
    BY <1>1, <1>5, <1>12 DEF LayoutInv, Congruent, Sectioned
  <2> QED
    BY <2>3, <2>4, <2>5 DEF LayoutInv
<1>14. LoopInv'
  <2>1. i' # 0 /\ i # 0 /\ ~novamap'
    BY <1>1, <1>2, <1>7
  <2>2. InUse = {map[n] : n \in RuntimeUpTo(map, i - 1)}
    BY <1>1, <2>1 DEF LoopInv
  <2>3. RuntimeUpTo(map', i' - 1) = RuntimeUpTo(map, i - 1) \cup {i}
    BY <1>6, <1>16
  <2>4. \A n \in RuntimeUpTo(map, i - 1) : map'[n] = map[n]
    BY <1>8 DEF RuntimeUpTo
  <2>5. InUse' = {map'[n] : n \in RuntimeUpTo(map', i' - 1)}
    BY <1>8, <1>12, <2>2, <2>3, <2>4
  <2>6. MapsAgree'
    BY <2>1 DEF MapsAgree
  <2> QED
    BY <2>1, <2>5, <2>6 DEF LoopInv
<1>17. RoomInv'
  BY <1>1, <1>6, <1>7, <1>16 DEF RoomInv
<1> QED
  BY <1>10, <1>13, <1>14, <1>17 DEF IInv

(* The loop is over: what it has reached is the whole map.                 *)
LEMMA ReturnStep ==
  ASSUME IInv, Return
  PROVE  IInv'
<1>1. TypeOK /\ LayoutInv /\ LoopInv /\ RoomInv
  BY DEF IInv
<1>2. /\ i' = 0 /\ i = Len(map) + 1 /\ i # 0 /\ Len(map) \in Nat
      /\ UNCHANGED <<novamap, map, virtBase, runtimeMap, count, calls>>
  BY <1>1 DEF Return, TypeOK
<1>3. TypeOK'
  BY <1>1, <1>2 DEF TypeOK
<1>4. LayoutInv'
  BY <1>1, <1>2 DEF LayoutInv, Separate, Congruent, Sectioned, InUse
<1>5. i - 1 = Len(map)
  BY <1>2
<1>6. LET runtime == RuntimeUpTo(map, Len(map))
      IN  IF novamap
            THEN count = 0 /\ \A n \in runtime : map[n].virt = map[n].start
            ELSE InUse = {map[n] : n \in runtime}
  BY <1>1, <1>2, <1>5 DEF LoopInv
<1>7. InUse' = InUse
  BY <1>2 DEF InUse
<1>8. MapsAgree'
  <2>1. \A n \in 1..Len(map) : map[n].runtime => n \in RuntimeUpTo(map, Len(map))
    BY DEF RuntimeUpTo
  <2> QED
    BY <1>2, <1>6, <1>7, <2>1 DEF MapsAgree
<1>9. RoomInv'
  BY <1>1, <1>2 DEF RoomInv
<1> QED
  BY <1>2, <1>3, <1>4, <1>8, <1>9 DEF LoopInv, IInv

(* Every step of efi_get_virtmap keeps the invariant.                      *)
LEMMA Inductive == Spec => []IInv
<1>1. Init => IInv
  <2> SUFFICES ASSUME Init PROVE IInv
    OBVIOUS
  <2>1. NoDesc \in Descriptors
    BY DEF NoDesc, Descriptors
  <2>2. TypeOK
    BY <2>1, VirtmapAssumption DEF Init, TypeOK
  <2>3. 1..count = {} /\ i = 0 /\ calls = 0
    BY DEF Init
  <2>4. LayoutInv
    BY <2>3 DEF LayoutInv, Separate, Congruent, Sectioned, InUse
  <2>5. LoopInv
    BY <2>3 DEF LoopInv, MapsAgree
  <2>6. RoomInv
    <3>1. RuntimeUpTo(map, Len(map)) = {} /\ MaxDescs \in Nat
      BY VirtmapAssumption DEF Init, RuntimeUpTo
    <3> QED
      BY <2>3, <3>1, FS_EmptySet DEF RoomInv
  <2> QED
    BY <2>2, <2>4, <2>5, <2>6 DEF IInv
<1>2. IInv /\ [Next]_vars => IInv'
  <2> SUFFICES ASSUME IInv, [Next]_vars PROVE IInv'
    OBVIOUS
  <2>1. CASE \E m \in Maps : Call(m)
    BY <2>1, CallStep
  <2>2. CASE SkipBootTime
    BY <2>2, SkipStep
  <2>3. CASE MapToItself
    BY <2>3, MapToItselfStep
  <2>4. CASE AssignAddress
    BY <2>4, AssignStep
  <2>5. CASE Return
    BY <2>5, ReturnStep
  <2>6. CASE UNCHANGED vars
    <3>1. TypeOK'
      BY <2>6 DEF vars, IInv, TypeOK
    <3>2. LayoutInv'
      BY <2>6 DEF vars, IInv, LayoutInv, Separate, Congruent, Sectioned, InUse
    <3>3. LoopInv'
      <4>1. InUse' = InUse
        BY <2>6 DEF vars, InUse
      <4>2. MapsAgree' = MapsAgree
        BY <2>6, <4>1 DEF vars, MapsAgree
      <4> QED
        BY <2>6, <4>1, <4>2, Zenon DEF vars, IInv, LoopInv
    <3>4. RoomInv'
      BY <2>6 DEF vars, IInv, RoomInv
    <3> QED
      BY <3>1, <3>2, <3>3, <3>4 DEF IInv
  <2> QED
    BY <2>1, <2>2, <2>3, <2>4, <2>5, <2>6 DEF Next
<1> QED
  BY <1>1, <1>2, PTL DEF Spec

(* Type correctness; in particular no call writes behind the end of the    *)
(* runtime map, which efi_alloc_virtmap allocated for MaxDescs descriptors. *)
THEOREM TypeCorrect == Spec => []TypeOK
<1>1. IInv => TypeOK
  BY DEF IInv
<1> QED
  BY Inductive, <1>1, PTL

(* efi_get_virtmap lays out the ranges as its comments promise: none       *)
(* shares a 64K page with another, the offset into 64K is preserved, and   *)
(* a large aligned range is aligned virtually.                             *)
THEOREM LayoutTheorem == Spec => []LayoutAsPromised
<1>1. IInv => LayoutAsPromised
  BY DEF IInv, LayoutInv, LayoutAsPromised
<1> QED
  BY Inductive, <1>1, PTL

(* Whenever efi_get_virtmap has returned, for the first time or on the     *)
(* retry, the runtime map is exactly the runtime part of the boot map.     *)
THEOREM MapsAgreeTheorem == Spec => []MapsAgree
<1>1. IInv => MapsAgree
  BY DEF IInv, LoopInv
<1> QED
  BY Inductive, <1>1, PTL
=============================================================================
