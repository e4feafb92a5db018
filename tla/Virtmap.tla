------------------------------ MODULE Virtmap -------------------------------
(***************************************************************************)
(* efi_get_virtmap: the virtual addresses of the runtime services.  It     *)
(* walks over the boot memory map, writes a virtual address into every     *)
(* runtime descriptor and copies it to the runtime map, which              *)
(* SetVirtualAddressMap is given.  It runs again, over a new memory map    *)
(* and into the same buffer, when ExitBootServices wants a retry.          *)
(* Addresses and sizes are in EFI pages.                                   *)
(***************************************************************************)
EXTENDS Align, Sequences, FiniteSets

CONSTANTS
  K64,          (* SZ_64K in pages                                         *)
  M2,           (* SZ_2M in pages                                          *)
  VirtmapBase,  (* virtmap_base in pages                                   *)
  MaxDescs,     (* descriptors the runtime map has room for: as many as    *)
                (* the whole memory map had when efi_alloc_virtmap asked   *)
  Maps,         (* the memory maps the firmware may report                 *)
  MaxCalls      (* bound on the calls: the first one and the retry         *)

Descriptors == [start : Nat, pages : Nat \ {0}, runtime : BOOLEAN, virt : Nat]

(* The runtime descriptors among the first n of a memory map.              *)
RuntimeUpTo(m, n) == {k \in 1..n : m[k].runtime}

ASSUME VirtmapAssumption ==
  /\ K64 \in Nat \ {0}
  /\ M2 \in Nat \ {0} /\ M2 % K64 = 0
  /\ VirtmapBase \in Nat
  /\ MaxDescs \in Nat
  /\ Maps \subseteq Seq(Descriptors)
  \* The boot map may have grown, the runtime ranges are all in its size.
  /\ \A m \in Maps : Cardinality(RuntimeUpTo(m, Len(m))) <= MaxDescs

VARIABLES
  novamap,     (* efi_novamap                                              *)
  map,         (* the boot memory map                                      *)
  i,           (* the descriptor the loop is at, 0 outside of the loop     *)
  virtBase,    (* efi_virt_base: where the next range may start            *)
  runtimeMap,  (* the buffer of the runtime map ...                        *)
  count,       (* ... and how many of its entries are in use               *)
  calls        (* number of calls so far                                   *)

vars == <<novamap, map, i, virtBase, runtimeMap, count, calls>>

NoDesc == [start |-> 0, pages |-> 1, runtime |-> FALSE, virt |-> 0]

Init ==
  /\ novamap \in BOOLEAN
  /\ map = <<>>
  /\ i = 0
  /\ virtBase = VirtmapBase
  /\ runtimeMap = [n \in 1..MaxDescs |-> NoDesc]
  /\ count = 0
  /\ calls = 0

-----------------------------------------------------------------------------
Call_CountKept(m) ==              \* mutation: *count = 0 is missing
  /\ i = 0 /\ calls < MaxCalls
  /\ calls' = calls + 1
  /\ map' = m
  /\ i' = 1
  /\ virtBase' = VirtmapBase
  /\ UNCHANGED <<novamap, runtimeMap, count>>

Call(m) ==
  /\ i = 0 /\ calls < MaxCalls
  /\ calls' = calls + 1
  /\ map' = m
  /\ i' = 1
  /\ virtBase' = VirtmapBase
  /\ count' = 0
  /\ UNCHANGED <<novamap, runtimeMap>>

AtDescriptor == i # 0 /\ i <= Len(map)

SkipBootTime ==
  /\ AtDescriptor /\ ~map[i].runtime
  /\ i' = i + 1
  /\ UNCHANGED <<novamap, map, virtBase, runtimeMap, count, calls>>

(* With efi_novamap a descriptor maps to itself and is not copied.         *)
MapToItself ==
  /\ AtDescriptor /\ map[i].runtime /\ novamap
  /\ map' = [map EXCEPT ![i].virt = map[i].start]
  /\ i' = i + 1
  /\ UNCHANGED <<novamap, virtBase, runtimeMap, count, calls>>

(* The range is widened downwards to a multiple of 64K ...                 *)
WidenedSize(d) == d.pages + (d.start - RoundDown(d.start, K64))

(* ... and starts at a multiple of 64K, or of 2M if that saves page tables. *)
PlacementFor(d, at) ==
  IF d.start % M2 = 0 /\ WidenedSize(d) >= M2
    THEN RoundUp(at, M2)
    ELSE RoundUp(at, K64)

VirtFor(d, at) == d.start + (PlacementFor(d, at) - RoundDown(d.start, K64))

NextBase_Unwidened(d, at) ==      \* mutation: size += ... is missing
  PlacementFor(d, at) + d.pages

NextBase(d, at) == PlacementFor(d, at) + WidenedSize(d)

Mapped(d, at) == [d EXCEPT !.virt = VirtFor(d, at)]

AssignAddress ==
  /\ AtDescriptor /\ map[i].runtime /\ ~novamap
  /\ map' = [map EXCEPT ![i] = Mapped(map[i], virtBase)]
  /\ runtimeMap' = [runtimeMap EXCEPT ![count + 1] = Mapped(map[i], virtBase)]
  /\ count' = count + 1
  /\ virtBase' = NextBase(map[i], virtBase)
  /\ i' = i + 1
  /\ UNCHANGED <<novamap, calls>>

Return ==
  /\ i = Len(map) + 1
  /\ i' = 0
  /\ UNCHANGED <<novamap, map, virtBase, runtimeMap, count, calls>>

Next ==
  \/ \E m \in Maps : Call(m)
  \/ SkipBootTime \/ MapToItself \/ AssignAddress \/ Return

Spec == Init /\ [][Next]_vars

-----------------------------------------------------------------------------
TypeOK ==
  /\ novamap \in BOOLEAN
  /\ map \in Seq(Descriptors)
  /\ i \in 0..(Len(map) + 1)
  /\ virtBase \in Nat
  /\ runtimeMap \in [1..MaxDescs -> Descriptors]
  /\ count \in 0..MaxDescs
  /\ calls \in Nat

InUse == {runtimeMap[n] : n \in 1..count}

(* No two entries of the runtime map share a 64K page of virtual memory:   *)
(* a kernel with pages of 64K can give each its own attributes.            *)
Separate ==
  \A m, n \in 1..count :
    m < n => RoundUp(runtimeMap[m].virt + runtimeMap[m].pages, K64)
               <= RoundDown(runtimeMap[n].virt, K64)

(* The offset into a 64K page is the same physically and virtually, so     *)
(* that a page of 64K can map it.                                          *)
Congruent == \A d \in InUse : d.virt % K64 = d.start % K64

(* A range that fills sections of 2M and is aligned to them is mapped by   *)
(* sections.                                                               *)
Sectioned ==
  \A d \in InUse : d.start % M2 = 0 /\ d.pages >= M2 => d.virt % M2 = 0

(* After a call the two maps the kernel and the firmware go by agree: the  *)
(* runtime map holds exactly the runtime descriptors of the boot map, with *)
(* their new addresses, however often efi_get_virtmap ran before; with     *)
(* efi_novamap it is empty and they map to themselves.                     *)
MapsAgree ==
  i = 0 /\ calls > 0 =>
    LET runtime == RuntimeUpTo(map, Len(map))
    IN  IF novamap
          THEN count = 0 /\ \A n \in runtime : map[n].virt = map[n].start
          ELSE /\ InUse = {map[n] : n \in runtime}
               /\ \A n \in 1..Len(map) : map[n].runtime => map[n] \in InUse

(* The layout efi_get_virtmap gives the runtime ranges: 64K pages that are *)
(* not shared, the offset into them kept, sections for what fills them.    *)
LayoutAsPromised ==
  /\ Separate
  /\ Congruent
  /\ Sectioned
=============================================================================
