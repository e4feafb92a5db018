----------------------------- MODULE UpdateFdt ------------------------------
(***************************************************************************)
(* update_fdt, and update_fdt_memmap behind it: the device tree for the    *)
(* kernel is made in a buffer of bufsize bytes, from the firmware's or     *)
(* from an empty one, and told of the firmware and of its memory map.      *)
(***************************************************************************)
EXTENDS Fdt

CONSTANTS
  Trees,      (* the device trees a firmware may have; fdt_check_header    *)
              (* accepts them                                              *)
  BufSizes,   (* the sizes of the buffer, MAX_FDT_SIZE in the code         *)
  CmdLines,   (* the values bootargs may get; of length 1 when empty       *)
  Rounds      (* how often the memory map is written into the tree         *)

NoTree == [version |-> 0]

ValuesOf(t) ==
  {t.struct[j].value : j \in {i \in 1..Len(t.struct) : IsTag(t, i, "PROP")}}

(* The blocks of a firmware's tree do not overlap, in whatever order they  *)
(* are; one of version 16 does not have the size of its structure block.   *)
ASSUME TreesAssumption ==
  /\ \A t \in Trees :
       /\ t \in TreesOf(ValuesOf(t)) /\ Readable(t)
       /\ \A v \in ValuesOf(t) : v.len \in Nat
       /\ t.sizeStrings = StringBytes(t.strings)
       /\ HeaderSize + ReserveBytes(t) + StructBytes(t.struct) + t.sizeStrings <= t.total
  /\ BufSizes \subseteq Nat /\ Rounds \in Nat
  /\ \A line \in CmdLines : line.len \in Nat

(* Its nodes are nested, below one root, and have paths of their own.      *)
WellNested(t) ==
  /\ t.struct[1] = BeginNode(RootName) /\ t.struct[Len(t.struct) - 1] = EndNode
  /\ \A j \in 1..(Len(t.struct) - 2) : PathOf(t, j) # <<>> /\ PathOf(t, j)[1] = RootName
OnePathEach(t) == \A j, k \in Nodes(t) : PathOf(t, j) = PathOf(t, k) => j = k

ASSUME NestedAssumption == \A t \in Trees : WellNested(t) /\ OnePathEach(t)

VARIABLES
  orig,       (* the firmware's tree, or NoTree                            *)
  bufsize, cmdline,
  fdt,        (* the tree in the buffer                                    *)
  node,       (* the node /chosen                                          *)
  at,         (* where update_fdt is                                       *)
  told,       (* the property it sets next                                 *)
  round       (* how often update_fdt_memmap was called                    *)

vars == <<orig, bufsize, cmdline, fdt, node, at, told, round>>

Init ==
  /\ orig \in Trees \cup {NoTree}
  /\ bufsize \in BufSizes /\ cmdline \in CmdLines
  /\ fdt = NoTree /\ node = NotFound
  /\ at = "open" /\ told = 1 /\ round = 0

(* NOSPACE becomes EFI_BUFFER_TOO_SMALL, every other error EFI_LOAD_ERROR. *)
Failure(err) == IF err = "NOSPACE" THEN "too_small" ELSE "load_error"

(* A call that leaves the result r is followed by next.                    *)
Calls(r, next) ==
  /\ fdt' = r.fdt
  /\ at' = IF r.err = "none" THEN next ELSE Failure(r.err)

OpenTree ==
  /\ at = "open"
  /\ LET r == IF orig = NoTree THEN CreateEmptyTree(bufsize)
              ELSE OpenInto(orig, bufsize)
         next == IF orig = NoTree THEN "cells" ELSE "reserved"
     IN  Calls(IF r.err = "none" THEN r ELSE Fails(r.err, NoTree), next)
  /\ UNCHANGED <<orig, bufsize, cmdline, node, told, round>>

(* fdt_update_cell_size: whether there was room is not looked at.          *)
Cells == [len |-> 4, data |-> 2]
Root == 1

UpdateCellSize ==
  /\ at = "cells"
  /\ LET address == SetProp(fdt, Root, "#address-cells", Cells)
         size == SetProp(address.fdt, Root, "#size-cells", Cells)
     IN  fdt' = size.fdt
  /\ at' = "reserved"
  /\ UNCHANGED <<orig, bufsize, cmdline, node, told, round>>

(* while (num_rsv-- > 0)                                                   *)
DelReservations_ButOne ==         \* mutation: while (--num_rsv > 0)
  /\ at = "reserved"
  /\ IF fdt.reserved > 1 THEN fdt' = DelMemRsv(fdt) /\ at' = at
     ELSE at' = "chosen" /\ UNCHANGED fdt
  /\ UNCHANGED <<orig, bufsize, cmdline, node, told, round>>

DelReservations ==
  /\ at = "reserved"
  /\ IF fdt.reserved > 0 THEN fdt' = DelMemRsv(fdt) /\ at' = at
     ELSE at' = "chosen" /\ UNCHANGED fdt
  /\ UNCHANGED <<orig, bufsize, cmdline, node, told, round>>

Chosen(f) == SubnodeOffset(f, Root, "chosen")

FindChosen ==
  /\ at = "chosen" /\ Chosen(fdt) # NotFound
  /\ node' = Chosen(fdt) /\ at' = "bootargs"
  /\ UNCHANGED <<orig, bufsize, cmdline, fdt, told, round>>

AddChosen ==
  /\ at = "chosen" /\ Chosen(fdt) = NotFound
  /\ LET added == AddSubnode(fdt, Root, "chosen")
     IN  Calls(added, "bootargs") /\ node' = Chosen(added.fdt)
  /\ UNCHANGED <<orig, bufsize, cmdline, told, round>>

(* The properties set behind bootargs; the last four with placeholders.    *)
Told ==
  <<[name |-> "linux,uefi-system-table", len |-> 8],
    [name |-> "linux,uefi-mmap-start", len |-> 8],
    [name |-> "linux,uefi-mmap-size", len |-> 4],
    [name |-> "linux,uefi-mmap-desc-size", len |-> 4],
    [name |-> "linux,uefi-mmap-desc-ver", len |-> 4]>>

ASSUME OwnNames ==
  {RootName, "chosen", "bootargs", "#address-cells", "#size-cells"}
    \cup {Told[i].name : i \in 1..Len(Told)} \subseteq Names

SetBootargs ==
  /\ at = "bootargs"
  /\ IF cmdline.len > 1 THEN Calls(SetProp(fdt, node, "bootargs", cmdline), "told")
     ELSE at' = "told" /\ UNCHANGED fdt
  /\ UNCHANGED <<orig, bufsize, cmdline, node, told, round>>

Placeholder == 0

Tell ==
  /\ at = "told" /\ told <= Len(Told)
  /\ Calls(SetProp(fdt, node, Told[told].name,
                   [len |-> Told[told].len, data |-> Placeholder]), "told")
  /\ told' = told + 1
  /\ UNCHANGED <<orig, bufsize, cmdline, node, round>>

PackTree ==
  /\ at = "told" /\ told > Len(Told)
  /\ fdt' = Pack(fdt) /\ at' = "ready"
  /\ UNCHANGED <<orig, bufsize, cmdline, node, told, round>>

(* update_fdt_memmap looks /chosen up again and replaces the placeholders, *)
(* or the values of an earlier map, one after the other.                   *)
MapProps == SubSeq(Told, 2, 5)

UpdateMemmap ==
  /\ at = "ready" /\ round < Rounds
  /\ LET Write(r, p) ==
           Then(r, LAMBDA f : SetPropInplace(f, Chosen(fdt), p.name,
                                             [len |-> p.len, data |-> round + 1]))
         start == Write(Done(fdt), MapProps[1])
         size == Write(start, MapProps[2])
         desc == Write(size, MapProps[3])
         r == IF Chosen(fdt) = NotFound THEN Fails("NOTFOUND", fdt)
              ELSE Write(desc, MapProps[4])
     IN  fdt' = r.fdt /\ at' = IF r.err = "none" THEN at ELSE "memmap_failed"
  /\ round' = round + 1
  /\ UNCHANGED <<orig, bufsize, cmdline, node, told>>

Next ==
  \/ OpenTree \/ UpdateCellSize \/ DelReservations
  \/ FindChosen \/ AddChosen \/ SetBootargs
  \/ Tell \/ PackTree \/ UpdateMemmap

Spec == Init /\ [][Next]_vars

-----------------------------------------------------------------------------
TypeOK ==
  /\ orig = NoTree \/ orig \in Trees
  /\ bufsize \in BufSizes /\ cmdline \in CmdLines
  /\ at \in {"open", "cells", "reserved", "chosen", "bootargs", "told", "ready",
             "too_small", "load_error", "memmap_failed"}
  /\ node \in Nat /\ told \in 1..(Len(Told) + 1) /\ round \in 0..Rounds

(* The tree that is worked on: the one to begin with while there is none   *)
(* in the buffer.                                                          *)
Original == IF orig = NoTree THEN EmptyTree ELSE orig
Tree == IF fdt = NoTree THEN Original ELSE fdt

(* Between two calls of libfdt the blocks of the tree lie in the buffer in *)
(* order, each as long as the header says: every later fdt_splice_ moves   *)
(* whole blocks and no call answers FDT_ERR_BADLAYOUT.                     *)
HeaderSound == fdt # NoTree => Sound(fdt) /\ fdt.total <= bufsize

(* What may change in it.                                                  *)
RootPath == <<RootName>>
ChosenPath == <<RootName, "chosen">>
RootProps == {"#address-cells", "#size-cells"}
ChosenProps == {"bootargs"} \cup {Told[i].name : i \in 1..Len(Told)}

(* The tree as its reader sees it changes in /chosen and, when it was      *)
(* empty, in the cell sizes of the root only, one call of libfdt at a      *)
(* time; moving the blocks, packing and a call that fails change nothing.  *)
Abstract ==
  INSTANCE DeviceTree WITH
    RootPath <- RootPath, ChosenPath <- ChosenPath,
    RootProps <- RootProps, ChosenProps <- ChosenProps,
    nodes <- Paths(Tree), props <- Properties(Tree)
TreeSpec == Abstract!Spec

(* The kernel gets a packed tree without memory reservations in which      *)
(* /chosen has the command line and the memory map of the last call.       *)
ValueOf(name) ==
  LET j == GetProperty(fdt, Chosen(fdt), name)
  IN  IF j = NotFound THEN NoTree ELSE fdt.struct[j].value

KernelIsTold ==
  at = "ready" =>
    /\ fdt.reserved = 0 /\ fdt.total = DataSize(fdt)
    /\ cmdline.len > 1 => ValueOf("bootargs") = cmdline
    /\ ValueOf("linux,uefi-system-table").len = 8
    /\ \A i \in 1..Len(MapProps) :
         ValueOf(MapProps[i].name) = [len |-> MapProps[i].len, data |-> round]

(* Behind the call of ExitBootServices nothing may fail: once update_fdt   *)
(* has succeeded the values of the memory map fit their placeholders,      *)
(* whatever properties of these names the firmware's tree had.             *)
InPlaceFits == at # "memmap_failed"

(* What update_fdt adds to the tree at most.                               *)
PropBytes(name, len) == Bytes(Prop(<<1, name>>, [len |-> len])) + Length[name] + 1
Added ==
  StructBytes(<<BeginNode("chosen"), EndNode>>)
    + PropBytes("bootargs", cmdline.len)
    + PropBytes("#address-cells", 4) + PropBytes("#size-cells", 4)
    + SumOf([i \in 1..Len(Told) |-> PropBytes(Told[i].name, Told[i].len)])

(* update_fdt runs out of space only in a buffer that has no room for the  *)
(* original tree and all that is added.                                    *)
EnoughRoom == at = "too_small" => bufsize < Original.total + Added

(* Every string added to the table is the name of a property, also when    *)
(* there was room for the name and none for the property.                  *)
NoOrphanStrings ==
  fdt # NoTree =>
    \A i \in (Len(Original.strings) + 1)..Len(fdt.strings) :
      \E j \in 1..Len(fdt.struct) :
        IsTag(fdt, j, "PROP") /\ fdt.struct[j].nameoff[1] = i

(* The tree is sound after every call of update_fdt, its room was enough   *)
(* or refused for want of it, what is written in place fits, and no failed *)
(* call leaves a string nobody names.                                      *)
BlobSound ==
  /\ TypeOK
  /\ HeaderSound
  /\ InPlaceFits
  /\ EnoughRoom
  /\ NoOrphanStrings
=============================================================================
