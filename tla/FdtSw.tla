------------------------------- MODULE FdtSw --------------------------------
(***************************************************************************)
(* The sequential writer (fdt_sw.c): a tree is written tag by tag into a   *)
(* buffer, the structure block growing from the front and the names of the *)
(* properties from the back, until fdt_finish joins them.  The fields of   *)
(* the header keep the state of the writer.  A caller that runs out of     *)
(* room moves the tree into another buffer and goes on.                    *)
(***************************************************************************)
EXTENDS Fdt

CONSTANTS
  Buffers,       (* the buffers, as their address and their size           *)
  SwNodeNames, SwPropNames, SwLens,  (* what the caller writes             *)
  MaxTags, MaxReserves   (* how much of it                                 *)

(* The names are shorter than the buffers: fdt_add_string_ subtracts the   *)
(* length from the size of the buffer, without a sign.                     *)
ASSUME SwNamesFit ==
  /\ \A b \in Buffers : b.at \in Nat /\ b.size \in Nat
  /\ SwNodeNames \cup SwPropNames \subseteq Names /\ SwLens \subseteq Nat
  /\ MaxReserves \in Nat
  /\ \A name \in SwPropNames, b \in Buffers : Length[name] + 1 < b.size

VARIABLES
  sw,        (* the tree that is written; its strings as they lie in the   *)
             (* buffer, the last one added first                           *)
  place,     (* the buffer                                                 *)
  dedup,     (* created without FDT_CREATE_FLAG_NO_NAME_DEDUP              *)
  swErr      (* the answer to the last call                                *)

swVars == <<sw, place, dedup, swErr>>

NoSw == [magic |-> "none"]
SwHeader == RoundUp(HeaderSize, ReserveEntrySize)

(* fdt_create_with_flags                                                   *)
SwCreated(size) ==
  [magic |-> "SW", version |-> 17, reserved |-> 0, struct |-> <<>>, strings |-> <<>>,
   offRsv |-> SwHeader, offStruct |-> SwHeader, offStrings |-> 0,
   sizeStruct |-> 0, sizeStrings |-> 0, total |-> size]

SwInit ==
  /\ place \in Buffers /\ dedup \in BOOLEAN
  /\ IF place.size < SwHeader THEN sw = NoSw /\ swErr = "NOSPACE"
     ELSE sw = SwCreated(place.size) /\ swErr = "none"

-----------------------------------------------------------------------------
(* fdt_sw_probe_memrsv_ and fdt_sw_probe_struct_                           *)
InMemrsv(f) == f.magic = "SW" /\ f.offStrings = 0
InStruct(f) == f.magic = "SW" /\ f.offStrings = f.total

Answer(r) ==
  /\ sw # NoSw
  /\ sw' = r.fdt /\ swErr' = r.err
  /\ UNCHANGED <<place, dedup>>

(* fdt_grab_space_, for a tag at the end of the structure block.           *)
GrabSpace(f, t) ==
  IF f.sizeStruct + Bytes(t) > f.total - f.offStruct - f.sizeStrings
    THEN Fails("NOSPACE", f)
  ELSE Done([f EXCEPT !.struct = Append(@, t), !.sizeStruct = @ + Bytes(t)])

AddReserve(f) ==
  IF ~InMemrsv(f) THEN Fails("BADSTATE", f)
  ELSE IF f.offStruct + ReserveEntrySize > f.total THEN Fails("NOSPACE", f)
  ELSE Done([f EXCEPT !.offStruct = @ + ReserveEntrySize])

AddReservemapEntry ==
  /\ sw # NoSw /\ sw.reserved < MaxReserves
  /\ LET r == AddReserve(sw)
     IN  Answer(IF r.err = "none" THEN Done([r.fdt EXCEPT !.reserved = @ + 1]) ELSE r)

FinishReservemap ==
  LET r == AddReserve(sw)
  IN  Answer(IF r.err = "none" THEN Done([r.fdt EXCEPT !.offStrings = r.fdt.total])
             ELSE r)

(* fdt_begin_node and fdt_end_node.                                        *)
WriteTag(f, t) == IF ~InStruct(f) THEN Fails("BADSTATE", f) ELSE GrabSpace(f, t)

BeginANode ==
  \E name \in SwNodeNames :
    sw # NoSw /\ Len(sw.struct) < MaxTags /\ Answer(WriteTag(sw, BeginNode(name)))

EndANode == sw # NoSw /\ Len(sw.struct) < MaxTags /\ Answer(WriteTag(sw, EndNode))

(* A name is counted from the end of the strings, which stays where it is  *)
(* while names are added in front.                                         *)
FromEnd(f, i) == i - Len(f.strings) - 1

SwAddString(f, name) ==
  LET size == f.sizeStrings + Length[name] + 1
  IN  IF f.total - size < f.offStruct + f.sizeStruct THEN Fails("NOSPACE", f)
      ELSE Done([f EXCEPT !.strings = <<name>> \o @, !.sizeStrings = size])

SwFindAddString(f, name) ==
  IF dedup /\ FindString(f, name) # NotFound THEN Done(f) ELSE SwAddString(f, name)

SwProperty_Keeps(f, name, len) ==  \* mutation: the name is not taken back
  LET named == SwFindAddString(f, name)
      at == FromEnd(named.fdt, FindString(named.fdt, name))
      added == GrabSpace(named.fdt, Prop(<<at, name>>, [len |-> len]))
  IN  IF ~InStruct(f) THEN Fails("BADSTATE", f) ELSE IF named.err # "none" THEN named
      ELSE added

SwProperty(f, name, len) ==
  LET named == SwFindAddString(f, name)
      at == FromEnd(named.fdt, FindString(named.fdt, name))
      added == GrabSpace(named.fdt, Prop(<<at, name>>, [len |-> len]))
  IN  IF ~InStruct(f) THEN Fails("BADSTATE", f)
      ELSE IF named.err # "none" THEN named
      ELSE IF added.err # "none" THEN Fails(added.err, f)
      ELSE added

PropertyPlaceholder ==
  \E name \in SwPropNames, len \in SwLens :
    sw # NoSw /\ Len(sw.struct) < MaxTags /\ Answer(SwProperty(sw, name, len))

(* fdt_finish: the strings are joined to the structure, their offsets      *)
(* counted from their beginning.                                           *)
Joined_Stale(f) ==                \* mutation: the offsets stay as they are
  LET strings == f.offStruct + f.sizeStruct
  IN  [f EXCEPT !.magic = "FDT", !.offStrings = strings, !.total = strings + f.sizeStrings]

Joined(f) ==
  LET strings == f.offStruct + f.sizeStruct
      fixed(t) == IF t.tag = "PROP" THEN [t EXCEPT !.nameoff[1] = @ + Len(f.strings) + 1]
                  ELSE t
  IN  [f EXCEPT !.magic = "FDT", !.offStrings = strings,
                !.struct = [j \in DOMAIN f.struct |-> fixed(f.struct[j])],
                !.total = strings + f.sizeStrings]

SwFinish ==
  LET r == WriteTag(sw, End)
  IN  Answer(IF r.err = "none" THEN Done(Joined(r.fdt)) ELSE r)

-----------------------------------------------------------------------------
(* fdt_resize.  The front and the back are moved one after the other; a    *)
(* block that the first move has written over is garbage.                  *)
Lost(tags) == [j \in DOMAIN tags |-> [tag |-> "?"]]
LostNames(names) == [j \in DOMAIN names |-> "?"]
Meets(from1, len1, from2, len2) ==
  len1 > 0 /\ len2 > 0 /\ from1 < from2 + len2 /\ from2 < from1 + len1

ResizeInto(f, b) ==
  LET head == f.offStruct + f.sizeStruct
      tail == f.sizeStrings
      oldtail == place.at + f.total - tail
      newtail == b.at + b.size - tail
      headFirst == b.at <= place.at
      lost == IF headFirst THEN Meets(b.at, head, oldtail, tail)
              ELSE Meets(newtail, tail, place.at, head)
  IN  [f EXCEPT !.total = b.size,
                !.offStrings = IF @ = 0 THEN 0 ELSE b.size,
                !.struct = IF lost /\ ~headFirst THEN Lost(@) ELSE @,
                !.strings = IF lost /\ headFirst THEN LostNames(@) ELSE @]

Resize ==
  \E b \in Buffers :
    /\ sw # NoSw /\ sw.magic = "SW" /\ b # place
    /\ IF sw.offStruct + sw.sizeStruct + sw.sizeStrings > b.size
         THEN Answer(Fails("NOSPACE", sw))
       ELSE sw' = ResizeInto(sw, b) /\ place' = b /\ swErr' = "none" /\ UNCHANGED dedup

SwNext ==
  \/ AddReservemapEntry \/ FinishReservemap
  \/ BeginANode \/ EndANode \/ PropertyPlaceholder \/ SwFinish \/ Resize

-----------------------------------------------------------------------------
SwTypeOK ==
  /\ place \in Buffers /\ dedup \in BOOLEAN /\ swErr \in {"none", "NOSPACE", "BADSTATE"}
  /\ sw # NoSw =>
       /\ sw.sizeStruct = StructBytes(sw.struct) /\ sw.sizeStrings = StringBytes(sw.strings)
       /\ sw.reserved \in 0..MaxReserves /\ sw.total <= place.size

(* The structure block and the names never meet, however the calls and the *)
(* moves follow one another.                                               *)
BlocksApart ==
  sw # NoSw => sw.offStruct + sw.sizeStruct <= sw.total - sw.sizeStrings

(* The tree that fdt_finish leaves is one that every reader accepts, and   *)
(* as short as it can be.                                                  *)
FinishedSound ==
  sw # NoSw /\ sw.magic = "FDT" => Sound(sw) /\ sw.total = DataSize(sw)

(* No name is in the strings for which there is no property: a call that   *)
(* found no room has taken it back, whether names are shared or not.       *)
SwNoOrphans ==
  sw # NoSw /\ sw.magic = "SW" =>
    \A i \in 1..Len(sw.strings) :
      \E j \in 1..Len(sw.struct) : IsTag(sw, j, "PROP")
                                     /\ sw.struct[j].nameoff[1] = FromEnd(sw, i)

(* What has been written, as the reader will find it.                      *)
Written(f) ==
  LET count == IF f.magic = "SW" THEN Len(f.strings) + 1 ELSE 0
      read(t) == IF t.tag # "PROP" THEN t
                 ELSE [tag |-> "PROP", len |-> t.value.len,
                       name |-> SpelledAt(f, <<t.nameoff[1] + count, t.nameoff[2]>>)]
  IN  [j \in DOMAIN f.struct |-> read(f.struct[j])]

Document ==
  INSTANCE TagStream WITH
    Tags <- {BeginNode(name) : name \in SwNodeNames} \cup {EndNode}
              \cup [tag : {"PROP"}, len : SwLens, name : SwPropNames],
    phase <- IF sw = NoSw THEN "none" ELSE IF sw.magic = "FDT" THEN "complete"
             ELSE IF sw.offStrings = 0 THEN "memrsv" ELSE "struct",
    reserves <- IF sw = NoSw THEN 0 ELSE sw.reserved,
    tags <- IF sw = NoSw THEN <<>> ELSE Written(sw),
    answer <- swErr

(* The writer appends: a call in its state adds one tag, with the name and *)
(* the value it was given; a call that is refused, for its state or for    *)
(* want of room, a move to another buffer and the fix-ups of fdt_finish    *)
(* leave everything as it was written.                                     *)
SwSpec == Document!Spec

(* What the writer does by itself, from the moment it was created.         *)
SwBehaviour == SwInit /\ [][SwNext]_swVars

(* The blocks of a tree that is being written never meet, none of its      *)
(* strings is without a property, and what fdt_finish returns is sound.    *)
WriterSound ==
  /\ SwTypeOK
  /\ BlocksApart
  /\ FinishedSound
  /\ SwNoOrphans
=============================================================================
