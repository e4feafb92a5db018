-------------------------------- MODULE Fdt ---------------------------------
(***************************************************************************)
(* The flattened device tree as libfdt keeps it in a buffer: the memory    *)
(* reservations, the structure block with its tags, the strings block with *)
(* the names of the properties, and a header that says where the blocks    *)
(* begin and how long they are.  A tag is one element of the structure     *)
(* block; its offset is its index.  A name's offset says in which string   *)
(* of the table it ends: <<string, name>>.                                 *)
(***************************************************************************)
EXTENDS Align, SequencesExt, FiniteSetsExt

CONSTANTS
  Length,     (* the length of every name                                  *)
  EndsWith    (* the pairs of names of which the first ends with the second *)

Names == DOMAIN Length

ASSUME NamesAssumption ==
  /\ \A name \in Names : Length[name] \in Nat
  /\ "?" \notin Names

HeaderSize == 40
ReserveEntrySize == 16
TagSize == 4
Tagalign(x) == RoundUp(x, TagSize)

-----------------------------------------------------------------------------
(* Tags.                                                                   *)
BeginNode(name) == [tag |-> "BEGIN_NODE", name |-> name]
Prop(nameoff, value) == [tag |-> "PROP", nameoff |-> nameoff, value |-> value]
EndNode == [tag |-> "END_NODE"]
Nop == [tag |-> "NOP"]
End == [tag |-> "END"]

TagsOf(values) ==
  [tag : {"BEGIN_NODE"}, name : Names]
    \cup [tag : {"PROP"}, nameoff : Nat \X Names, value : values]
    \cup [tag : {"END_NODE", "NOP", "END"}]

(* A value is its length and what it holds.                                *)
Bytes(t) ==
  CASE t.tag = "BEGIN_NODE" -> TagSize + Tagalign(Length[t.name] + 1)
    [] t.tag = "PROP" -> 3 * TagSize + Tagalign(t.value.len)
    [] OTHER -> TagSize

SumOf(sizes) ==
  LET upTo[n \in 0..Len(sizes)] == IF n = 0 THEN 0 ELSE upTo[n - 1] + sizes[n]
  IN  upTo[Len(sizes)]
StructBytes(s) == SumOf([i \in 1..Len(s) |-> Bytes(s[i])])
StringBytes(s) == SumOf([i \in 1..Len(s) |-> Length[s[i]] + 1])
ReserveBytes(f) == (f.reserved + 1) * ReserveEntrySize

-----------------------------------------------------------------------------
(* Reading.                                                                *)
SpelledAt(f, nameoff) ==
  IF /\ nameoff[1] \in 1..Len(f.strings)
     /\ \/ f.strings[nameoff[1]] = nameoff[2]
        \/ <<f.strings[nameoff[1]], nameoff[2]>> \in EndsWith
    THEN nameoff[2] ELSE "?"

IsTag(f, i, tag) == f.struct[i].tag = tag

(* How deep the tag j is below the node at i.                              *)
Depth(f, i, j) ==
  Cardinality({n \in (i + 1)..j : IsTag(f, n, "BEGIN_NODE")}) -
  Cardinality({n \in (i + 1)..j : IsTag(f, n, "END_NODE")})

NotFound == 0
FirstOf(S) == IF S = {} THEN NotFound ELSE Min(S)

(* fdt_subnode_offset: the child of a node that has a name.                *)
SubnodeOffset(f, parent, name) ==
  LET j == FirstOf({i \in (parent + 1)..Len(f.struct) :
                      /\ IsTag(f, i, "BEGIN_NODE") /\ f.struct[i].name = name
                      /\ Depth(f, parent, i) = 1})
  IN  IF \E i \in parent..j : Depth(f, parent, i) < 0 THEN NotFound ELSE j

(* The tags behind a node that are its properties.                         *)
PropertiesOf(f, node) ==
  LET end == Min({j \in (node + 1)..Len(f.struct) :
                    f.struct[j].tag \notin {"PROP", "NOP"}})
  IN  {j \in (node + 1)..(end - 1) : IsTag(f, j, "PROP")}

(* fdt_get_property: the first property of a node with a name.             *)
GetProperty(f, node, name) ==
  FirstOf({j \in PropertiesOf(f, node) :
             SpelledAt(f, f.struct[j].nameoff) = name})

FindString(f, name) ==
  FirstOf({i \in 1..Len(f.strings) : SpelledAt(f, <<i, name>>) = name})

(* A tree that can be read: a node with a tag behind it, the last of all   *)
(* the end, and every property has its name in the strings.                *)
TreesOf(values) ==
  [version : Nat, reserved : Nat, struct : Seq(TagsOf(values)), strings : Seq(Names),
   offRsv : Nat, offStruct : Nat, offStrings : Nat,
   sizeStruct : Nat, sizeStrings : Nat, total : Nat]

Readable(f) ==
  /\ Len(f.struct) > 1
  /\ IsTag(f, 1, "BEGIN_NODE") /\ IsTag(f, Len(f.struct), "END")
  /\ \A j \in 1..Len(f.struct) :
       IsTag(f, j, "PROP") => f.struct[j].nameoff[1] \in 1..Len(f.strings)

-----------------------------------------------------------------------------
(* Every function that writes returns an error and the tree it leaves.     *)
Done(f) == [err |-> "none", fdt |-> f]
Fails(err, f) == [err |-> err, fdt |-> f]

(* Goes on behind a call that has not failed.                              *)
Then(r, Step(_)) == IF r.err # "none" THEN r ELSE Step(r.fdt)

DataSize(f) == f.offStrings + f.sizeStrings

(* fdt_splice_: is there room to replace old bytes by new ones?            *)
Splices(f, old, new) == DataSize(f) - old + new <= f.total

(* fdt_splice_struct_: the tags from..from+n-1 are replaced.               *)
SpliceStruct(f, from, n, tags) ==
  LET Replace(old, new) ==
        IF ~Splices(f, old, new) THEN Fails("NOSPACE", f)
        ELSE Done([f EXCEPT
          !.struct = SubSeq(@, 1, from - 1) \o tags \o SubSeq(@, from + n, Len(@)),
          !.sizeStruct = @ - old + new,
          !.offStrings = @ - old + new])
  IN  Replace(StructBytes(SubSeq(f.struct, from, from + n - 1)), StructBytes(tags))

(* fdt_del_mem_rsv                                                         *)
DelMemRsv(f) ==
  [f EXCEPT !.reserved = @ - 1,
            !.offStruct = @ - ReserveEntrySize,
            !.offStrings = @ - ReserveEntrySize]

(* fdt_find_add_string_: a name that no string of the table ends with is   *)
(* added at its end.                                                       *)
AddString(f, name) ==
  IF FindString(f, name) # NotFound THEN Done(f)
  ELSE IF ~Splices(f, 0, Length[name] + 1) THEN Fails("NOSPACE", f)
  ELSE Done([f EXCEPT !.strings = Append(@, name),
                      !.sizeStrings = @ + Length[name] + 1])

PutProperty(f, node, name, value) ==
  SpliceStruct(f, node + 1, 0, <<Prop(<<FindString(f, name), name>>, value)>>)

AddProperty_Keeps(f, node, name, value) ==  \* mutation: no rollback
  Then(AddString(f, name), LAMBDA g : PutProperty(g, node, name, value))

(* fdt_add_property_: in front of the other properties of the node.  When  *)
(* there is no room for it, its name is taken back.                        *)
AddProperty(f, node, name, value) ==
  LET OrTakeBack(r) == IF r.err = "none" THEN r ELSE Fails(r.err, f)
  IN  OrTakeBack(Then(AddString(f, name), LAMBDA g : PutProperty(g, node, name, value)))

(* fdt_setprop                                                             *)
SetProp(f, node, name, value) ==
  LET Set(j) == IF j = NotFound THEN AddProperty(f, node, name, value)
                ELSE SpliceStruct(f, j, 1, <<Prop(f.struct[j].nameoff, value)>>)
  IN  Set(GetProperty(f, node, name))

(* fdt_setprop_inplace: only a value of the same length.                   *)
SetPropInplace(f, node, name, value) ==
  LET Overwrite(j) ==
        IF j = NotFound THEN Fails("NOTFOUND", f)
        ELSE IF f.struct[j].value.len # value.len THEN Fails("NOSPACE", f)
        ELSE Done([f EXCEPT !.struct[j].value = value])
  IN  Overwrite(GetProperty(f, node, name))

AddSubnode_First(f, parent, name) ==   \* mutation: in front of the properties
  SpliceStruct(f, parent + 1, 0, <<BeginNode(name), EndNode>>)

(* fdt_add_subnode, for a name the parent has no child of: behind the      *)
(* properties of the parent.                                               *)
AddSubnode(f, parent, name) ==
  LET behind == Min({j \in (parent + 1)..Len(f.struct) :
                       f.struct[j].tag \notin {"PROP", "NOP"}})
  IN  SpliceStruct(f, behind, 0, <<BeginNode(name), EndNode>>)

(* fdt_blocks_misordered_                                                  *)
Misordered(f) ==
  \/ f.offRsv < HeaderSize
  \/ f.offStruct < f.offRsv + ReserveBytes(f)
  \/ f.offStrings < f.offStruct + StructBytes(f.struct)
  \/ f.total < DataSize(f)

(* fdt_packblocks_: the blocks in order, without gaps.                     *)
PackBlocks(f) ==
  LET struct == HeaderSize + ReserveBytes(f)
  IN  [f EXCEPT !.offRsv = HeaderSize, !.offStruct = struct,
                !.offStrings = struct + StructBytes(f.struct),
                !.sizeStruct = StructBytes(f.struct)]

(* fdt_open_into another buffer: a tree that is in order is copied as it   *)
(* is; version 16 does not have the size of its structure block.           *)
OpenInto(f, bufsize) ==
  LET newsize == DataSize(PackBlocks(f))
  IN  IF f.version < 16 THEN Fails("BADVERSION", f)
      ELSE IF ~Misordered(f)
        THEN IF f.total > bufsize THEN Fails("NOSPACE", f)
             ELSE Done([f EXCEPT !.version = 17, !.total = bufsize,
                                 !.sizeStruct = StructBytes(f.struct)])
      ELSE IF bufsize < newsize THEN Fails("NOSPACE", f)
      ELSE Done([PackBlocks(f) EXCEPT !.version = 17, !.total = bufsize])

(* fdt_pack                                                                *)
Pack(f) == LET p == PackBlocks(f) IN [p EXCEPT !.total = DataSize(p)]

(* The root has no name.                                                   *)
RootName == ""

(* fdt_create_empty_tree: a root and nothing else.  The sequential writer  *)
(* aligns the header to a reserve entry.                                   *)
RootOnly == <<BeginNode(RootName), EndNode, End>>

EmptyTree ==
  LET rsv == RoundUp(HeaderSize, ReserveEntrySize)
      struct == rsv + ReserveEntrySize
      strings == struct + StructBytes(RootOnly)
  IN  [version |-> 17, reserved |-> 0, struct |-> RootOnly, strings |-> <<>>,
       offRsv |-> rsv, offStruct |-> struct, offStrings |-> strings,
       sizeStruct |-> StructBytes(RootOnly), sizeStrings |-> 0, total |-> strings]

CreateEmptyTree(bufsize) ==
  IF bufsize < EmptyTree.total THEN Fails("NOSPACE", EmptyTree)
  ELSE OpenInto(EmptyTree, bufsize)

-----------------------------------------------------------------------------
(* The header tells the truth: the blocks lie one behind the other in the  *)
(* buffer and have the sizes the header gives them.                        *)
Sound(f) ==
  /\ f.sizeStruct = StructBytes(f.struct)
  /\ f.sizeStrings = StringBytes(f.strings)
  /\ ~Misordered(f)

(* What a reader of the tree finds in it: the paths of the nodes and the   *)
(* values of the properties.                                               *)
Nodes(f) == {j \in 1..Len(f.struct) : IsTag(f, j, "BEGIN_NODE")}

(* The path behind a tag.                                                  *)
EnterTag(path, t) ==
  CASE t.tag = "BEGIN_NODE" -> Append(path, t.name)
    [] t.tag = "END_NODE" -> Front(path)
    [] OTHER -> path

PathOf(f, j) ==
  LET path[i \in 0..Len(f.struct)] ==
        IF i = 0 THEN <<>> ELSE EnterTag(path[i - 1], f.struct[i])
  IN  path[j]

Paths(f) == {PathOf(f, j) : j \in Nodes(f)}

Properties(f) ==
  LET keys == UNION {{<<j, SpelledAt(f, f.struct[i].nameoff)>> :
                        i \in PropertiesOf(f, j)} : j \in Nodes(f)}
  IN  {<<PathOf(f, key[1]), key[2],
         f.struct[GetProperty(f, key[1], key[2])].value>> : key \in keys}
=============================================================================
