------------------------------ MODULE FdtEdit -------------------------------
(***************************************************************************)
(* A caller edits a tree in a buffer, in any order: with the functions     *)
(* that make and take room (fdt_rw.c), with those that write in place      *)
(* (fdt_wip.c), and with phandles generated for its nodes.                 *)
(***************************************************************************)
EXTENDS FdtRead

CONSTANTS
  EditStarts,    (* the trees to begin with, and how many calls are made   *)
  NodeNames, PropNames, PropValues   (* what the caller writes             *)

VARIABLES
  tree,
  calls,         (* the number of calls still to be made                   *)
  inPlace        (* the last call was of a function that writes in place   *)

editVars == <<tree, calls, inPlace>>

EditInit ==
  /\ inPlace = FALSE
  /\ \E s \in EditStarts : tree = s.tree /\ calls = s.calls

(* The result of a call; an error leaves what the call has done so far.    *)
Call(r) ==
  /\ calls > 0 /\ calls' = calls - 1
  /\ tree' = r.fdt /\ inPlace' = FALSE
CallInPlace(r) ==
  /\ calls > 0 /\ calls' = calls - 1
  /\ tree' = r.fdt /\ inPlace' = TRUE

Inner(f) == Nodes(f) \ {1}        \* the root stays

-----------------------------------------------------------------------------
(* fdt_add_subnode                                                         *)
AddNewSubnode(f, parent, name) ==
  IF SubnodeOffset(f, parent, name) # NotFound THEN Fails("EXISTS", f)
  ELSE AddSubnode(f, parent, name)

DelNode_Shallow(f, node) ==       \* mutation: up to the first END_NODE
  LET end == Min({j \in node..Len(f.struct) : IsTag(f, j, "END_NODE")})
  IN  SpliceStruct(f, node, end + 1 - node, <<>>)

DelNode(f, node) == SpliceStruct(f, node, NodeEnd(f, node) - node, <<>>)

SetName(f, node, name) == SpliceStruct(f, node, 1, <<BeginNode(name)>>)

AppendProp(f, node, name, value) ==
  LET j == GetProperty(f, node, name)
      old == f.struct[j].value
  IN  IF j = NotFound THEN AddProperty(f, node, name, value)
      ELSE SpliceStruct(f, j, 1, <<Prop(f.struct[j].nameoff,
             [len |-> old.len + value.len, data |-> old.data \o value.data])>>)

DelProp(f, node, name) ==
  LET j == GetProperty(f, node, name)
  IN  IF j = NotFound THEN Fails("NOTFOUND", f) ELSE SpliceStruct(f, j, 1, <<>>)

(* fdt_nop_region_: a NOP for every four bytes.                            *)
NopRegion(f, from, n) ==
  LET bytes == StructBytes(SubSeq(f.struct, from, from + n - 1))
  IN  [f EXCEPT !.struct = SubSeq(@, 1, from - 1) \o [j \in 1..(bytes \div TagSize) |-> Nop]
                             \o SubSeq(@, from + n, Len(@))]

NopProperty(f, node, name) ==
  LET j == GetProperty(f, node, name)
  IN  IF j = NotFound THEN Fails("NOTFOUND", f) ELSE Done(NopRegion(f, j, 1))

NopNode(f, node) == Done(NopRegion(f, node, NodeEnd(f, node) - node))

(* fdt_setprop_inplace_namelen_partial, for one cell.                      *)
SetPropPartial(f, node, name, cell, word) ==
  LET j == GetProperty(f, node, name)
  IN  IF j = NotFound THEN Fails("NOTFOUND", f)
      ELSE IF f.struct[j].value.len < 4 * cell THEN Fails("NOSPACE", f)
      ELSE Done([f EXCEPT !.struct[j].value.data[cell] = word])

-----------------------------------------------------------------------------
EditNode ==
  \E n \in Nodes(tree), name \in NodeNames :
    \/ Call(AddNewSubnode(tree, n, name))
    \/ n \in Inner(tree) /\ Call(DelNode(tree, n))
    \/ n \in Inner(tree) /\ CallInPlace(NopNode(tree, n))
    \* A caller gives no node the name of its sibling.
    \/ /\ n \in Inner(tree)
       /\ SubnodeOffset(tree, ParentOffset(tree, n), name) = NotFound
       /\ Call(SetName(tree, n, name))

EditProperty ==
  \E n \in Nodes(tree), name \in PropNames :
    \/ \E value \in PropValues :
         \/ Call(SetProp(tree, n, name, value))
         \/ Call(AppendProp(tree, n, name, value))
         \/ CallInPlace(SetPropInplace(tree, n, name, value))
    \/ Call(DelProp(tree, n, name))
    \/ CallInPlace(NopProperty(tree, n, name))
    \/ \E cell \in 1..2 : CallInPlace(SetPropPartial(tree, n, name, cell, 7))

(* A node without a phandle gets one, to be referred to.                   *)
GivePhandle ==
  \E n \in Nodes(tree), name \in {"phandle", "linux,phandle"} :
    LET g == GeneratePhandle(tree)
    IN  /\ GetPhandle(tree, n) = 0 /\ g.err = "none"
        /\ Call(SetProp(tree, n, name, [len |-> 4, data |-> <<g.phandle>>]))

EditNext == EditNode \/ EditProperty \/ GivePhandle

-----------------------------------------------------------------------------
(* The header of the tree tells the truth behind every call and the tree   *)
(* stays in its buffer.                                                    *)
EditTypeOK ==
  /\ Sound(tree) /\ calls \in Nat /\ inPlace \in BOOLEAN
  /\ \E s \in EditStarts : s.tree.total = tree.total

(* Every call of fdt_rw.c and fdt_wip.c is a change of one node or of one  *)
(* property as the reader of the tree sees it, with NOPs left in any place *)
(* and names that share a string; a call that fails is none.               *)
Edited == INSTANCE NodeTree WITH nodes <- Paths(tree), props <- Properties(tree)
EditSpec == [][Edited!Next]_editVars

(* fdt_get_path and fdt_path_offset are inverse, in every tree the calls   *)
(* leave, and fdt_get_path wants for no more room than the path takes,     *)
(* whatever longer names it has met on its way.                            *)
PathsAgree ==
  \A n \in Nodes(tree) :
    LET path == PathOf(tree, n)
        room == IF n = 1 THEN 2 ELSE PathBytes(path)
    IN  /\ PathOffset(tree, path) = n
        /\ \A buflen \in 0..8 :
             GetPath(tree, n, buflen) =
               IF buflen < room THEN Fails("NOSPACE", <<>>) ELSE Done(path)

(* Walking down finds the nodes from which walking up comes back, in the   *)
(* order of the tree.                                                      *)
WalksAgree ==
  \A n \in Nodes(tree) :
    LET below == {c \in Inner(tree) : ParentOffset(tree, c) = n}
        path == PathOf(tree, n)
        end == NodeEnd(tree, n)
    IN  /\ Subnodes(tree, n) = Ordered(below)
        /\ NodeDepth(tree, n) = Len(path) - 1
        /\ \A c \in Nodes(tree) :
             c > n /\ c < end <=> IsStrictPrefix(path, PathOf(tree, c))

(* No two nodes have the same phandle, also when the highest of them were  *)
(* deleted or overwritten by a NOP in the meantime.                        *)
PhandlesDistinct ==
  \A m, n \in Nodes(tree) :
    GetPhandle(tree, m) # 0 /\ m # n => GetPhandle(tree, m) # GetPhandle(tree, n)

(* A function that writes in place moves no node: the offsets a caller has *)
(* of the nodes that stay are good.                                        *)
ByteOffset(f, j) == StructBytes(SubSeq(f.struct, 1, j - 1))
NodesAt(f) == {<<PathOf(f, j), ByteOffset(f, j)>> : j \in Nodes(f)}
NodesStay == [][inPlace' => NodesAt(tree') \subseteq NodesAt(tree)]_editVars

(* Each call is the edit of the abstract tree that its name says, and one  *)
(* that writes in place leaves every node where it was.                    *)
EditsKept == EditSpec /\ NodesStay

(* Whatever was edited, the tree is sound, the readers of fdt_ro.c agree   *)
(* with each other on paths, children and depths, and no two nodes have    *)
(* one phandle.                                                            *)
ReadersAgree ==
  /\ EditTypeOK
  /\ PathsAgree
  /\ WalksAgree
  /\ PhandlesDistinct
=============================================================================
