------------------------------ MODULE FdtRead -------------------------------
(***************************************************************************)
(* Finding one's way in a flattened tree: every function walks over the    *)
(* tags, from the beginning of the tree or from the node it is given, and  *)
(* counts how deep it is.                                                  *)
(***************************************************************************)
EXTENDS Fdt

CONSTANT
  Words       (* a cell counts modulo this, 2^32 in the code               *)

(* Offsets in the order of the tree.                                       *)
Ordered(S) == SelectSeq([i \in 1..Max({0} \cup S) |-> i], LAMBDA i : i \in S)

Error(err) == [err |-> err, offset |-> NotFound, depth |-> 0]
At(offset, depth) == [err |-> "none", offset |-> offset, depth |-> depth]

(* fdt_next_node with a depth: the next node, or the tag behind the one    *)
(* that ends the surrounding node.                                         *)
NextNode(f, offset, depth) ==
  LET deep(j) == depth + Depth(f, offset, j)
      j == Min({n \in (offset + 1)..Len(f.struct) :
                  \/ f.struct[n].tag \in {"BEGIN_NODE", "END"}
                  \/ IsTag(f, n, "END_NODE") /\ deep(n) < 0})
  IN  IF ~IsTag(f, offset, "BEGIN_NODE") THEN Error("BADOFFSET")
      ELSE CASE IsTag(f, j, "BEGIN_NODE") -> At(j, deep(j))
             [] IsTag(f, j, "END_NODE") -> At(j + 1, deep(j))
             [] OTHER -> Error("NOTFOUND")

FirstSubnode(f, node) ==
  LET r == NextNode(f, node, 0)
  IN  IF r.err # "none" \/ r.depth # 1 THEN NotFound ELSE r.offset

NextSubnode(f, node) ==
  LET walk[offset \in 1..Len(f.struct), depth \in 1..Len(f.struct)] ==
        LET r == NextNode(f, offset, depth)
        IN  IF r.err # "none" \/ r.depth < 1 THEN NotFound
            ELSE IF r.depth > 1 THEN walk[r.offset, r.depth]
            ELSE r.offset
  IN  walk[node, 1]

(* fdt_for_each_subnode                                                    *)
Subnodes(f, node) ==
  LET from[offset \in 0..Len(f.struct)] ==
        IF offset = NotFound THEN <<>>
        ELSE <<offset>> \o from[NextSubnode(f, offset)]
  IN  from[FirstSubnode(f, node)]

(* fdt_node_end_offset_: the tag behind a node.                            *)
NodeEnd(f, node) ==
  LET walk[offset \in 1..Len(f.struct), depth \in Int] ==
        IF depth < 0 THEN offset
        ELSE LET r == NextNode(f, offset, depth) IN walk[r.offset, r.depth]
  IN  walk[node, 0]

(* fdt_supernode_atdepth_offset: the last node at a depth on the way from  *)
(* the root to a node.                                                     *)
SupernodeAtDepth(f, node, supernodedepth) ==
  LET deep(j) == Depth(f, 1, j)
      met == {j \in 1..node : IsTag(f, j, "BEGIN_NODE") /\ deep(j) = supernodedepth}
  IN  IF supernodedepth < 0 \/ supernodedepth > deep(node) THEN Error("NOTFOUND")
      ELSE At(Max(met), deep(node))

NodeDepth(f, node) == SupernodeAtDepth(f, node, 0).depth

ParentOffset(f, node) ==
  SupernodeAtDepth(f, node, NodeDepth(f, node) - 1).offset

(* fdt_get_path.  The buffer holds names, each with the slash behind it;   *)
(* a name that does not fit is left out, and what is below it.             *)
PathBytes(names) == StringBytes(names)

GetPath_Deeper(f, node, buflen) ==   \* mutation: names below one left out
  LET Visit(acc, j) ==
        IF IsTag(f, j, "END_NODE") THEN [acc EXCEPT !.depth = @ - 1]
        ELSE IF ~IsTag(f, j, "BEGIN_NODE") THEN acc
        ELSE LET depth == acc.depth + 1
                 above == SubSeq(acc.path, 1, Min({depth, Len(acc.path)}))
                 longer == Append(above, f.struct[j].name)
             IN  [depth |-> depth,
                  path |-> IF PathBytes(longer) <= buflen
                             THEN longer ELSE above]
      r == FoldLeft(Visit, [depth |-> -1, path |-> <<>>], [j \in 1..node |-> j])
  IN  IF buflen < 2 THEN Fails("NOSPACE", <<>>) ELSE Done(r.path)

GetPath(f, node, buflen) ==
  LET Visit(acc, j) ==
        IF IsTag(f, j, "END_NODE") THEN [acc EXCEPT !.depth = @ - 1]
        ELSE IF ~IsTag(f, j, "BEGIN_NODE") THEN acc
        ELSE LET depth == acc.depth + 1
                 above == SubSeq(acc.path, 1, Min({depth, Len(acc.path)}))
                 longer == Append(above, f.struct[j].name)
             IN  [depth |-> depth,
                  path |-> IF Len(above) = depth /\ PathBytes(longer) <= buflen
                             THEN longer ELSE above]
      r == FoldLeft(Visit, [depth |-> -1, path |-> <<>>], [j \in 1..node |-> j])
  IN  IF buflen < 2 \/ Len(r.path) < r.depth + 1 THEN Fails("NOSPACE", <<>>)
      ELSE Done(r.path)

-----------------------------------------------------------------------------
ValueAt(f, node, name) ==
  LET Held(j) == IF j = NotFound THEN [len |-> -1] ELSE f.struct[j].value
  IN  Held(GetProperty(f, node, name))

(* fdt_path_offset, for a path from the root or from an alias; a path is   *)
(* the names it is made of, and an alias stands for a path from the root.  *)
SubnodesDown(f, node, names) ==
  FoldLeft(LAMBDA n, name : IF n = NotFound THEN n ELSE SubnodeOffset(f, n, name),
           node, names)

PathOffset(f, path) ==
  LET Aliased(value) ==
        IF value.len < 0 THEN NotFound
        ELSE SubnodesDown(f, SubnodesDown(f, 1, Tail(value.data)), Tail(path))
      By(aliases) == IF aliases = NotFound THEN NotFound
                     ELSE Aliased(ValueAt(f, aliases, Head(path)))
  IN  IF Head(path) = "" THEN SubnodesDown(f, 1, Tail(path))
      ELSE By(SubnodeOffset(f, 1, "aliases"))

GetPhandle(f, node) ==
  LET Either(new, old) == IF new.len = 4 THEN new.data[1]
                          ELSE IF old.len = 4 THEN old.data[1] ELSE 0
  IN  Either(ValueAt(f, node, "phandle"), ValueAt(f, node, "linux,phandle"))

FindMaxPhandle(f) == Max({0} \cup {GetPhandle(f, j) : j \in Nodes(f)})

GeneratePhandle(f) ==
  LET max == FindMaxPhandle(f)
  IN  IF max = Words - 2 THEN [err |-> "NOPHANDLES", phandle |-> 0]
      ELSE [err |-> "none", phandle |-> max + 1]

(* fdt_node_offset_by_phandle, and its answer to 0 and -1.                 *)
NodeOffsetByPhandle(f, phandle) ==
  IF phandle \in {0, Words - 1} THEN Error("BADPHANDLE")
  ELSE LET Answer(n) == IF n = NotFound THEN Error("NOTFOUND") ELSE At(n, 0)
       IN  Answer(FirstOf({j \in Nodes(f) : GetPhandle(f, j) = phandle}))
=============================================================================
