----------------------------- MODULE FdtOverlay -----------------------------
(***************************************************************************)
(* fdt_overlay_apply (fdt_overlay.c): overlays are merged into a base      *)
(* tree, one after the other.  The phandles of the overlay are moved above *)
(* those of the base, its references follow them or are set to those of    *)
(* the base, its fragments are merged where they say, and its symbols are  *)
(* added to those of the base.                                             *)
(*                                                                         *)
(* A value is a sequence of cells, or a path, or for a property of         *)
(* /__fixups__ a sequence of [path, name, cell], which is not empty.       *)
(***************************************************************************)
EXTENDS FdtRead

CONSTANTS
  Bases,        (* the base trees, open with some room                     *)
  OverlayPlans  (* the sequences of overlays that are applied to one       *)

VARIABLES
  base, overlay,        (* the trees fdt and fdto                          *)
  baseMagic, overlayMagic,   (* have the trees their magic?                *)
  delta,                (* what the phandles of the overlay are moved by   *)
  fragment,             (* the fragment that is merged next                *)
  oat,                  (* where fdt_overlay_apply is                      *)
  before,               (* base when it was called, and overlay            *)
  plan                  (* the overlays that come after this one           *)

overlayVars ==
  <<base, overlay, baseMagic, overlayMagic, delta, fragment, oat, before, plan>>

OverlayInit ==
  /\ base \in Bases /\ plan \in OverlayPlans
  /\ overlay = Head(plan) /\ before = [base |-> base, overlay |-> overlay]
  /\ baseMagic = TRUE /\ overlayMagic = TRUE
  /\ delta = 0 /\ fragment = NotFound /\ oat = "max_phandle"

(* Behind a step with the result r; on error both trees lose their magic.  *)
Leave(r, next) ==
  IF r.err = "none" THEN oat' = next /\ UNCHANGED <<baseMagic, overlayMagic>>
  ELSE oat' = "failed" /\ baseMagic' = FALSE /\ overlayMagic' = FALSE

ForOverlay(r, next) ==
  overlay' = r.fdt /\ Leave(r, next) /\ UNCHANGED <<base, delta, before, plan>>
ForBase(r, next) ==
  base' = r.fdt /\ Leave(r, next) /\ UNCHANGED <<overlay, delta, before, plan>>

(* Goes on over a sequence until something fails.                          *)
Each(Step(_, _), f, s) ==
  FoldLeft(LAMBDA r, x : Then(r, LAMBDA g : Step(g, x)), Done(f), s)

Below(f, node) == {j \in Nodes(f) : j >= node /\ j < NodeEnd(f, node)}
PropertySeq(f, node) == Ordered(PropertiesOf(f, node))
NameAt(f, j) == SpelledAt(f, f.struct[j].nameoff)

-----------------------------------------------------------------------------
(* fdt_find_max_phandle                                                    *)
FindDelta ==
  /\ oat = "max_phandle"
  /\ delta' = FindMaxPhandle(base) /\ oat' = "adjust"
  /\ UNCHANGED <<base, overlay, baseMagic, overlayMagic, fragment, before, plan>>

(* overlay_phandle_add_offset                                              *)
PhandleAddOffset(f, node, name) ==
  LET j == GetProperty(f, node, name)
      val == f.struct[j].value
      moved == (val.data[1] + delta) % Words
  IN  IF j = NotFound THEN Done(f)
      ELSE IF val.len # 4 THEN Fails("BADPHANDLE", f)
      ELSE IF moved < val.data[1] \/ moved = Words - 1 THEN Fails("NOPHANDLES", f)
      ELSE Done([f EXCEPT !.struct[j].value.data = <<moved>>])

(* overlay_adjust_node_phandles, from the root                             *)
AdjustPhandles(f) ==
  Each(LAMBDA g, j :
         Then(PhandleAddOffset(g, j, "phandle"),
              LAMBDA h : PhandleAddOffset(h, j, "linux,phandle")),
       f, Ordered(Nodes(f)))

Adjust ==
  /\ oat = "adjust"
  /\ ForOverlay(AdjustPhandles(overlay), "local") /\ UNCHANGED fragment

(* fdt_setprop_inplace_namelen_partial, of a cell.                         *)
SetCell(f, node, name, cell, word) ==
  LET j == GetProperty(f, node, name)
  IN  IF j = NotFound THEN Fails("NOTFOUND", f)
      ELSE IF f.struct[j].value.len < 4 * cell THEN Fails("NOSPACE", f)
      ELSE Done([f EXCEPT !.struct[j].value.data[cell] = word])

(* overlay_update_local_node_references: the cells that the properties of  *)
(* the fix-up node name are moved in the node of the tree.                 *)
UpdateReferences_First(f, treeNode, fixupNode) ==  \* mutation: the first cell only
  Each(LAMBDA g, p :
         LET name == NameAt(g, p)
             j == GetProperty(g, treeNode, name)
             cell == g.struct[p].value.data[1]
         IN  SetCell(g, treeNode, name, cell, (g.struct[j].value.data[cell] + delta) % Words),
       f, PropertySeq(f, fixupNode))

UpdateReferences(f, treeNode, fixupNode) ==
  Each(LAMBDA g, p :
         LET name == NameAt(g, p)
             j == GetProperty(g, treeNode, name)
         IN  IF j = NotFound THEN Fails("BADOVERLAY", g)
             ELSE Each(LAMBDA h, cell :
                         IF h.struct[j].value.len < 4 * cell THEN Fails("BADOVERLAY", h)
                         ELSE SetCell(h, treeNode, name, cell,
                                (h.struct[j].value.data[cell] + delta) % Words),
                       g, g.struct[p].value.data),
       f, PropertySeq(f, fixupNode))

(* The nodes below /__local_fixups__ stand for those of the same paths.    *)
FixupsOf(f, node) == SubSeq(PathOf(f, node), 3, Len(PathOf(f, node)))

UpdateLocalReferences(f) ==
  LET fixups == SubnodeOffset(f, 1, "__local_fixups__")
  IN  IF fixups = NotFound THEN Done(f)
      ELSE Each(LAMBDA g, n :
                  LET treeNode == SubnodesDown(g, 1, FixupsOf(g, n))
                  IN  IF treeNode = NotFound THEN Fails("BADOVERLAY", g)
                      ELSE UpdateReferences(g, treeNode, n),
                f, Ordered(Below(f, fixups)))

UpdateLocal ==
  /\ oat = "local"
  /\ ForOverlay(UpdateLocalReferences(overlay), "fixups") /\ UNCHANGED fragment

-----------------------------------------------------------------------------
(* overlay_fixup_one_phandle: a cell of the overlay gets the phandle of    *)
(* the node that the symbol of the base is for.                            *)
FixupOne(f, label, fixup) ==
  LET symbols == SubnodeOffset(base, 1, "__symbols__")
      path == ValueAt(base, symbols, label)
      node == PathOffset(base, path.data)
      fixed == PathOffset(f, fixup.path)
  IN  IF symbols = NotFound \/ path.len < 0 \/ node = NotFound
           \/ GetPhandle(base, node) = 0
        THEN Fails("NOTFOUND", f)
      ELSE IF fixed = NotFound THEN Fails("BADOVERLAY", f)
      ELSE SetCell(f, fixed, fixup.name, fixup.cell, GetPhandle(base, node))

FixupPhandles(f) ==
  LET fixups == SubnodeOffset(f, 1, "__fixups__")
  IN  IF fixups = NotFound THEN Done(f)
      ELSE Each(LAMBDA g, p :
                  Each(LAMBDA h, fixup : FixupOne(h, NameAt(h, p), fixup),
                       g, g.struct[p].value.data),
                f, PropertySeq(f, fixups))

Fixup ==
  /\ oat = "fixups"
  /\ ForOverlay(FixupPhandles(overlay), "merge")
  /\ fragment' = FirstSubnode(overlay, 1)

-----------------------------------------------------------------------------
(* overlay_get_target_phandle: 0 when there is none, -1 for a malformed.    *)
TargetPhandle(frag) ==
  LET target == ValueAt(overlay, frag, "target")
  IN  IF target.len < 0 THEN 0 ELSE IF target.len # 4 THEN Words - 1
      ELSE target.data[1]

(* fdt_overlay_target_offset: by the property target, or else target-path. *)
TargetOffset(f, frag) ==
  LET path == ValueAt(overlay, frag, "target-path")
      node == PathOffset(f, path.data)
  IN  IF TargetPhandle(frag) # 0 THEN NodeOffsetByPhandle(f, TargetPhandle(frag))
      ELSE IF path.len < 0 THEN Error("BADOVERLAY")
      ELSE IF node = NotFound THEN Error("NOTFOUND")
      ELSE At(node, 0)

(* fdt_add_subnode, which says when the node exists.                       *)
AddOrFindSubnode(f, parent, name) ==
  IF SubnodeOffset(f, parent, name) # NotFound THEN Done(f)
  ELSE AddSubnode(f, parent, name)

(* overlay_apply_node.  The offset of a node of the base that was found or *)
(* added is used for all that is below it.                                 *)
ApplyNode(target, node) ==
  LET Enter(acc, name) ==
        LET r == AddOrFindSubnode(acc.fdt, Last(acc.into), name)
        IN  IF r.err # "none" THEN [acc EXCEPT !.err = r.err, !.fdt = r.fdt]
            ELSE [acc EXCEPT !.fdt = r.fdt,
                   !.into = Append(@, SubnodeOffset(r.fdt, Last(@), name))]
      Apply(acc, j) ==
        IF acc.err # "none" THEN acc
        ELSE CASE IsTag(overlay, j, "BEGIN_NODE") -> Enter(acc, overlay.struct[j].name)
               [] IsTag(overlay, j, "END_NODE") -> [acc EXCEPT !.into = Front(@)]
               [] IsTag(overlay, j, "PROP") ->
                    LET r == SetProp(acc.fdt, Last(acc.into), NameAt(overlay, j),
                                     overlay.struct[j].value)
                    IN  [acc EXCEPT !.err = r.err, !.fdt = r.fdt]
               [] OTHER -> acc
      tags == {j \in (node + 1)..(NodeEnd(overlay, node) - 2) : TRUE}
      r == FoldLeft(Apply, [err |-> "none", fdt |-> base, into |-> <<target>>],
                    Ordered(tags))
  IN  [err |-> r.err, fdt |-> r.fdt]

(* overlay_merge, a fragment at a time; a subnode of the root without an   *)
(* __overlay__ is none.                                                    *)
MergeFragment ==
  /\ oat = "merge" /\ fragment # NotFound
  /\ LET body == SubnodeOffset(overlay, fragment, "__overlay__")
         target == TargetOffset(base, fragment)
     IN  ForBase(IF body = NotFound THEN Done(base)
                 ELSE IF target.err # "none" THEN Fails(target.err, base)
                 ELSE ApplyNode(target.offset, body), "merge")
  /\ fragment' = NextSubnode(overlay, fragment)

Merged ==
  /\ oat = "merge" /\ fragment = NotFound
  /\ oat' = "symbols"
  /\ UNCHANGED <<base, overlay, baseMagic, overlayMagic, delta, fragment, before, plan>>

-----------------------------------------------------------------------------
(* get_path_len, up to the root                                            *)
GetPathLen(f, node) ==
  LET up[n \in 1..Len(f.struct)] ==
        IF f.struct[n].name = "" THEN 0
        ELSE Length[f.struct[n].name] + 1 + up[ParentOffset(f, n)]
  IN  Max({1, up[node]})

Unset == <<"?">>

(* The path of the target of a fragment: the property itself, or the path  *)
(* of the node that target is for.                                         *)
ByPath(frag) == TargetPhandle(frag) = 0
GivenPath(frag) == ValueAt(overlay, frag, "target-path").data

TargetPathLen(f, frag, target) ==
  IF ~ByPath(frag) THEN GetPathLen(f, target)
  ELSE IF GivenPath(frag) = <<"">> THEN 1 ELSE PathBytes(GivenPath(frag)) - 1

TargetPath(f, frag, target, len) ==
  IF ByPath(frag) THEN Done(GivenPath(frag))
  ELSE IF target.err # "none" THEN Fails(target.err, f)
  ELSE IF len = 1 THEN Done(<<"">>)
  ELSE GetPath(f, target.offset, len + 1)

(* A symbol of the base gets that path, with the rest of its own behind    *)
(* it.  Its value is made room for first, which moves the nodes behind     *)
(* /__symbols__: the target is then looked up again.                       *)
PlaceSymbol(f, symbols, name, frag, rest, len) ==
  LET value(p) == [len |-> len + (IF len > 1 THEN 1 ELSE 0) + Max({1, PathBytes(rest)}),
                   data |-> p]
      Write(g, way) == IF way.err # "none" THEN Fails(way.err, g)
                       ELSE SetProp(g, symbols, name, value(way.fdt \o rest))
      Again(g) == Write(g, TargetPath(g, frag, TargetOffset(g, frag), len))
  IN  Then(SetProp(f, symbols, name, value(Unset)), Again)

(* The symbol at a path /<fragment>/__overlay__/<rest> of the overlay.     *)
SymbolUpdate(f, symbols, name, path) ==
  LET Place(frag, target) ==
        IF frag = NotFound \/ SubnodeOffset(overlay, frag, "__overlay__") = NotFound
          THEN Fails("BADOVERLAY", f)
        ELSE IF target.err # "none" THEN Fails(target.err, f)
        ELSE PlaceSymbol(f, symbols, name, frag, SubSeq(path, 4, Len(path)),
                         TargetPathLen(f, frag, target.offset))
      Find(frag) == Place(frag, TargetOffset(f, frag))
  IN  IF Len(path) < 3 \/ path[3] # "__overlay__" THEN Done(f)
      ELSE Find(SubnodeOffset(overlay, 1, path[2]))

(* overlay_symbol_update                                                   *)
UpdateSymbols ==
  /\ oat = "symbols"
  /\ LET given == SubnodeOffset(overlay, 1, "__symbols__")
         Update(f, symbols) ==
           Each(LAMBDA g, p : SymbolUpdate(g, symbols, NameAt(overlay, p),
                                           overlay.struct[p].value.data),
                f, PropertySeq(overlay, given))
     IN  ForBase(IF given = NotFound THEN Done(base)
                 ELSE Then(AddOrFindSubnode(base, 1, "__symbols__"),
                           LAMBDA f : Update(f, SubnodeOffset(f, 1, "__symbols__"))),
                 "finish")
  /\ UNCHANGED fragment

(* fdt_overlay_apply returns; the overlay is of no use any more.           *)
Finish ==
  /\ oat = "finish"
  /\ overlayMagic' = FALSE /\ oat' = "applied"
  /\ UNCHANGED <<base, overlay, baseMagic, delta, fragment, before, plan>>

(* The caller applies the next overlay to what has become of the base.     *)
NextOverlay ==
  /\ oat = "applied" /\ Len(plan) > 1
  /\ plan' = Tail(plan) /\ overlay' = Head(Tail(plan))
  /\ before' = [base |-> base, overlay |-> Head(Tail(plan))]
  /\ overlayMagic' = TRUE /\ oat' = "max_phandle"
  /\ UNCHANGED <<base, baseMagic, delta, fragment>>

OverlayNext ==
  \/ FindDelta \/ Adjust \/ UpdateLocal \/ Fixup
  \/ MergeFragment \/ Merged \/ UpdateSymbols \/ Finish \/ NextOverlay

-----------------------------------------------------------------------------
(* Both trees are sound behind every step, also behind the one that fails. *)
OverlayTypeOK ==
  /\ Sound(base) /\ Sound(overlay)
  /\ delta \in 0..(Words - 1) /\ fragment \in 0..Len(overlay.struct)
  /\ oat \in {"max_phandle", "adjust", "local", "fixups", "merge", "symbols",
             "finish", "applied", "failed"}
  /\ baseMagic <=> oat # "failed"
  /\ overlayMagic <=> oat \notin {"applied", "failed"}

(* No two nodes of the base have the same phandle, after any number of     *)
(* overlays of which each has used the same phandles; one that would make  *)
(* them wrap around is refused.                                            *)
DistinctIn(f) ==
  \A m, n \in Nodes(f) :
    GetPhandle(f, m) # 0 /\ m # n => GetPhandle(f, m) # GetPhandle(f, n)
OverlayPhandlesDistinct == DistinctIn(base)

(* Where the nodes of the overlay are in the tree it was merged into.      *)
Fragments(f) ==
  {n \in Nodes(f) : Len(PathOf(f, n)) = 2 /\ SubnodeOffset(f, n, "__overlay__") # NotFound}
Bodies(f) ==
  UNION {Below(f, SubnodeOffset(f, n, "__overlay__")) : n \in Fragments(f)}
MovedPath(path) ==
  LET target == TargetOffset(base, SubnodeOffset(overlay, 1, path[2]))
  IN  PathOf(base, target.offset) \o SubSeq(path, 4, Len(path))

(* The tree that is returned is the base with the fragments in their       *)
(* places, new values for the properties they name, and nothing else       *)
(* changed but its symbols; a node of both is there once.                  *)
MergedExactly ==
  oat = "applied" =>
    LET symbols == <<"", "__symbols__">>
        ours == UNION {{<<MovedPath(PathOf(overlay, n)), NameAt(overlay, j),
                          overlay.struct[j].value>> : j \in PropertiesOf(overlay, n)} :
                         n \in Bodies(overlay)}
        named == {<<p[1], p[2]>> : p \in ours}
        others(P) == {p \in P : p[1] # symbols /\ <<p[1], p[2]>> \notin named}
    IN  /\ Cardinality(Paths(base)) = Cardinality(Nodes(base))
        /\ Paths(base) \ {symbols} =
             (Paths(before.base) \cup {MovedPath(PathOf(overlay, n)) : n \in Bodies(overlay)})
               \ {symbols}
        /\ others(Properties(base)) = others(Properties(before.base))
        /\ \A name \in named : \E p \in ours \cap Properties(base) : <<p[1], p[2]>> = name

(* Every cell that is a reference leads, in the tree that is returned, to  *)
(* the node it was written for: in the base to where it has led, in the    *)
(* overlay to the overlay's node or to the one that has the label.         *)
LeadsTo(f, phandle) == PathOf(f, NodeOffsetByPhandle(f, phandle).offset)

LocalReferences(f) ==
  LET fixups == SubnodeOffset(f, 1, "__local_fixups__")
  IN  UNION {UNION {{[path |-> <<"">> \o FixupsOf(f, n), name |-> NameAt(f, p),
                      cell |-> f.struct[p].value.data[i]] :
                       i \in 1..Len(f.struct[p].value.data)} : p \in PropertiesOf(f, n)} :
               n \in IF fixups = NotFound THEN {} ELSE Below(f, fixups)}

CellAt(f, path, name, cell) == ValueAt(f, PathOffset(f, path), name).data[cell]

ReferencesResolve ==
  oat = "applied" =>
    /\ \A r \in LocalReferences(before.overlay) :
         Len(r.path) >= 3 =>
           LET meant == CellAt(before.overlay, r.path, r.name, r.cell)
           IN  LeadsTo(base, CellAt(base, MovedPath(r.path), r.name, r.cell)) =
                 MovedPath(LeadsTo(before.overlay, meant))
    /\ LET fixups == SubnodeOffset(before.overlay, 1, "__fixups__")
           symbols == SubnodeOffset(before.base, 1, "__symbols__")
       IN  fixups # NotFound =>
             \A p \in PropertiesOf(before.overlay, fixups) :
               \A i \in 1..Len(before.overlay.struct[p].value.data) :
                 LET fixup == before.overlay.struct[p].value.data[i]
                     label == NameAt(before.overlay, p)
                 IN  LeadsTo(base, CellAt(overlay, fixup.path, fixup.name, fixup.cell)) =
                       PathOf(before.base, PathOffset(before.base,
                                ValueAt(before.base, symbols, label).data))

(* The symbols of the base lead to nodes, those of the overlay to where    *)
(* its nodes have come, though the nodes move while the symbols are set.   *)
SymbolsResolve ==
  oat = "applied" =>
    LET symbols == SubnodeOffset(base, 1, "__symbols__")
        given == SubnodeOffset(overlay, 1, "__symbols__")
    IN  /\ symbols # NotFound =>
             \A j \in PropertiesOf(base, symbols) :
               PathOffset(base, base.struct[j].value.data) # NotFound
        /\ given # NotFound =>
             \A j \in PropertiesOf(overlay, given) :
               LET path == overlay.struct[j].value.data
                   value == ValueAt(base, symbols, NameAt(overlay, j))
               IN  Len(path) >= 3 =>
                     /\ PathOf(base, PathOffset(base, value.data)) = MovedPath(path)
                     /\ value.len >= PathBytes(value.data)

(* An overlay that was applied is merged where it says and nowhere else;   *)
(* phandles stay distinct, and references and symbols lead where they      *)
(* led in the overlay.                                                     *)
OverlayApplied ==
  /\ OverlayTypeOK
  /\ OverlayPhandlesDistinct
  /\ MergedExactly
  /\ ReferencesResolve
  /\ SymbolsResolve
=============================================================================
