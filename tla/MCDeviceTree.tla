---------------------------- MODULE MCDeviceTree ----------------------------
(***************************************************************************)
(* The users of libfdt over small trees, each in behaviours of its own:    *)
(* update_fdt, a caller that edits, the sequential writer, and overlays.   *)
(* The first state says which of them runs; the others rest in an initial  *)
(* state.                                                                  *)
(***************************************************************************)
EXTENDS UpdateFdt, FdtEdit, FdtSw, FdtOverlay

VARIABLE user

allVars == <<user, vars, editVars, swVars, overlayVars>>

-----------------------------------------------------------------------------
(* Names and their lengths.                                                *)
NamesOfLength ==
  <<{"a"}, {"bb"}, {"soc", "reg", "led", "key", "ref"}, {"cpus", "uart"}, {"x-reg"},
    {"chosen", "memory", "status", "target"}, {"aliases", "phandle", "serial0"},
    {"bootargs"}, {}, {"compatible", "x-bootargs", "fragment@0", "fragment@1", "__fixups__"},
    {"#size-cells", "__overlay__", "__symbols__", "target-path"}, {},
    {"linux,phandle"}, {"#address-cells"}, {}, {"__local_fixups__"}, {}, {}, {},
    {"linux,uefi-mmap-size"}, {"linux,uefi-mmap-start"}, {}, {"linux,uefi-system-table"},
    {"linux,uefi-mmap-desc-ver"}, {"linux,uefi-mmap-desc-size"}>>

NameLength ==
  [name \in {""} \cup UNION {NamesOfLength[n] : n \in 1..Len(NamesOfLength)} |->
     Max({0} \cup {n \in 1..Len(NamesOfLength) : name \in NamesOfLength[n]})]

Endings ==
  {<<"x-bootargs", "bootargs">>, <<"x-reg", "reg">>, <<"linux,phandle", "phandle">>}

-----------------------------------------------------------------------------
(* Trees as their tags, the properties with their names; the strings are   *)
(* those names.                                                            *)
Node(name, body) == <<BeginNode(name)>> \o body \o <<EndNode>>
P(name, value) == [tag |-> "PROP", name |-> name, value |-> value]
Words32(s) == [len |-> 4 * Len(s), data |-> s]
Path(p) == [len |-> PathBytes(p), data |-> p]
Fixups(s) == [len |-> 20 * Len(s), data |-> s]
FixupAt(path, name, cell) == [path |-> path, name |-> name, cell |-> cell]

Flat(tags) ==
  LET isProp(t) == t.tag = "PROP"
      Collect(names, t) ==
        IF \E i \in 1..Len(names) : names[i] = t.name THEN names ELSE Append(names, t.name)
      names == FoldLeft(Collect, <<>>, SelectSeq(tags, isProp))
      number(name) == CHOOSE i \in 1..Len(names) : names[i] = name
      flat(t) == IF isProp(t) THEN Prop(<<number(t.name), t.name>>, t.value) ELSE t
  IN  [strings |-> names,
       struct |-> Append([j \in 1..Len(tags) |-> flat(tags[j])], End)]

-----------------------------------------------------------------------------
(* For update_fdt: trees without /chosen, with one that has some of the    *)
(* properties, with one in the wrong place, with strings that end with a   *)
(* name, in all the layouts fdt_open_into tells apart.                     *)
Value(len) == [len |-> len, data |-> 9]

(* A root with a node, and one with a /chosen of another boot loader whose *)
(* properties of the memory map have other lengths.                        *)
Plain ==
  [strings |-> <<"compatible", "reg">>,
   struct |-> <<BeginNode(""), Prop(<<1, "compatible">>, Value(5)),
                BeginNode("cpus"), Prop(<<2, "reg">>, Value(4)), EndNode,
                EndNode, End>>]
Chained ==
  [strings |-> <<"reg", "x-bootargs", "linux,uefi-mmap-size", "linux,uefi-mmap-start">>,
   struct |-> <<BeginNode(""), Nop,
                BeginNode("memory"), Prop(<<1, "reg">>, Value(16)), EndNode,
                BeginNode("chosen"), Prop(<<2, "bootargs">>, Value(6)), Nop,
                Prop(<<3, "linux,uefi-mmap-size">>, Value(8)),
                Prop(<<4, "linux,uefi-mmap-start">>, Value(4)), EndNode,
                EndNode, End>>]
Nested ==
  [strings |-> <<"x-bootargs">>,
   struct |-> <<BeginNode(""), Prop(<<1, "x-bootargs">>, Value(3)),
                BeginNode("soc"), BeginNode("chosen"),
                Prop(<<1, "bootargs">>, Value(2)), EndNode, EndNode,
                EndNode, End>>]

(* The blocks in order with a gap in front of each, or the strings first.  *)
InOrder(t, reserved, gap) ==
  LET rsv == HeaderSize + gap
      struct == rsv + (reserved + 1) * ReserveEntrySize + gap
      strings == struct + StructBytes(t.struct) + gap
  IN  [version |-> 17, reserved |-> reserved, struct |-> t.struct, strings |-> t.strings,
       offRsv |-> rsv, offStruct |-> struct, offStrings |-> strings,
       sizeStruct |-> StructBytes(t.struct), sizeStrings |-> StringBytes(t.strings),
       total |-> strings + StringBytes(t.strings) + gap]
StringsFirst(t, reserved) ==
  LET rsv == HeaderSize + RoundUp(StringBytes(t.strings), 8)
      struct == rsv + (reserved + 1) * ReserveEntrySize
  IN  [InOrder(t, reserved, 0) EXCEPT
         !.offStrings = HeaderSize, !.offRsv = rsv, !.offStruct = struct,
         !.total = struct + StructBytes(t.struct)]
Version16(f) == [f EXCEPT !.version = 16, !.sizeStruct = 0]
Version3(f) == [f EXCEPT !.version = 3, !.sizeStruct = 0]

SmallTrees ==
  UNION {{InOrder(t, 0, 0), InOrder(t, 2, 8), StringsFirst(t, 1),
          Version16(InOrder(t, 1, 0)), Version16(StringsFirst(t, 0)),
          Version3(InOrder(t, 0, 0))} : t \in {Plain, Chained, Nested}}

Sizes == {64 + 28 * i : i \in 0..18}
SmallCmdLines == {[len |-> 1, data |-> 0], [len |-> 7, data |-> 1]}

-----------------------------------------------------------------------------
(* For the caller that edits: trees with names that are used again at      *)
(* other depths, NOPs, shared strings and both kinds of phandles; with no  *)
(* room, some, and enough.                                                 *)
WithRoom(t, room) == [InOrder(t, 0, 0) EXCEPT !.total = @ + room]

Bushy ==
  [strings |-> <<"x-reg", "linux,phandle">>,
   struct |-> <<BeginNode(""), Nop, Prop(<<1, "reg">>, Words32(<<1>>)),
                BeginNode("bb"), Prop(<<2, "phandle">>, Words32(<<3>>)),
                BeginNode("a"), EndNode, Nop, BeginNode("bb"), EndNode, EndNode,
                BeginNode("a"), Prop(<<1, "x-reg">>, Words32(<<2, 3>>)), EndNode,
                EndNode, End>>]
RootTree == Flat(Node("", <<>>))
Narrow == Flat(Node("", Node("a", Node("a", <<P("reg", Words32(<<5>>))>>))))

Start(t, n) == [tree |-> t, calls |-> n]
Starts ==
  {Start(WithRoom(Bushy, 0), 1), Start(WithRoom(Bushy, 44), 2),
   Start(WithRoom(RootTree, 300), 3), Start(WithRoom(Narrow, 40), 2)}
SmallValues == {Words32(<<>>), Words32(<<4>>)}

-----------------------------------------------------------------------------
(* For the writer: buffers too small, overlapping on both sides, apart.    *)
SmallBuffers ==
  {[at |-> 100, size |-> 40], [at |-> 100, size |-> 88], [at |-> 80, size |-> 120],
   [at |-> 132, size |-> 140], [at |-> 400, size |-> 176]}

-----------------------------------------------------------------------------
(* For the overlays: a base with symbols in front of what they are for,    *)
(* whose phandles are low or as high as they can be, and one without.      *)
Uart(soc) == Node("uart", <<P("phandle", Words32(<<2>>)), P("ref", Words32(<<soc>>))>>)
Aliases == Node("aliases", <<P("serial0", Path(<<"", "soc", "uart">>))>>)
WithSymbols(soc) ==
  Flat(Node("",
    Node("__symbols__", <<P("soc", Path(<<"", "soc">>)),
                          P("uart", Path(<<"", "soc", "uart">>))>>)
    \o Aliases \o Node("soc", <<P("linux,phandle", Words32(<<soc>>))>> \o Uart(soc))))
WithoutSymbols ==
  Flat(Node("", Node("soc", <<P("phandle", Words32(<<1>>))>> \o Uart(1)) \o Aliases))

(* A reference that is to be fixed up has the phandle -1.                  *)
Unknown == 15
Body(path) == <<"", path, "__overlay__">>

ByLabel ==       \* target and references by the labels of the base
  Flat(Node("",
    Node("fragment@0", <<P("target", Words32(<<Unknown>>))>> \o
      Node("__overlay__", <<P("status", Words32(<<1>>))>> \o
        Node("led", <<P("phandle", Words32(<<1>>)), P("ref", Words32(<<1, Unknown>>))>>)))
    \o Node("__symbols__", <<P("led", Path(Body("fragment@0") \o <<"led">>))>>)
    \o Node("__fixups__",
         <<P("soc", Fixups(<<FixupAt(<<"", "fragment@0">>, "target", 1)>>)),
           P("uart", Fixups(<<FixupAt(Body("fragment@0") \o <<"led">>, "ref", 2)>>))>>)
    \o Node("__local_fixups__", Node("fragment@0", Node("__overlay__",
         Node("led", <<P("ref", Words32(<<1>>))>>))))))
OnTop ==         \* on top of ByLabel, and many symbols
  Flat(Node("",
    Node("fragment@0", <<P("target-path", Path(<<"">>))>> \o
      Node("__overlay__",
        Node("key", <<P("phandle", Words32(<<1>>)), P("ref", Words32(<<Unknown>>))>>)))
    \o Node("fragment@1", <<P("target", Words32(<<Unknown>>))>> \o
      Node("__overlay__", <<P("status", Words32(<<5>>))>> \o
        Node("key", <<P("linux,phandle", Words32(<<2>>)), P("ref", Words32(<<1>>))>>)))
    \o Node("__symbols__",
         <<P("key", Path(Body("fragment@0") \o <<"key">>)),
           P("status", Path(Body("fragment@1"))), P("ref", Path(Body("fragment@0"))),
           P("serial0", Path(Body("fragment@1") \o <<"key">>))>>)
    \o Node("__fixups__",
         <<P("led", Fixups(<<FixupAt(<<"", "fragment@1">>, "target", 1),
                             FixupAt(Body("fragment@0") \o <<"key">>, "ref", 1)>>))>>)
    \o Node("__local_fixups__", Node("fragment@1", Node("__overlay__",
         Node("key", <<P("ref", Words32(<<1>>))>>))))))
ByAlias ==       \* a target by an alias, one by a phandle of the overlay
  Flat(Node("",
    Node("fragment@0", <<P("target-path", Path(<<"serial0">>))>> \o
      Node("__overlay__", <<P("status", Words32(<<1, 2>>)), P("ref", Words32(<<1>>))>> \o
        Node("led", <<P("phandle", Words32(<<1>>))>>)))
    \o Node("key", <<>>)
    \o Node("fragment@1", <<P("target", Words32(<<1>>))>> \o
      Node("__overlay__", Node("key", <<P("status", Words32(<<1>>))>>)))
    \o Node("__symbols__", <<P("led", Path(Body("fragment@0") \o <<"led">>)),
                             P("key", Path(<<"", "key">>))>>)
    \o Node("__local_fixups__",
         Node("fragment@0", Node("__overlay__", <<P("ref", Words32(<<1>>))>>))
         \o Node("fragment@1", <<P("target", Words32(<<1>>))>>))))
Deeper ==        \* into nodes the base has, with high phandles
  Flat(Node("",
    Node("fragment@0", <<P("target-path", Path(<<"", "soc">>))>> \o
      Node("__overlay__", <<P("ref", Words32(<<1, 5>>))>> \o
        Node("uart", <<P("status", Words32(<<7>>)), P("ref", Words32(<<5>>))>> \o
          Node("led", <<P("phandle", Words32(<<5>>))>>)) \o
        Node("key", <<P("phandle", Words32(<<1>>))>>)))
    \o Node("__local_fixups__", Node("fragment@0", Node("__overlay__",
         <<P("ref", Words32(<<1, 2>>))>> \o Node("uart", <<P("ref", Words32(<<1>>))>>))))))
Wrong ==         \* a local fix-up behind the end of its property
  Flat(Node("",
    Node("fragment@0", <<P("target-path", Path(<<"", "soc">>))>> \o
      Node("__overlay__", <<P("ref", Words32(<<1>>))>>))
    \o Node("__local_fixups__", Node("fragment@0", Node("__overlay__",
         <<P("ref", Words32(<<2>>))>>)))))

SmallBases ==
  UNION {{WithRoom(WithSymbols(1), room), WithRoom(WithoutSymbols, room)} :
           room \in {600, 400, 160, 100, 40, 0}}
    \cup {WithRoom(WithSymbols(soc), 900) : soc \in {5, 12, 13, 14}}
SmallPlans ==
  LET o(t) == WithRoom(t, 0)
  IN  {<<o(ByLabel), o(OnTop), o(ByAlias)>>, <<o(ByAlias), o(ByLabel), o(OnTop)>>,
       <<o(OnTop)>>, <<o(Deeper)>>, <<o(ByLabel), o(Deeper)>>, <<o(Wrong)>>}

-----------------------------------------------------------------------------
RestUpdate ==
  /\ orig = NoTree /\ bufsize = 64 /\ cmdline = [len |-> 1, data |-> 0]
  /\ fdt = NoTree /\ node = NotFound /\ at = "open" /\ told = 1 /\ round = 0
RestEdit == tree = WithRoom(RootTree, 300) /\ calls = 0 /\ inPlace = FALSE
RestSw ==
  /\ place = [at |-> 100, size |-> 40] /\ dedup = FALSE
  /\ sw = NoSw /\ swErr = "NOSPACE"
RestOverlay ==
  /\ base = WithRoom(RootTree, 0) /\ overlay = base
  /\ before = [base |-> base, overlay |-> base] /\ plan = <<base>>
  /\ baseMagic = TRUE /\ overlayMagic = TRUE
  /\ delta = 0 /\ fragment = NotFound /\ oat = "max_phandle"

UsersInit ==
  \/ user = "update_fdt" /\ Init /\ RestEdit /\ RestSw /\ RestOverlay
  \/ user = "editor" /\ RestUpdate /\ EditInit /\ RestSw /\ RestOverlay
  \/ user = "writer" /\ RestUpdate /\ RestEdit /\ SwInit /\ RestOverlay
  \/ user = "overlays" /\ RestUpdate /\ RestEdit /\ RestSw /\ OverlayInit

UsersNext ==
  /\ UNCHANGED user
  /\ \/ user = "update_fdt" /\ Next /\ UNCHANGED <<editVars, swVars, overlayVars>>
     \/ user = "editor" /\ EditNext /\ UNCHANGED <<vars, swVars, overlayVars>>
     \/ user = "writer" /\ SwNext /\ UNCHANGED <<vars, editVars, overlayVars>>
     \/ user = "overlays" /\ OverlayNext /\ UNCHANGED <<vars, editVars, swVars>>

UsersSpec == UsersInit /\ [][UsersNext]_allVars
=============================================================================
