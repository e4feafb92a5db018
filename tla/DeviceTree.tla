----------------------------- MODULE DeviceTree -----------------------------
(***************************************************************************)
(* What a device tree is to its reader: a set of nodes, named by their     *)
(* paths, and the values of their properties.  Preparing the tree for the  *)
(* kernel adds nodes and gives properties of single nodes new values; it   *)
(* touches nothing else, and a step that fails touches nothing at all.     *)
(***************************************************************************)
EXTENDS Sequences, FiniteSets

CONSTANTS
  RootPath, ChosenPath,     (* the paths of the nodes that may change      *)
  RootProps, ChosenProps    (* the names that may get a value there        *)

VARIABLES
  nodes,    (* the paths of the nodes                                      *)
  props     (* the properties, as <<path, name, value>>                    *)

vars == <<nodes, props>>

IsSingleValued(P) == Cardinality({<<p[1], p[2]>> : p \in P}) = Cardinality(P)

(* Any tree there is.                                                      *)
Init == RootPath \in nodes /\ IsSingleValued(props)

AddNode(path) ==
  /\ path \notin nodes
  /\ nodes' = nodes \cup {path}
  /\ UNCHANGED props

(* Some properties of one node are set; none of them is removed.           *)
Others(P, path, names) == {p \in P : ~(p[1] = path /\ p[2] \in names)}
NamesIn(P, path) == {p[2] : p \in {q \in P : q[1] = path}}

SetProps(path, names, P, Pnew) ==
  /\ path \in nodes /\ UNCHANGED nodes
  /\ Others(Pnew, path, names) = Others(P, path, names)
  /\ NamesIn(P, path) \subseteq NamesIn(Pnew, path)
  /\ IsSingleValued(Pnew)

(* Blocks that move, a tree that is packed, a call that fails.             *)
Keep == UNCHANGED vars

Next ==
  \/ Keep
  \/ AddNode(ChosenPath)
  \/ SetProps(RootPath, RootProps, props, props')
  \/ SetProps(ChosenPath, ChosenProps, props, props')

Spec == Init /\ [][Next]_vars
=============================================================================
