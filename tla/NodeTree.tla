------------------------------ MODULE NodeTree ------------------------------
(***************************************************************************)
(* What the functions that edit a tree promise to its reader: every call   *)
(* adds or removes a node with all that is below it, gives it another      *)
(* name, sets or removes a property of one node, or changes nothing.       *)
(* Each step is said of the nodes N and properties P and those after it.   *)
(***************************************************************************)
EXTENDS Sequences, SequencesExt

VARIABLES
  nodes,    (* the paths of the nodes                                      *)
  props     (* the properties, as <<path, name, value>>                    *)

AddNode(N, P, Nnew, Pnew) ==
  /\ \E path \in Nnew \ N : Nnew = N \cup {path} /\ Front(path) \in N
  /\ Pnew = P

RemoveNode(N, P, Nnew, Pnew) ==
  \E path \in N \ Nnew :
    /\ Nnew = {n \in N : ~IsPrefix(path, n)}
    /\ Pnew = {p \in P : ~IsPrefix(path, p[1])}

(* All paths through the node change in the place of its name.             *)
Rename(N, P, Nnew, Pnew) ==
  \E old \in N \ Nnew, new \in Nnew \ N :
    LET moved(n) == IF IsPrefix(old, n) THEN new \o SubSeq(n, Len(old) + 1, Len(n))
                    ELSE n
    IN  /\ Front(old) = Front(new)
        /\ Nnew = {moved(n) : n \in N}
        /\ Pnew = {<<moved(p[1]), p[2], p[3]>> : p \in P}

SetProperty(N, P, Nnew, Pnew) ==
  /\ Nnew = N
  /\ \E p \in Pnew \ P :
       /\ p[1] \in N
       /\ Pnew = {q \in P : ~(q[1] = p[1] /\ q[2] = p[2])} \cup {p}

RemoveProperty(N, P, Nnew, Pnew) ==
  /\ Nnew = N
  /\ \E p \in P : Pnew = P \ {p}

Unchanged(N, P, Nnew, Pnew) == Nnew = N /\ Pnew = P

Step(N, P, Nnew, Pnew) ==
  \/ Unchanged(N, P, Nnew, Pnew)
  \/ AddNode(N, P, Nnew, Pnew) \/ RemoveNode(N, P, Nnew, Pnew)
  \/ Rename(N, P, Nnew, Pnew)
  \/ SetProperty(N, P, Nnew, Pnew) \/ RemoveProperty(N, P, Nnew, Pnew)

Next == Step(nodes, props, nodes', props')
=============================================================================
