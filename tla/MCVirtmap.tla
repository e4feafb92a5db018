------------------------------ MODULE MCVirtmap -----------------------------
(***************************************************************************)
(* Virtmap over the memory maps of a small machine: descriptors in any     *)
(* order, runtime or not, that do not overlap.  Their starts are off a     *)
(* 64K boundary, on one and on a 2M boundary, their lengths below and      *)
(* above 2M.                                                               *)
(***************************************************************************)
EXTENDS Virtmap

Starts == {1, 4, 10}
Lengths == {2, 5}

Fresh == [start : Starts, pages : Lengths, runtime : BOOLEAN, virt : {0}]

NoOverlap(m) ==
  \A x, y \in DOMAIN m :
    x # y => \/ m[x].start + m[x].pages <= m[y].start
             \/ m[y].start + m[y].pages <= m[x].start

(* A map may have more descriptors than the runtime map has room for, only *)
(* its runtime descriptors have to fit.                                    *)
MemoryMaps ==
  {m \in UNION {[1..n -> Fresh] : n \in 0..(MaxDescs + 1)} :
     NoOverlap(m) /\ Cardinality(RuntimeUpTo(m, Len(m))) <= MaxDescs}
=============================================================================
