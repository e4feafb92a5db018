----------------------------- MODULE DevicePath -----------------------------
(***************************************************************************)
(* Device paths in memory (lib/dpath.c) and what builds new ones: nodes    *)
(* one behind the other, instances separated by END_INSTANCE, up to an     *)
(* END.  A path is the sequence of its nodes, those behind the first END   *)
(* included; a node has a name and a length in bytes.                      *)
(***************************************************************************)
EXTENDS Integers, SequencesExt, FiniteSetsExt

CONSTANTS
  Nodes,         (* nodes that are no end                                  *)
  Tails,         (* paths that are appended, each with its END             *)
  MaxNodes       (* bound: nodes of the paths that are built on            *)

VARIABLES
  devPath,       (* the path that was built last                           *)
  block,         (* the bytes allocated for it                             *)
  meant,         (* its instances, as the functions' comments have them    *)
  shape          (* "packed", or a path that is not built on: "unpacked",  *)
                 (* "several": appended to several instances, or "cut"     *)

pathVars == <<devPath, block, meant, shape>>

HeaderSize == 4
End == [name |-> "END", length |-> HeaderSize]
EndInstance == [name |-> "END_INSTANCE", length |-> HeaderSize]

IsEndType(n) == n.name \in {"END", "END_INSTANCE"}
IsEnd(n) == n.name = "END"

ByteLength(nodes) == FoldSeq(LAMBDA n, total : n.length + total, 0, nodes)
FirstEnd(p) == Min({i \in DOMAIN p : IsEnd(p[i])})
UpToEnd(p) == SubSeq(p, 1, FirstEnd(p))

DevicePathSize(p) == ByteLength(SubSeq(p, 1, FirstEnd(p) - 1)) + HeaderSize

(* The instance that begins at a node, and where the next one begins, or 0.*)
DevicePathInstance(p, at) ==
  LET end == Min({i \in at..Len(p) : IsEndType(p[i])})
  IN  [nodes |-> SubSeq(p, at, end - 1), next |-> IF IsEnd(p[end]) THEN 0 ELSE end + 1]

InstanceStarts(p) ==
  {1} \cup {i + 1 : i \in {j \in 1..(FirstEnd(p) - 1) : p[j].name = "END_INSTANCE"}}
DevicePathInstanceCount(p) == Cardinality(InstanceStarts(p))

InstancesOf(p) ==
  LET starts == SetToSortSeq(InstanceStarts(p), <)
  IN  [k \in DOMAIN starts |-> DevicePathInstance(p, starts[k]).nodes]

-----------------------------------------------------------------------------
Separator(last) == IF last THEN End ELSE EndInstance

AppendBytes(p, tail) ==
  DevicePathSize(p) * DevicePathInstanceCount(p) + DevicePathSize(tail)

(* Each instance is followed by the whole of the second path, its END      *)
(* included, and by a separator.                                           *)
Appended(p, tail) ==
  LET instances == InstancesOf(p)
  IN  FlattenSeq([k \in DOMAIN instances |->
        instances[k] \o UpToEnd(tail) \o <<Separator(k = Len(instances))>>])

MeantAppend(instances, tails) ==
  [k \in DOMAIN instances |-> instances[k] \o Head(tails)] \o Tail(tails)

Built(path, bytes, instances, as) ==
  /\ devPath' = path /\ block' = bytes /\ meant' = instances /\ shape' = as
  /\ Len(path) <= MaxNodes

Several == IF DevicePathInstanceCount(devPath) > 1 THEN "several" ELSE "packed"

AppendDevicePath ==
  /\ shape = "packed"
  /\ \E tail \in Tails :
       Built(Appended(devPath, tail), AppendBytes(devPath, tail),
             MeantAppend(meant, InstancesOf(tail)), Several)

(* Of one node, as in FileDevicePath, which makes a node of a file name.   *)
AppendDevicePathNode ==
  /\ shape = "packed"
  /\ \E n \in Nodes :
       Built(Appended(devPath, <<n, End>>), AppendBytes(devPath, <<n, End>>),
             MeantAppend(meant, <<<<n>>>>), Several)

JoinEnd(p) == [UpToEnd(p) EXCEPT ![FirstEnd(p)].name = "END_INSTANCE"]

AppendDevicePathInstance ==
  /\ shape = "packed"
  /\ \E tail \in Tails :
       Built(JoinEnd(devPath) \o UpToEnd(tail), DevicePathSize(devPath) + DevicePathSize(tail),
             meant \o InstancesOf(tail), "packed")

DuplicateDevicePath ==
  shape = "packed" /\ Built(UpToEnd(devPath), DevicePathSize(devPath), meant, "packed")

MIN_ALIGNMENT_SIZE == 8
AlignUp(n) == ((n + MIN_ALIGNMENT_SIZE - 1) \div MIN_ALIGNMENT_SIZE) * MIN_ALIGNMENT_SIZE

UnpackedBytes_Last(p) == AlignUp(ByteLength(UpToEnd(p)))   \* mutation: the sum is rounded
UnpackedBytes(p) ==
  FoldLeft(LAMBDA total, n : AlignUp(total + n.length), 0, UpToEnd(p))

Unpacked(n) == [n EXCEPT !.length = AlignUp(n.length)]
UnpackDevicePath ==
  /\ shape = "packed"
  /\ Built([k \in 1..FirstEnd(devPath) |-> Unpacked(devPath[k])], UnpackedBytes(devPath),
           [k \in DOMAIN meant |-> [j \in DOMAIN meant[k] |-> Unpacked(meant[k][j])]],
           "unpacked")

(* The copy of the first instance ends behind its first node, whatever     *)
(* else is copied.                                                         *)
LibDuplicateDevicePathInstance ==
  /\ shape = "packed"
  /\ LET instance == DevicePathInstance(devPath, 1).nodes
     IN  /\ instance # <<>>
         /\ Built(<<Head(instance), End>>, ByteLength(instance) + HeaderSize, <<instance>>,
                  IF Len(instance) > 1 THEN "cut" ELSE "packed")

PathInit ==
  /\ devPath \in {<<n, End>> : n \in Nodes} \cup Tails
  /\ block = DevicePathSize(devPath) /\ meant = InstancesOf(devPath) /\ shape = "packed"

PathNext ==
  \/ AppendDevicePath \/ AppendDevicePathNode \/ AppendDevicePathInstance
  \/ DuplicateDevicePath \/ UnpackDevicePath \/ LibDuplicateDevicePathInstance

-----------------------------------------------------------------------------
(* LibMatchDevicePaths: an instance matches that begins the single path.   *)
LibMatchDevicePaths(multi, single) ==
  \E k \in DOMAIN InstancesOf(multi) : IsPrefix(InstancesOf(multi)[k], single)

(* A path that is built is what its functions say, instance by instance,   *)
(* and inside its block; but an append to several instances ends behind    *)
(* the first of them, and the copy of an instance behind its first node.   *)
PathsAsMeant ==
  LET instances == InstancesOf(devPath)
  IN  CASE shape \in {"packed", "unpacked"} -> instances = meant
        [] shape = "several" -> Len(instances) <= Len(meant) /\ Head(instances) = Head(meant)
        [] shape = "cut" -> instances = <<<<Head(Head(meant))>>>>

(* What is written fits into the block, but for an append to several       *)
(* instances: there the size of the first path is multiplied, and not that *)
(* of the second, which is written as often as there are instances.        *)
BlockHolds ==
  shape # "several" => ByteLength(Front(devPath)) + HeaderSize <= block

(* An instance that was appended is found in the path.                     *)
InstancesMatch ==
  shape = "packed" =>
    \A k \in DOMAIN meant : LibMatchDevicePaths(devPath, Append(meant[k], End))

(* Appending, joining and unpacking device paths gives the instances that  *)
(* are meant, in blocks that hold them.                                    *)
PathsSound ==
  /\ PathsAsMeant
  /\ BlockHolds
  /\ InstancesMatch
=============================================================================
