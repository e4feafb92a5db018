----------------------------- MODULE LibHandles -----------------------------
(***************************************************************************)
(* What LibLocateProtocol and LibLocateHandleByDiskSignature (lib/hand.c)  *)
(* do with the handles they have located: each is asked for an interface,  *)
(* and may have lost it, or be gone, by then.                              *)
(***************************************************************************)
EXTENDS GrowBuffer

CONSTANT
  SomePaths     (* the device paths of the handles: functions to sequences *)
                (* of nodes, empty if a handle has none                    *)

(* A handle is not NULL, and a path is one instance, whose only end is its *)
(* last node.                                                              *)
ASSUME ScanAssumption ==
  /\ NULL \notin Elements
  /\ HandleReaders = {"LibLocateProtocol", "LibLocateHandleByDiskSignature"}
  /\ HandleReaders \cap (MapReaders \cup InfoReaders) = {}
  /\ \A ps \in SomePaths, h \in Elements :
       /\ Len(ps[h]) \in Nat
       /\ ps[h] # <<>> => Len(ps[h]) > 0
       /\ \A i \in 1..Len(ps[h]) : ps[h][i].kind = "end" <=> i = Len(ps[h])

VARIABLES
  Interface,    (* *Interface or DevicePath: the handle that has it        *)
  Index,
  kept,         (* BlockIoBuffer, of the handles that match                *)
  out,          (* *Buffer: the handles and the block they are in          *)
  paths,
  missed        (* the handles that had no interface when they were asked  *)

scanVars == <<Interface, Index, kept, out, paths, missed>>

NoHandlesOut == [handles |-> <<>>, block |-> NULL]

(* DevicePath is not initialised.                                          *)
ScanInit ==
  /\ Index = 1 /\ kept = <<>> /\ out = NoHandlesOut /\ missed = {}
  /\ paths \in SomePaths
  /\ Interface \in IF task = "LibLocateProtocol" THEN {NULL} ELSE {NULL} \cup Elements

Finds(status, p) ==
  /\ growing' = "done" /\ Status' = status /\ pool' = p
  /\ UNCHANGED <<task, Buffer, BufferSize, object, read, changes, boot, paths>>

StartScan ==
  /\ growing = "grown" /\ task \in HandleReaders
  /\ UNCHANGED <<Interface, Index, out, missed>>
  /\ \/ Buffer = NULL /\ Finds(Status, pool) /\ UNCHANGED kept
     \/ /\ Buffer # NULL /\ growing' = "scan" /\ kept' = read
        /\ UNCHANGED <<task, Status, Buffer, BufferSize, pool, object, read, changes, boot, paths>>

(* HandleProtocol: of a handle without the protocol the interface is set   *)
(* to NULL, of a handle that is gone it is left as it was.                 *)
HasProtocol(h) == h \in Range(object) /\ (task = "LibLocateProtocol" \/ paths[h] # <<>>)
HandleProtocol(h) ==
  IF HasProtocol(h) THEN {<<"SUCCESS", h>>}
  ELSE IF h \in Range(object) THEN {<<"UNSUPPORTED", NULL>>}
  ELSE {<<"UNSUPPORTED", NULL>>, <<"INVALID_PARAMETER", Interface>>}

Scanned(h, answer) ==
  /\ Interface' = answer[2] /\ Index' = Index + 1
  /\ missed' = IF IsError(answer[1]) THEN missed \cup {h} ELSE missed
  /\ UNCHANGED <<out, paths>>

StopsAt(status) == ~IsError(status) \/ Index = Len(read)

AskInterface ==
  /\ growing = "scan" /\ task = "LibLocateProtocol"
  /\ \E answer \in HandleProtocol(read[Index]) :
       /\ Scanned(read[Index], answer)
       /\ Status' = answer[1]
       /\ IF StopsAt(answer[1]) THEN growing' = "done" /\ pool' = Without(pool, Buffer)
          ELSE UNCHANGED <<growing, pool>>
  /\ UNCHANGED <<task, Buffer, BufferSize, object, read, changes, boot, kept>>

PreviousIsDisk_First(p, i) == FALSE   \* mutation: the flag is not kept
PreviousIsDisk(p, i) == i > 1 /\ p[i - 1].kind = "hard drive"

(* The last node is that of the partition, and the only one of a disk.     *)
Match(p) ==
  \E i \in 1..(Len(p) - 1) :
    /\ p[i].kind = "hard drive" /\ p[i].signed
    /\ ~PreviousIsDisk(p, i)
    /\ p[i + 1].kind = "end"

AskDevicePath ==
  /\ growing = "scan" /\ task = "LibLocateHandleByDiskSignature" /\ Index <= Len(read)
  /\ \E answer \in HandleProtocol(read[Index]) :
       /\ Scanned(read[Index], answer)
       /\ kept' = IF answer[2] # NULL /\ Match(paths[answer[2]]) THEN kept
                  ELSE [kept EXCEPT ![Index] = NULL]
  /\ UNCHANGED <<task, growing, Status, Buffer, BufferSize, pool, object, read, changes, boot>>

(* The handles that are left, one behind the other.                        *)
Left(s) ==
  LET upTo[n \in 0..Len(s)] == IF n = 0 THEN <<>>
                               ELSE IF s[n] = NULL THEN upTo[n - 1]
                               ELSE Append(upTo[n - 1], s[n])
  IN  upTo[Len(s)]

ListMatches ==
  /\ growing = "scan" /\ task = "LibLocateHandleByDiskSignature" /\ Index > Len(read)
  /\ UNCHANGED <<Interface, Index, kept, missed>>
  /\ LET matches == Left(kept)
         left == Without(pool, Buffer)
     IN  \/ matches = <<>> /\ Finds("SUCCESS", left) /\ UNCHANGED out
         \/ matches # <<>> /\ Finds("OUT_OF_RESOURCES", left) /\ UNCHANGED out
         \/ /\ matches # <<>>
            /\ Finds("SUCCESS", Without(With(pool, Fresh(pool), Len(matches)), Buffer))
            /\ out' = [handles |-> matches, block |-> Fresh(pool)]

ScanNext == StartScan \/ AskInterface \/ AskDevicePath \/ ListMatches

HandleNext == (GrowNext /\ UNCHANGED scanVars) \/ ScanNext
HandleSpec == GrowInit /\ ScanInit /\ [][HandleNext]_<<growVars, scanVars>>

-----------------------------------------------------------------------------
(* LibLocateProtocol returns the interface of the first handle that still  *)
(* has it when it is asked, NULL if none has, and frees the handles.       *)
FirstInstance ==
  growing = "done" /\ task = "LibLocateProtocol" =>
    /\ DOMAIN pool = {}
    /\ IF IsError(Status) THEN Interface = NULL
       ELSE \E i \in DOMAIN read :
              Interface = read[i] /\ missed = {read[j] : j \in 1..(i - 1)}

(* The handles that are returned for a signature are, in the firmware's    *)
(* order and each once, those whose path ends with it; only of a handle    *)
(* that has lost its path while the handles are gone through this is not   *)
(* known.                                                                  *)
OnDisk(h) ==
  LET p == paths[h]
  IN  /\ Len(p) > 1 /\ p[Len(p) - 1].kind = "hard drive" /\ p[Len(p) - 1].signed
      /\ ~(Len(p) > 2 /\ p[Len(p) - 2].kind = "hard drive")
DisksBySignature ==
  growing = "done" /\ task = "LibLocateHandleByDiskSignature" =>
    /\ DOMAIN pool = {out.block} \ {NULL}
    /\ out.handles # <<>> <=> out.block # NULL
    /\ \A k \in DOMAIN out.handles : \E i \in DOMAIN read : out.handles[k] = read[i]
    /\ \A k, l \in DOMAIN out.handles, i, j \in DOMAIN read :
         out.handles[k] = read[i] /\ out.handles[l] = read[j] => (k < l <=> i < j)
    /\ ~IsError(Status) =>
         \A i \in DOMAIN read :
           read[i] \notin missed =>
             (OnDisk(read[i]) <=> \E k \in DOMAIN out.handles : out.handles[k] = read[i])

(* A scan over the handles gives the interface of the first handle that    *)
(* has it when it is asked, or the disks of the signature; whether a       *)
(* handle is among these that has lost its path meanwhile is left open.    *)
HandlesFound ==
  /\ FirstInstance
  /\ DisksBySignature
=============================================================================
