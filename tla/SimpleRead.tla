----------------------------- MODULE SimpleRead -----------------------------
(***************************************************************************)
(* lib/sread.c: a file is read from a copy in memory, from a file system   *)
(* or from a LoadFile interface.  Opening walks the nodes of the path, one *)
(* handle open at a time, and falls back to LoadFile.                      *)
(***************************************************************************)
EXTENDS Integers, SequencesExt, FiniteSetsExt

CONSTANTS
  Paths,         (* sequences of the kinds of nodes                        *)
  FileSizes,
  Offsets,       (* and sizes of what is read                              *)
  UintnBits      (* the width of UINTN                                     *)

NodeKinds == {"device", "file", "other"}

(* Paths are sequences, and sizes fit some word.                           *)
ASSUME SimpleReadAssumption ==
  /\ Paths \subseteq Seq(NodeKinds)
  /\ FileSizes \subseteq Nat /\ Offsets \subseteq Nat
  /\ UintnBits \in Nat /\ 2^UintnBits \in Nat \ {0}

VARIABLES
  reading,       (* where the open file or its user is                     *)
  source,        (* whether a SourceBuffer is given                        *)
  path,
  FilePath,      (* *FilePath, as an index into the path                   *)
  FilePathNode,
  FileHandle,    (* NoFile, or the index of the node it was opened by      *)
  unopened,      (* whether the volume or a file could not be opened       *)
  FHand,
  OpenStatus,
  files, pools,  (* the files that are open and the pools allocated        *)
  length,        (* the size of the file                                   *)
  request, answer

readVars ==
  <<reading, source, path, FilePath, FilePathNode, FileHandle, unopened, FHand, OpenStatus,
    files, pools, length, request, answer>>

NoFile == 0
NoRequest == [Offset |-> 0, ReadSize |-> 0]
NoFHand == [FreeBuffer |-> FALSE, Source |-> FALSE, SourceSize |-> 0, FileHandle |-> NoFile]
Fails(status) == status \notin {"SUCCESS", "ALREADY_STARTED"}

ReadInit ==
  /\ reading = "open" /\ source \in BOOLEAN
  /\ path \in IF source THEN {<<"device">>} ELSE Paths
  /\ FilePath = 1 /\ FilePathNode = 1 /\ FileHandle = NoFile /\ unopened = FALSE
  /\ FHand = NoFHand /\ OpenStatus = "SUCCESS" /\ files = {} /\ pools = {}
  /\ length \in FileSizes /\ request = NoRequest /\ answer = <<>>

AtEnd(i) == i > Len(path)

(* The node behind the file system's device.                               *)
BehindDevice ==
  Min({i \in 1..(Len(path) + 1) : AtEnd(i) \/ path[i] # "device"})

OpenMemory ==
  /\ reading = "open"
  /\ UNCHANGED <<source, path, FilePath, FilePathNode, FileHandle, unopened, files, length,
                 request, answer>>
  /\ \/ /\ OpenStatus' = "OUT_OF_RESOURCES" /\ reading' = "failed"
        /\ UNCHANGED <<FHand, pools>>
     \/ /\ pools' = {"FHand"}
        /\ IF source
           THEN /\ FHand' = [NoFHand EXCEPT !.Source = TRUE, !.SourceSize = length]
                /\ OpenStatus' = "SUCCESS" /\ reading' = "opened"
           ELSE reading' = "volume" /\ UNCHANGED <<FHand, OpenStatus>>

(* LocateDevicePath and LibOpenRoot.  *FilePath is behind the device then. *)
OpenVolume ==
  /\ reading = "volume" /\ reading' = "walk"
  /\ UNCHANGED <<source, path, FHand, pools, length, request, answer>>
  /\ \/ /\ FilePath' = BehindDevice
        /\ \/ OpenStatus' = "SUCCESS" /\ UNCHANGED unopened
              /\ FileHandle' = BehindDevice /\ files' = {BehindDevice}
           \/ OpenStatus' = "UNSUPPORTED" /\ unopened' = TRUE /\ UNCHANGED <<FileHandle, files>>
     \/ OpenStatus' = "UNSUPPORTED" /\ UNCHANGED <<FilePath, FileHandle, files, unopened>>
  /\ FilePathNode' = FilePath'

ClosedBehind_Not(last) == files   \* mutation: the directory stays open
ClosedBehind(last) == files \ {last}

OpenNode ==
  /\ reading = "walk" /\ ~AtEnd(FilePathNode)
  /\ UNCHANGED <<source, path, FilePath, FHand, pools, length, request, answer>>
  /\ IF path[FilePathNode] # "file" \/ Fails(OpenStatus)
     THEN /\ OpenStatus' = IF path[FilePathNode] # "file" THEN "UNSUPPORTED" ELSE OpenStatus
          /\ reading' = "walked" /\ UNCHANGED <<FilePathNode, FileHandle, files, unopened>>
     ELSE /\ FilePathNode' = FilePathNode + 1 /\ UNCHANGED reading
          /\ \/ /\ OpenStatus' = "SUCCESS" /\ FileHandle' = FilePathNode + 1
                /\ files' = ClosedBehind(FileHandle) \cup {FilePathNode + 1}
                /\ UNCHANGED unopened
             \/ /\ OpenStatus' = "NOT_FOUND" /\ FileHandle' = NoFile
                /\ files' = ClosedBehind(FileHandle) /\ unopened' = TRUE

Restored == 1

(* The file, or its last directory, is closed when it is not what is read. *)
EndWalk ==
  /\ reading = "walked" \/ (reading = "walk" /\ AtEnd(FilePathNode))
  /\ UNCHANGED <<source, path, FilePathNode, unopened, OpenStatus, pools, length, request, answer>>
  /\ \/ /\ ~Fails(OpenStatus)
        /\ FHand' = [FHand EXCEPT !.FileHandle = FileHandle] /\ reading' = "opened"
        /\ UNCHANGED <<FilePath, FileHandle, files>>
     \/ /\ Fails(OpenStatus) /\ UNCHANGED FHand
        /\ reading' = IF OpenStatus = "UNSUPPORTED" THEN "load" ELSE "failed"
        /\ IF FileHandle # NoFile
           THEN FileHandle' = NoFile /\ files' = files \ {FileHandle} /\ FilePath' = Restored
           ELSE UNCHANGED <<FilePath, FileHandle, files>>

(* LibDevicePathToInterface for a device whose whole path is left, and the *)
(* first question, for the size.  The copy of the path is freed again.     *)
LoadFile ==
  /\ reading = "load"
  /\ UNCHANGED <<source, path, FilePath, FilePathNode, FileHandle, unopened, files, length,
                 request, answer>>
  /\ \/ OpenStatus' = "UNSUPPORTED" /\ reading' = "failed" /\ UNCHANGED <<FHand, pools>>
     \/ /\ FilePath = 1 /\ OpenStatus' = "ALREADY_STARTED" /\ reading' = "opened"
        /\ UNCHANGED <<FHand, pools>>
     \/ /\ FilePath = 1 /\ reading' = "fill" /\ OpenStatus' = "BUFFER_TOO_SMALL"
        /\ pools' = pools \cup {"Source"}
        /\ FHand' = [FHand EXCEPT !.FreeBuffer = TRUE, !.Source = TRUE, !.SourceSize = length]

(* The second question; the size may be another then, but is not kept.     *)
FillBuffer ==
  /\ reading = "fill"
  /\ OpenStatus' \in {"SUCCESS", "ALREADY_STARTED", "UNSUPPORTED"}
  /\ reading' = IF Fails(OpenStatus') THEN "failed" ELSE "opened"
  /\ UNCHANGED <<source, path, FilePath, FilePathNode, FileHandle, unopened, FHand, files,
                 pools, length, request, answer>>

FreedSource == IF FHand.FreeBuffer THEN {"Source"} ELSE {}

OpenFails ==
  /\ reading = "failed" /\ reading' = "none"
  /\ pools' = pools \ ({"FHand"} \cup FreedSource)
  /\ UNCHANGED <<source, path, FilePath, FilePathNode, FileHandle, unopened, FHand, OpenStatus,
                 files, length, request, answer>>

-----------------------------------------------------------------------------
Uintn(n) == n % 2^UintnBits
Bytes(from, count) == [k \in 1..count |-> from + k]

BytesLeft(offset, size) == IF offset >= size THEN 0 ELSE size - offset

(* Bytes are named by their places in the file; the sum may wrap around.   *)
ReadSimpleReadFile ==
  /\ reading \in {"opened", "read"} /\ OpenStatus = "SUCCESS"
  /\ \E offset \in Offsets, size \in Offsets :
       LET end == Uintn(offset + size)
           limit == IF FHand.Source THEN FHand.SourceSize ELSE length
           count == IF FHand.Source
                    THEN IF end > limit THEN BytesLeft(offset, limit) ELSE size
                    ELSE Min({size, Max({0, limit - offset})})
       IN  /\ request' = [Offset |-> offset, ReadSize |-> size]
           /\ answer' = Bytes(offset, count)
  /\ reading' = "read"
  /\ UNCHANGED <<source, path, FilePath, FilePathNode, FileHandle, unopened, FHand, OpenStatus,
                 files, pools, length>>

CloseSimpleReadFile ==
  /\ reading \in {"opened", "read"} /\ reading' = "none"
  /\ files' = files \ {FHand.FileHandle}
  /\ pools' = pools \ ({"FHand"} \cup FreedSource)
  /\ UNCHANGED <<source, path, FilePath, FilePathNode, FileHandle, unopened, FHand, OpenStatus,
                 length, request, answer>>

ReadNext ==
  \/ OpenMemory \/ OpenVolume \/ OpenNode \/ EndWalk \/ LoadFile \/ FillBuffer
  \/ OpenFails \/ ReadSimpleReadFile \/ CloseSimpleReadFile

ReadSpec == ReadInit /\ [][ReadNext]_readVars

-----------------------------------------------------------------------------
(* At every step at most one file is open, the one at hand, and after a    *)
(* failure or a close no file is open and no pool allocated.               *)
FilesAndPools ==
  /\ files = {FileHandle} \ {NoFile} \/ reading = "none"
  /\ reading = "none" => files = {} /\ pools = {}
  /\ reading = "opened" => "Source" \in pools <=> FHand.FreeBuffer

(* The fallback asks for the user's path, of which nothing is cut off when *)
(* a node is no file's; but where the volume was located and it or a file  *)
(* could not be opened the rest of the path is what is loaded.             *)
LoadsUserPath == reading = "load" /\ ~unopened => FilePath = 1

(* What is read is the part of the file that is asked for, as far as there *)
(* is one, and so long as the end of the part is a UINTN.                  *)
ReadsWhatIsAsked ==
  reading = "read" /\ request.Offset + request.ReadSize < 2^UintnBits =>
    LET asked == Bytes(request.Offset, request.ReadSize)
    IN  /\ Len(answer) <= Len(asked)
        /\ \A k \in DOMAIN asked :
             IF k <= Len(answer) THEN answer[k] = asked[k] /\ answer[k] <= length
             ELSE asked[k] > length

(* OpenSimpleReadFile and ReadSimpleReadFile give the bytes that are asked *)
(* for, leave no file or buffer behind, and load by the caller's path.     *)
FilesRead ==
  /\ FilesAndPools
  /\ LoadsUserPath
  /\ ReadsWhatIsAsked
=============================================================================
