----------------------------- MODULE GrowBuffer -----------------------------
(***************************************************************************)
(* Reading what has no known size from the firmware (lib/misc.c and        *)
(* lib/hand.c): GrowBuffer allocates a buffer, the service is asked again  *)
(* as long as it finds the buffer too small, and what is read may change   *)
(* between two questions; the memory map does so by the allocation itself. *)
(* Sizes count elements: descriptors, handles, boot options or units of a  *)
(* file's information.                                                     *)
(***************************************************************************)
EXTENDS Integers, SequencesExt, FiniteSetsExt

CONSTANTS
  MapReaders,     (* LibMemoryMap                                          *)
  InfoReaders,    (* LibFileInfo, LibFileSystemInfo, ...VolumeLabelInfo    *)
  HandleReaders,  (* the callers of LocateHandle; their modules go on      *)
  VariableUsers,  (* LibGetVariable, LibDeleteVariable,                    *)
                  (* LibInsertToTailOfBootOrder                            *)
  Elements,       (* what the maps, lists and variables are made of        *)
  MaxLength,      (* of them                                               *)
  FirstSize,      (* the size of the first buffer                          *)
  Ids,            (* names of pool allocations                             *)
  MaxChanges      (* bound: changes of what is read, by notifications      *)

VARIABLES
  task,           (* the function that runs                                *)
  growing,        (* where it is                                           *)
  Status, Buffer, BufferSize,
  pool,           (* the size of each allocation that is not freed         *)
  object,         (* what is read; a variable that is not set is empty     *)
  read,           (* what the service wrote into the buffer                *)
  changes,
  boot            (* the caller's arguments and the option array           *)

growVars ==
  <<task, growing, Status, Buffer, BufferSize, pool, object, read, changes, boot>>

NULL == 0

(* Two buffers differ, and neither is at NULL.                             *)
ASSUME GrowAssumption ==
  /\ Ids \subseteq Nat \ {NULL} /\ Ids # {} /\ \A b \in Ids : Ids \ {b} # {}
  /\ FirstSize \in Nat \ {0} /\ MaxLength \in Nat /\ Elements # {}
  /\ \A t \in MapReaders \cup InfoReaders \cup HandleReaders :
       t \notin {"LibGetVariable", "LibDeleteVariable", "LibInsertToTailOfBootOrder"}

NoArray == [BootOption |-> CHOOSE e \in Elements : TRUE, OnlyInsertIfEmpty |-> FALSE,
            NewBootOptionArray |-> NULL, VarSize |-> 0, listed |-> <<>>]
IsError(status) == status # "SUCCESS"

Objects == {o \in BoundedSeq(Elements, MaxLength) : IsInjective(o)}
Readers == MapReaders \cup InfoReaders \cup HandleReaders \cup VariableUsers

ObjectsOf(t) ==
  IF t \in HandleReaders \cup VariableUsers THEN Objects ELSE Objects \ {<<>>}

BootCall(option, empty, order) ==
  [NoArray EXCEPT !.BootOption = option, !.OnlyInsertIfEmpty = empty, !.listed = order]

GrowInit ==
  /\ task \in Readers /\ object \in ObjectsOf(task)
  /\ \E option \in Elements, empty \in BOOLEAN :
       boot = IF task = "LibInsertToTailOfBootOrder" THEN BootCall(option, empty, object)
              ELSE BootCall(NoArray.BootOption, FALSE, object)
  /\ growing = "grow" /\ Status = "SUCCESS"
  /\ Buffer = NULL /\ BufferSize = FirstSize
  /\ pool = [b \in {} |-> 0] /\ read = <<>> /\ changes = 0

Without(p, b) == [c \in DOMAIN p \ {b} |-> p[c]]
With(p, b, size) == [c \in DOMAIN p \cup {b} |-> IF c = b THEN size ELSE p[c]]
Fresh(p) == Min(Ids \ DOMAIN p)

(* Allocating and freeing splits and merges descriptors of the memory map. *)
MapAfter(o) ==
  IF task \in MapReaders
  THEN {o} \cup {Append(o, e) : e \in IF Len(o) < MaxLength THEN Elements \ Range(o) ELSE {}}
           \cup {IF Len(o) > 1 THEN Front(o) ELSE o}
  ELSE {o}

-----------------------------------------------------------------------------
Grown(status, buf, p, where) ==
  /\ Status' = status /\ Buffer' = buf /\ pool' = p /\ growing' = where
  /\ UNCHANGED <<task, BufferSize, read, changes, boot>>

TooSmall == (Buffer = NULL /\ BufferSize > 0) \/ Status = "BUFFER_TOO_SMALL"

Freed == Without(pool, Buffer)

Allocated(p) ==
  Grown("BUFFER_TOO_SMALL", Fresh(p), With(p, Fresh(p), BufferSize), "ask")

NoMemory_Retry(p) == Grown(Status, NULL, p, "grow")   \* mutation: the loop goes on
NoMemory(p) == Grown("OUT_OF_RESOURCES", NULL, p, "grown")

Settled_Keeps == Grown(Status, Buffer, pool, "grown")   \* mutation: also with an error
Settled ==
  IF IsError(Status) THEN Grown(Status, NULL, Freed, "grown")
  ELSE Grown(Status, Buffer, pool, "grown")

(* A buffer is allocated at first and again when it was too small; on      *)
(* every other error it is freed.                                          *)
Grow ==
  /\ growing = "grow"
  /\ \/ TooSmall /\ object' \in MapAfter(object) /\ (Allocated(Freed) \/ NoMemory(Freed))
     \/ ~TooSmall /\ UNCHANGED object /\ Settled

(* The service: a buffer that is too small is told the size that is needed *)
(* and left alone.                                                         *)
Ask ==
  /\ growing = "ask" /\ growing' = "grow"
  /\ UNCHANGED <<task, Buffer, pool, object, changes, boot>>
  /\ \/ object = <<>> /\ Status' = "NOT_FOUND" /\ UNCHANGED <<BufferSize, read>>
     \/ /\ Len(object) > BufferSize
        /\ Status' = "BUFFER_TOO_SMALL" /\ BufferSize' = Len(object) /\ UNCHANGED read
     \/ /\ object # <<>> /\ Len(object) <= BufferSize
        /\ Status' = "SUCCESS" /\ BufferSize' = Len(object) /\ read' = object
     \/ /\ task \notin MapReaders \cup HandleReaders
        /\ Status' = "DEVICE_ERROR" /\ UNCHANGED <<BufferSize, read>>

(* A notification allocates memory, or installs or removes an interface.   *)
Change ==
  /\ growing \in {"grow", "ask", "scan"} /\ task \in MapReaders \cup HandleReaders
  /\ changes < MaxChanges /\ changes' = changes + 1
  /\ \/ \E e \in Elements \ Range(object) : object' = Append(object, e)
     \/ \E i \in DOMAIN object : object' = RemoveAt(object, i)
  /\ task \in MapReaders => object' # <<>>
  /\ UNCHANGED <<task, growing, Status, Buffer, BufferSize, pool, read, boot>>

-----------------------------------------------------------------------------
Ends(status, p) ==
  /\ growing' = "done" /\ Status' = status /\ pool' = p
  /\ UNCHANGED <<task, Buffer, BufferSize, read, changes>>

(* What is read is returned, with its size: nothing if there is no buffer. *)
ReturnBuffer ==
  /\ growing = "grown"
  /\ task \in MapReaders \cup InfoReaders \cup {"LibGetVariable"}
  /\ Ends(Status, pool) /\ UNCHANGED <<object, boot>>

LibDeleteVariable ==
  /\ growing = "grown" /\ task = "LibDeleteVariable"
  /\ UNCHANGED boot
  /\ \/ Buffer = NULL /\ Ends("NOT_FOUND", pool) /\ UNCHANGED object
     \/ /\ Buffer # NULL
        /\ \/ Ends("SUCCESS", Without(pool, Buffer)) /\ object' = <<>>
           \/ Ends("WRITE_PROTECTED", Without(pool, Buffer)) /\ UNCHANGED object

(* The second half of LibInsertToTailOfBootOrder begins with an array of   *)
(* one more option.  Without memory for it the first array is not freed.   *)
InsertToTail ==
  /\ growing = "grown" /\ task = "LibInsertToTailOfBootOrder"
  /\ UNCHANGED object
  /\ LET size == IF Buffer = NULL THEN 0 ELSE BufferSize
     IN  \/ /\ size # 0 /\ boot.OnlyInsertIfEmpty
            /\ Ends("UNSUPPORTED", Without(pool, Buffer)) /\ UNCHANGED boot
         \/ /\ ~(size # 0 /\ boot.OnlyInsertIfEmpty)
            /\ \/ Ends("OUT_OF_RESOURCES", pool) /\ UNCHANGED boot
               \/ /\ growing' = "write"
                  /\ pool' = With(pool, Fresh(pool), size + 1)
                  /\ boot' = [boot EXCEPT !.NewBootOptionArray = Fresh(pool),
                                          !.VarSize = size + 1]
                  /\ UNCHANGED <<task, Status, Buffer, BufferSize, read, changes>>

TailOf(old, option) == Append(old, option)

WriteBootOrder ==
  /\ growing = "write"
  /\ LET left == Without(Without(pool, boot.NewBootOptionArray), Buffer)
         order == TailOf(SubSeq(read, 1, boot.VarSize - 1), boot.BootOption)
     IN  \/ Ends("SUCCESS", left) /\ object' = order
         \/ Ends("WRITE_PROTECTED", left) /\ UNCHANGED object
  /\ UNCHANGED boot

GrowNext ==
  Grow \/ Ask \/ Change \/ ReturnBuffer \/ LibDeleteVariable \/ InsertToTail \/ WriteBootOrder

GrowSpec == GrowInit /\ [][GrowNext]_growVars

-----------------------------------------------------------------------------
GrowTypeOK ==
  /\ task \in Readers
  /\ growing \in {"grow", "ask", "grown", "write", "scan", "done"}
  /\ Buffer \in Ids \cup {NULL} /\ BufferSize \in Nat \ {0}
  /\ DOMAIN pool \subseteq Ids /\ \A b \in DOMAIN pool : pool[b] \in Nat \ {0}
  /\ Range(read) \subseteq Elements

(* The size the firmware is told is that of a live allocation, whatever    *)
(* changed, was freed or found too small before.                           *)
ToldTrueSize == growing = "ask" => Buffer \in DOMAIN pool /\ pool[Buffer] = BufferSize

(* A buffer is returned exactly when the last question was answered; it    *)
(* holds that answer as a whole.                                           *)
ReadAsAWhole ==
  growing = "grown" =>
    /\ (Buffer # NULL) <=> ~IsError(Status)
    /\ Buffer # NULL => /\ Buffer \in DOMAIN pool /\ pool[Buffer] >= BufferSize
                        /\ Len(read) = BufferSize /\ read # <<>>

(* Each function leaves allocated what it returns, and nothing else; but   *)
(* LibInsertToTailOfBootOrder without memory for the new array leaves the  *)
(* old one.                                                                *)
OnlyTheResultIsLeft ==
  growing = "done" /\ task \notin HandleReaders =>
    DOMAIN pool =
      IF task \in MapReaders \cup InfoReaders \cup {"LibGetVariable"}
           \/ (task = "LibInsertToTailOfBootOrder" /\ Status = "OUT_OF_RESOURCES")
      THEN {Buffer} \ {NULL} ELSE {}

(* The boot order is extended at its end, never reordered or filled where  *)
(* only an empty one was to be; it is lost, with just the new option left, *)
(* when it could not be read.                                              *)
BootOrderExtended ==
  growing = "done" /\ task = "LibInsertToTailOfBootOrder" =>
    LET old == boot.listed
    IN  IF IsError(Status) THEN object = old
        ELSE \/ object = Append(old, boot.BootOption) /\ (boot.OnlyInsertIfEmpty => old = <<>>)
             \/ old # <<>> /\ Buffer = NULL /\ object = <<boot.BootOption>>

(* The questions end: a service that finds the buffer too small asks for   *)
(* more each time, and there is a longest map.                             *)
QuestionsEnd == <>(growing \in {"grown", "done"})

(* A question that is asked with GrowBuffer, until the answer fits, gives  *)
(* one answer of the firmware as a whole, with its size, and leaves no     *)
(* other buffer; a boot order that it could read is only extended.         *)
AnswersWhole ==
  /\ GrowTypeOK
  /\ ToldTrueSize
  /\ ReadAsAWhole
  /\ OnlyTheResultIsLeft
  /\ BootOrderExtended
=============================================================================
