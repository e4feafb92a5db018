-------------------------- MODULE DragonStubProofs --------------------------
(***************************************************************************)
(* Theorems about the boot path, for every length of the memory map, every *)
(* number of spare descriptors and both kinds of firmware.                 *)
(***************************************************************************)
EXTENDS DragonStub, TLAPS

-----------------------------------------------------------------------------
(* Types.  The firmware's variables first: whatever a call of the stub     *)
(* does to them leaves them well typed.                                    *)

(* A firmware call as the stub makes it, whatever its outcome.             *)
FwCall ==
  \/ Quiet
  \/ MapMayChange /\ UNCHANGED <<bs, pools, pages, table, frees, events>>
  \/ \E p \in Pools : AllocatePool(p)
  \/ \E p \in Pages : AllocatePages(p)
  \/ \E p \in Pools \cup {Null, "stackSlot"} : FreePool(p)
  \/ \E p \in Pages : FreePages(p)
  \/ \E g \in Guids, p \in Pools \cup {Null} : InstallConfigurationTable(g, p)
  \/ HandOutMap
  \/ \E key \in Nat : ExitAccepted(key) \/ ExitStaleKey(key)
  \/ ExitRefused

(* A call that may change the map leaves its key and length well typed.    *)
LEMMA MapTyped ==
  ASSUME FwTypeOK, MapMayChange
  PROVE  mapKey' \in Nat /\ mapLen' \in 1..MaxLen /\ keyOut' \in BOOLEAN
<1>1. mapKey \in Nat /\ mapLen \in 1..MaxLen /\ keyOut \in BOOLEAN
  BY DEF FwTypeOK
<1>2. CASE MapChanges
  <2>1. mapKey' \in Nat
    BY <1>1, <1>2 DEF MapChanges
  <2>2. mapLen' \in 1..MaxLen
    BY <1>2 DEF MapChanges
  <2>3. keyOut' \in BOOLEAN
    BY <1>2 DEF MapChanges
  <2> QED
    BY <2>1, <2>2, <2>3
<1>3. CASE UNCHANGED map
  BY <1>1, <1>3 DEF map
<1> QED
  BY <1>2, <1>3 DEF MapMayChange

(* What the history records of a free is one of its records.               *)
LEMMA FreedTyped ==
  ASSUME FwTypeOK, NEW p \in Freeable
  PROVE  Freed(p) \in [what : Freeable, bs : Services, live : BOOLEAN]
<1>1. bs \in Services
  BY DEF FwTypeOK
<1>2. (p \in pools \cup pages) \in BOOLEAN
  OBVIOUS
<1> QED
  BY <1>1, <1>2 DEF Freed

(* No firmware call and no firmware event takes a firmware variable out of *)
(* its type.                                                               *)
LEMMA FwTyped == FwTypeOK /\ (FwCall \/ FirmwareEvent) => FwTypeOK'
<1> SUFFICES ASSUME FwTypeOK, FwCall \/ FirmwareEvent PROVE FwTypeOK'
  OBVIOUS
<1> USE BootServicesAssumption
<1>1. CASE Quiet
  BY <1>1 DEF Quiet, fwVars, FwTypeOK
<1>2. CASE MapMayChange /\ UNCHANGED <<bs, pools, pages, table, frees, events>>
  BY <1>2, MapTyped DEF FwTypeOK
<1>3. CASE \E p \in Pools : AllocatePool(p)
  BY <1>3, MapTyped DEF FwTypeOK, AllocatePool
<1>4. CASE \E p \in Pages : AllocatePages(p)
  BY <1>4, MapTyped DEF FwTypeOK, AllocatePages
<1>5. CASE \E p \in Pools \cup {Null, "stackSlot"} : FreePool(p)
  BY <1>5, MapTyped, FreedTyped DEF FwTypeOK, FreePool, Freeable
<1>6. CASE \E p \in Pages : FreePages(p)
  BY <1>6, MapTyped, FreedTyped DEF FwTypeOK, FreePages, Freeable
<1>7. CASE \E g \in Guids, p \in Pools \cup {Null} :
             InstallConfigurationTable(g, p)
  BY <1>7, MapTyped DEF FwTypeOK, InstallConfigurationTable
<1>8. CASE HandOutMap
  BY <1>8 DEF HandOutMap, FwTypeOK
<1>9. CASE \E key \in Nat : ExitAccepted(key) \/ ExitStaleKey(key)
  BY <1>9, MapTyped
  DEF FwTypeOK, ExitAccepted, ExitStaleKey, Services, map, MapMayChange
<1>10. CASE ExitRefused
  BY <1>10 DEF FwTypeOK, ExitRefused, Services, map
<1>11. CASE FirmwareEvent
  <2>1. MapMayChange /\ UNCHANGED <<bs, pools, pages, table, frees>>
    BY <1>11 DEF FirmwareEvent, MapMayChange
  <2>2. events' \in 0..MaxEvents
    BY <1>11 DEF FirmwareEvent, FwTypeOK
  <2> QED
    BY <2>1, <2>2, MapTyped DEF FwTypeOK
<1> QED
  BY <1>1, <1>2, <1>3, <1>4, <1>5, <1>6, <1>7, <1>8, <1>9, <1>10, <1>11
  DEF FwCall

(* Every step of the stub makes one firmware call, or none.                *)
LEMMA StubCalls == TypeOK /\ StubNext => FwCall
<1> SUFFICES ASSUME TypeOK, StubNext PROVE FwCall
  OBVIOUS
<1> USE DEF FwCall, Pools, Pages, Guids
<1>1. CASE OpenLoadedImage
  BY <1>1 DEF OpenLoadedImage
<1>2. CASE ConvertCmdline
  BY <1>2 DEF ConvertCmdline
<1>3. CASE ParseOptions
  BY <1>3 DEF ParseOptions
<1>4. CASE FindPayload
  BY <1>4 DEF FindPayload
<1>5. CASE CheckPlatformFeatures
  BY <1>5 DEF CheckPlatformFeatures
<1>6. CASE CheckRtServices
  BY <1>6 DEF CheckRtServices
<1>7. CASE AllocMemreserve
  BY <1>7 DEF AllocMemreserve
<1>8. CASE InstallMemreserve
  BY <1>8 DEF InstallMemreserve
<1>9. CASE LoadProgram
  BY <1>9 DEF LoadProgram
<1>10. CASE AllocPayloadTable
  BY <1>10 DEF AllocPayloadTable
<1>11. CASE InstallPayloadTable
  BY <1>11 DEF InstallPayloadTable
<1>12. CASE ProbeVirtmap
  BY <1>12 DEF ProbeVirtmap, Probe
<1>13. CASE AllocVirtmap
  BY <1>13 DEF AllocVirtmap
<1>14. CASE GetFdt
  BY <1>14 DEF GetFdt
<1>15. CASE AllocNewFdt
  BY <1>15 DEF AllocNewFdt
<1>16. CASE UpdateFdt
  BY <1>16 DEF UpdateFdt
<1>17. CASE ProbeMap
  BY <1>17 DEF ProbeMap, Probe
<1>18. CASE AllocMap
  BY <1>18 DEF AllocMap
<1>19. CASE InstallMap
  BY <1>19 DEF InstallMap
<1>20. CASE FillMap
  BY <1>20 DEF FillMap, Fill
<1>21. CASE UninstallMap
  BY <1>21 DEF UninstallMap
<1>22. CASE FreeMap
  BY <1>22 DEF FreeMap
<1>23. CASE PrivFunc
  BY <1>23 DEF PrivFunc
<1>24. CASE ExitBootServices
  BY <1>24 DEF ExitBootServices, TypeOK, StubTypeOK
<1>25. CASE RetryFill
  BY <1>25 DEF RetryFill, Fill
<1>26. CASE RetryPrivFunc
  BY <1>26 DEF RetryPrivFunc
<1>27. CASE RetryExit
  BY <1>27 DEF RetryExit, TypeOK, StubTypeOK
<1>28. CASE SetVirtualAddressMap
  BY <1>28 DEF SetVirtualAddressMap
<1>29. CASE EnterKernel
  BY <1>29 DEF EnterKernel
<1>30. CASE FreeNewFdt
  BY <1>30 DEF FreeNewFdt
<1>31. CASE FreeFdt
  BY <1>31 DEF FreeFdt, TypeOK, StubTypeOK
<1>32. CASE FreeVirtmap
  BY <1>32 DEF FreeVirtmap
<1> QED
  BY <1>1, <1>2, <1>3, <1>4, <1>5, <1>6, <1>7, <1>8, <1>9, <1>10, <1>11, <1>12, <1>13, <1>14, <1>15, <1>16, <1>17, <1>18, <1>19, <1>20, <1>21, <1>22, <1>23, <1>24, <1>25, <1>26, <1>27, <1>28, <1>29, <1>30, <1>31, <1>32
  DEF StubNext, Prepare, GetMemoryMap, Exit, Fail

(* Reading the map into the buffer leaves a buffer.                         *)
LEMMA FillTyped ==
  ASSUME TypeOK, NEW room, NEW next \in PCs, NEW failure \in PCs,
         Fill(room, next, failure)
  PROVE  StubTypeOK'
<1>1. mapKey \in Nat /\ mapLen \in Nat
  BY BootServicesAssumption DEF TypeOK, FwTypeOK
<1>2. buf' \in [key : Nat, len : Nat, cap : Nat]
  <2>1. CASE buf' = [buf EXCEPT !.key = mapKey, !.len = mapLen]
    BY <1>1, <2>1 DEF TypeOK, StubTypeOK
  <2>2. CASE buf' = buf
    BY <2>2 DEF TypeOK, StubTypeOK
  <2> QED
    BY <2>1, <2>2 DEF Fill, Goto, stubVars
<1>3. pc' \in PCs
  BY DEF Fill, Goto
<1>4. UNCHANGED <<ret, novamap, hartid, loaded, fdtAddr, fdtSize, probeLen,
                  vmKey, va>>
  BY DEF Fill, Goto, stubVars
<1> QED
  BY <1>2, <1>3, <1>4 DEF TypeOK, StubTypeOK

(* ... and leaves the stub's own variables well typed.                     *)
LEMMA StubTyped == TypeOK /\ StubNext => StubTypeOK'
<1> SUFFICES ASSUME TypeOK, StubNext PROVE StubTypeOK'
  OBVIOUS
<1> USE DEF TypeOK, StubTypeOK, FwTypeOK, PCs, Goto, Return, stubVars
<1>1. CASE OpenLoadedImage
  BY <1>1 DEF OpenLoadedImage
<1>2. CASE ConvertCmdline
  BY <1>2 DEF ConvertCmdline
<1>3. CASE ParseOptions
  BY <1>3 DEF ParseOptions
<1>4. CASE FindPayload
  BY <1>4 DEF FindPayload
<1>5. CASE CheckPlatformFeatures
  BY <1>5 DEF CheckPlatformFeatures
<1>6. CASE CheckRtServices
  BY <1>6 DEF CheckRtServices
<1>7. CASE AllocMemreserve
  BY <1>7 DEF AllocMemreserve
<1>8. CASE InstallMemreserve
  BY <1>8 DEF InstallMemreserve
<1>9. CASE LoadProgram
  <2>1. loaded' \in BOOLEAN
    BY <1>9 DEF LoadProgram
  <2> QED
    BY <1>9, <2>1 DEF LoadProgram
<1>10. CASE AllocPayloadTable
  BY <1>10 DEF AllocPayloadTable
<1>11. CASE InstallPayloadTable
  BY <1>11 DEF InstallPayloadTable
<1>12. CASE ProbeVirtmap
  BY <1>12 DEF ProbeVirtmap, Probe
<1>13. CASE AllocVirtmap
  BY <1>13 DEF AllocVirtmap
<1>14. CASE GetFdt
  BY <1>14 DEF GetFdt
<1>15. CASE AllocNewFdt
  BY <1>15 DEF AllocNewFdt
<1>16. CASE UpdateFdt
  BY <1>16, BootServicesAssumption DEF UpdateFdt, Placeholder
<1>17. CASE ProbeMap
  BY <1>17 DEF ProbeMap, Probe
<1>18. CASE AllocMap
  BY <1>18, SlackAssumption DEF AllocMap
<1>19. CASE InstallMap
  BY <1>19 DEF InstallMap
<1>20. CASE FillMap
  BY <1>20, FillTyped DEF FillMap
<1>21. CASE UninstallMap
  BY <1>21 DEF UninstallMap
<1>22. CASE FreeMap
  BY <1>22 DEF FreeMap
<1>23. CASE PrivFunc
  BY <1>23 DEF PrivFunc, ExitBootFunc, Absent
<1>24. CASE ExitBootServices
  BY <1>24 DEF ExitBootServices
<1>25. CASE RetryFill
  BY <1>25, FillTyped DEF RetryFill
<1>26. CASE RetryPrivFunc
  BY <1>26 DEF RetryPrivFunc, ExitBootFunc, Absent
<1>27. CASE RetryExit
  BY <1>27 DEF RetryExit
<1>28. CASE SetVirtualAddressMap
  BY <1>28 DEF SetVirtualAddressMap
<1>29. CASE EnterKernel
  BY <1>29 DEF EnterKernel
<1>30. CASE FreeNewFdt
  BY <1>30 DEF FreeNewFdt
<1>31. CASE FreeFdt
  BY <1>31 DEF FreeFdt
<1>32. CASE FreeVirtmap
  BY <1>32 DEF FreeVirtmap
<1> QED
  BY <1>1, <1>2, <1>3, <1>4, <1>5, <1>6, <1>7, <1>8, <1>9, <1>10, <1>11, <1>12, <1>13, <1>14, <1>15, <1>16, <1>17, <1>18, <1>19, <1>20, <1>21, <1>22, <1>23, <1>24, <1>25, <1>26, <1>27, <1>28, <1>29, <1>30, <1>31, <1>32
  DEF StubNext, Prepare, GetMemoryMap, Exit, Fail

-----------------------------------------------------------------------------
(* The variables of the firmware and of the stub always have their types.  *)
THEOREM TypeCorrect == Spec => []TypeOK
<1>1. Init => TypeOK
  <2> SUFFICES ASSUME Init PROVE TypeOK
    OBVIOUS
  <2>1. FwTypeOK
    <3>1. keyOut \in BOOLEAN
      BY DEF Init, FwInit
    <3>2. pages \subseteq Pages
      BY DEF Init, FwInit, Pages
    <3>3. table \in [Guids -> Pools \cup {Null}]
      BY DEF Init, FwInit
    <3> QED
      BY <3>1, <3>2, <3>3, BootServicesAssumption
      DEF Init, FwInit, FwTypeOK, Services
  <2>2. StubTypeOK
    BY DEF Init, StubTypeOK, PCs, Absent
  <2> QED
    BY <2>1, <2>2 DEF TypeOK
<1>2. TypeOK /\ [Next]_vars => TypeOK'
  <2> SUFFICES ASSUME TypeOK, [Next]_vars PROVE TypeOK'
    OBVIOUS
  <2>1. CASE StubNext
    BY <2>1, StubCalls, FwTyped, StubTyped DEF TypeOK
  <2>2. CASE FirmwareEvent /\ UNCHANGED <<pc, stubVars>>
    <3>1. FwTypeOK'
      BY <2>2, FwTyped DEF TypeOK
    <3>2. StubTypeOK'
      BY <2>2 DEF TypeOK, StubTypeOK, stubVars
    <3> QED
      BY <3>1, <3>2 DEF TypeOK
  <2>3. CASE UNCHANGED vars
    BY <2>3 DEF vars, fwVars, stubVars, TypeOK, FwTypeOK, StubTypeOK
  <2> QED
    BY <2>1, <2>2, <2>3 DEF Next
<1> QED
  BY <1>1, <1>2, PTL DEF Spec

-----------------------------------------------------------------------------
(* The memory map.                                                         *)

(* What makes ExitBootServices a safe point of no return: its key can only *)
(* be accepted if the buffer holds the current map, and exit_boot_func has *)
(* run on what the buffer holds.                                           *)
MapInv ==
  /\ buf.key <= mapKey
  /\ ~keyOut => buf.key < mapKey
  /\ buf.key = mapKey => buf.len = mapLen
  /\ pc \in {"exit1", "exit2"} => /\ fdtSize = buf.len
                                  /\ ~novamap => vmKey = buf.key
  /\ HandoffMapIsFinal
  /\ bs = "down" <=> Exited

(* What a successful reading of the map leaves in the buffer.              *)
LEMMA FillReads ==
  ASSUME TypeOK, NEW room, NEW next, NEW failure, Fill(room, next, failure)
  PROVE  \/ /\ pc' = next
            /\ buf'.key = mapKey /\ buf'.len = mapLen
            /\ keyOut' /\ UNCHANGED <<bs, mapKey, mapLen, novamap, vmKey>>
         \/ pc' = failure /\ UNCHANGED <<fwVars, buf, novamap, vmKey>>
<1>1. buf \in [key : Nat, len : Nat, cap : Nat]
  BY DEF TypeOK, StubTypeOK
<1> QED
  BY <1>1 DEF Fill, HandOutMap, Goto, Quiet, stubVars

(* No step, whoever makes it, breaks the invariant of the memory map.      *)
LEMMA MapStep == TypeOK /\ MapInv /\ [Next]_vars => MapInv'
<1> SUFFICES ASSUME TypeOK, MapInv, [Next]_vars PROVE MapInv'
  OBVIOUS
<1> USE DEF MapInv, HandoffMapIsFinal, Exited, TypeOK, StubTypeOK, FwTypeOK,
            Goto, Return, stubVars, Quiet, fwVars, map, MapMayChange,
            MapChanges, AllocatePool, AllocatePages, FreePool, FreePages,
            InstallConfigurationTable, HandOutMap, ExitAccepted,
            ExitStaleKey, ExitRefused
<1>1. CASE OpenLoadedImage
  BY <1>1 DEF OpenLoadedImage
<1>2. CASE ConvertCmdline
  BY <1>2 DEF ConvertCmdline
<1>3. CASE ParseOptions
  BY <1>3 DEF ParseOptions
<1>4. CASE FindPayload
  BY <1>4 DEF FindPayload
<1>5. CASE CheckPlatformFeatures
  BY <1>5 DEF CheckPlatformFeatures
<1>6. CASE CheckRtServices
  BY <1>6 DEF CheckRtServices
<1>7. CASE AllocMemreserve
  BY <1>7 DEF AllocMemreserve
<1>8. CASE InstallMemreserve
  BY <1>8 DEF InstallMemreserve
<1>9. CASE LoadProgram
  BY <1>9 DEF LoadProgram
<1>10. CASE AllocPayloadTable
  BY <1>10 DEF AllocPayloadTable
<1>11. CASE InstallPayloadTable
  BY <1>11 DEF InstallPayloadTable
<1>12. CASE ProbeVirtmap
  BY <1>12 DEF ProbeVirtmap, Probe
<1>13. CASE AllocVirtmap
  BY <1>13 DEF AllocVirtmap
<1>14. CASE GetFdt
  BY <1>14 DEF GetFdt
<1>15. CASE AllocNewFdt
  BY <1>15 DEF AllocNewFdt
<1>16. CASE UpdateFdt
  BY <1>16 DEF UpdateFdt
<1>17. CASE ProbeMap
  BY <1>17 DEF ProbeMap, Probe
<1>18. CASE AllocMap
  BY <1>18 DEF AllocMap
<1>19. CASE InstallMap
  BY <1>19 DEF InstallMap
<1>20. CASE FillMap
  BY <1>20, FillReads DEF FillMap
<1>21. CASE UninstallMap
  BY <1>21 DEF UninstallMap
<1>22. CASE FreeMap
  BY <1>22 DEF FreeMap
<1>23. CASE PrivFunc
  BY <1>23 DEF PrivFunc, ExitBootFunc
<1>24. CASE ExitBootServices
  BY <1>24 DEF ExitBootServices
<1>25. CASE RetryFill
  BY <1>25, FillReads DEF RetryFill
<1>26. CASE RetryPrivFunc
  BY <1>26 DEF RetryPrivFunc, ExitBootFunc
<1>27. CASE RetryExit
  BY <1>27 DEF RetryExit
<1>28. CASE SetVirtualAddressMap
  BY <1>28 DEF SetVirtualAddressMap
<1>29. CASE EnterKernel
  BY <1>29 DEF EnterKernel
<1>30. CASE FreeNewFdt
  BY <1>30 DEF FreeNewFdt
<1>31. CASE FreeFdt
  BY <1>31 DEF FreeFdt
<1>32. CASE FreeVirtmap
  BY <1>32 DEF FreeVirtmap
<1>33. CASE FirmwareEvent /\ UNCHANGED <<pc, stubVars>>
  BY <1>33 DEF FirmwareEvent
<1>34. CASE UNCHANGED vars
  BY <1>34 DEF vars
<1> QED
  BY  <1>1, <1>2, <1>3, <1>4, <1>5, <1>6, <1>7, <1>8, <1>9, <1>10, <1>11, <1>12, <1>13, <1>14, <1>15, <1>16, <1>17, <1>18, <1>19, <1>20, <1>21, <1>22, <1>23, <1>24, <1>25, <1>26, <1>27, <1>28, <1>29, <1>30, <1>31, <1>32, <1>33, <1>34
  DEF Next, StubNext, Prepare, GetMemoryMap, Exit, Fail
-----------------------------------------------------------------------------
(* Allocations and tables.                                                 *)

Early == {"start", "cmdline", "options", "payload", "platform"}
BeforePayload == Early \cup {"rtProps", "rsvAlloc", "rsvInstall", "loadElf",
                             "payloadAlloc", "payloadInstall"}
BeforeVirtmap == BeforePayload \cup {"virtmapProbe", "virtmapAlloc"}
BeforeNewFdt == BeforeVirtmap \cup {"getFdt", "allocFdt"}
BeforeMap == BeforeNewFdt \cup {"updateFdt", "mapProbe", "mapAlloc"}
WithMap == {"mapFill", "uninstall", "privFunc", "exit1", "retryFill",
            "retryPriv", "exit2", "exited", "enter", "kernel"}

(* What each stretch of the code owns, and which tables are installed.     *)
ResourceInv ==
  /\ table["memreserve"] \in {Null, "rsv"}
  /\ table["memreserve"] = "rsv" \/ pc = "rsvInstall" => "rsv" \in pools
  /\ table["payload"] \in {Null, "payloadTbl"}
  /\ table["payload"] = "payloadTbl" \/ pc = "payloadInstall"
       => "payloadTbl" \in pools
  /\ pc \notin BeforePayload \cup {"returned"}
       => table["payload"] = "payloadTbl"
  /\ table["bootMap"] \in {Null, "bootMap"}
  /\ table["bootMap"] = "bootMap" \/ pc \in {"mapInstall", "freeMap"}
       => "bootMap" \in pools
  /\ pc \in BeforeMap \cup {"mapInstall", "freeMap"} => table["bootMap"] = Null
  /\ pc \in WithMap => table["bootMap"] = "bootMap"
  /\ pc \in {"mapProbe", "mapAlloc", "mapInstall", "mapFill", "privFunc"}
       => fdtSize # Absent
  /\ pc \notin BeforeVirtmap \cup {"returned"} /\ ~novamap
       => "virtmap" \in pools
  /\ pc \notin BeforeNewFdt \cup {"freeFdt", "freeVirtmap", "returned"}
       => "newFdt" \in pages
  /\ fdtAddr = "fwFdt" /\ pc \notin {"freeVirtmap", "returned"}
       => "fwFdt" \in pages
  /\ loaded => "kernel" \in pages
  /\ pc \notin Early \cup {"returned"} => hartid # "unset"
  /\ FreesAreLive

(* Freeing what is live keeps the history of frees clean.                  *)
LEMMA LiveFree ==
  ASSUME FreesAreLive, NEW p,
         p \in pools \cup pages \/ p \notin Pools \cup Pages,
         frees' = frees \cup {Freed(p)}
  PROVE  FreesAreLive'
<1> SUFFICES ASSUME NEW f \in frees', f.what \in Pools \cup Pages
             PROVE  f.live
  BY DEF FreesAreLive
<1>1. CASE f \in frees
  BY <1>1 DEF FreesAreLive
<1>2. CASE f = Freed(p)
  BY <1>2 DEF Freed
<1> QED
  BY <1>1, <1>2

(* No step, whoever makes it, breaks the invariant of the resources.       *)
LEMMA ResourceStep == TypeOK /\ ResourceInv /\ [Next]_vars => ResourceInv'
<1> SUFFICES ASSUME TypeOK, ResourceInv, [Next]_vars PROVE ResourceInv'
  OBVIOUS
<1>0. UNCHANGED frees => FreesAreLive'
  BY DEF ResourceInv, FreesAreLive
<1> USE <1>0 DEF ResourceInv, TypeOK, StubTypeOK, FwTypeOK, Early,
            BeforePayload, BeforeVirtmap, BeforeNewFdt, BeforeMap, WithMap,
            Goto, Return, stubVars, Quiet, fwVars, Null, Pools, Pages,
            Guids, AllocatePool, AllocatePages, FreePool, FreePages,
            InstallConfigurationTable, HandOutMap, ExitAccepted,
            ExitStaleKey, ExitRefused
<1>1. CASE OpenLoadedImage
  BY <1>1 DEF OpenLoadedImage
<1>2. CASE ConvertCmdline
  BY <1>2 DEF ConvertCmdline
<1>3. CASE ParseOptions
  BY <1>3, LiveFree DEF ParseOptions
<1>4. CASE FindPayload
  BY <1>4 DEF FindPayload
<1>5. CASE CheckPlatformFeatures
  BY <1>5 DEF CheckPlatformFeatures
<1>6. CASE CheckRtServices
  BY <1>6 DEF CheckRtServices
<1>7. CASE AllocMemreserve
  BY <1>7 DEF AllocMemreserve
<1>8. CASE InstallMemreserve
  BY <1>8 DEF InstallMemreserve
<1>9. CASE LoadProgram
  BY <1>9 DEF LoadProgram
<1>10. CASE AllocPayloadTable
  BY <1>10 DEF AllocPayloadTable
<1>11. CASE InstallPayloadTable
  BY <1>11 DEF InstallPayloadTable
<1>12. CASE ProbeVirtmap
  BY <1>12 DEF ProbeVirtmap, Probe
<1>13. CASE AllocVirtmap
  BY <1>13 DEF AllocVirtmap
<1>14. CASE GetFdt
  BY <1>14 DEF GetFdt
<1>15. CASE AllocNewFdt
  BY <1>15 DEF AllocNewFdt
<1>16. CASE UpdateFdt
  BY <1>16, BootServicesAssumption DEF UpdateFdt, Placeholder, Absent
<1>17. CASE ProbeMap
  BY <1>17 DEF ProbeMap, Probe
<1>18. CASE AllocMap
  BY <1>18 DEF AllocMap
<1>19. CASE InstallMap
  BY <1>19 DEF InstallMap
<1>20. CASE FillMap
  BY <1>20 DEF FillMap, Fill
<1>21. CASE UninstallMap
  BY <1>21 DEF UninstallMap
<1>22. CASE FreeMap
  BY <1>22, LiveFree DEF FreeMap
<1>23. CASE PrivFunc
  BY <1>23, LiveFree DEF PrivFunc, ExitBootFunc
<1>24. CASE ExitBootServices
  BY <1>24 DEF ExitBootServices
<1>25. CASE RetryFill
  BY <1>25 DEF RetryFill, Fill
<1>26. CASE RetryPrivFunc
  BY <1>26 DEF RetryPrivFunc, ExitBootFunc
<1>27. CASE RetryExit
  BY <1>27 DEF RetryExit
<1>28. CASE SetVirtualAddressMap
  BY <1>28 DEF SetVirtualAddressMap
<1>29. CASE EnterKernel
  BY <1>29 DEF EnterKernel
<1>30. CASE FreeNewFdt
  BY <1>30, LiveFree DEF FreeNewFdt
<1>31. CASE FreeFdt
  BY <1>31, LiveFree DEF FreeFdt
<1>32. CASE FreeVirtmap
  BY <1>32, LiveFree DEF FreeVirtmap
<1>33. CASE FirmwareEvent /\ UNCHANGED <<pc, stubVars>>
  BY <1>33 DEF FirmwareEvent
<1>34. CASE UNCHANGED vars
  BY <1>34 DEF vars
<1> QED
  BY  <1>1, <1>2, <1>3, <1>4, <1>5, <1>6, <1>7, <1>8, <1>9, <1>10, <1>11, <1>12, <1>13, <1>14, <1>15, <1>16, <1>17, <1>18, <1>19, <1>20, <1>21, <1>22, <1>23, <1>24, <1>25, <1>26, <1>27, <1>28, <1>29, <1>30, <1>31, <1>32, <1>33, <1>34
  DEF Next, StubNext, Prepare, GetMemoryMap, Exit, Fail

-----------------------------------------------------------------------------
(* The theorems.                                                           *)

(* Init establishes all of it, so it holds in every reachable state.       *)
LEMMA Invariants == Spec => [](TypeOK /\ MapInv /\ ResourceInv)
<1>1. Init => MapInv
  BY DEF Init, FwInit, MapInv, HandoffMapIsFinal, Exited
<1>2. Init => ResourceInv
  <2> SUFFICES ASSUME Init PROVE ResourceInv
    OBVIOUS
  <2>1. FreesAreLive
    BY DEF Init, FwInit, FreesAreLive
  <2> QED
    BY <2>1 DEF Init, FwInit, ResourceInv, Early, BeforePayload, BeforeVirtmap,
                BeforeNewFdt, BeforeMap, WithMap, Guids, Null
<1> QED
  BY <1>1, <1>2, TypeCorrect, MapStep, ResourceStep, PTL DEF Spec

(* The kernel, the device tree and the runtime services are told of the    *)
(* map that ExitBootServices accepted, however often and whenever the      *)
(* firmware changed it: efi_exit_boot_services redoes all it has to.       *)
THEOREM HandoffMapCorrect == Spec => []HandoffMapIsFinal
<1>1. MapInv => HandoffMapIsFinal
  BY DEF MapInv
<1> QED
  BY <1>1, Invariants, PTL

(* No configuration table ever points to memory that was given back, on    *)
(* none of the ways out of efi_get_memory_map and its callers.             *)
THEOREM TablesCorrect == Spec => []NoDanglingTable
<1>1. ResourceInv => NoDanglingTable
  BY DEF ResourceInv, NoDanglingTable, Guids
<1> QED
  BY <1>1, Invariants, PTL

(* The failure labels of allocate_new_fdt_and_exit_boot free only what is  *)
(* allocated when they are reached.                                        *)
THEOREM FreesCorrect == Spec => []FreesAreLive
<1>1. ResourceInv => FreesAreLive
  BY DEF ResourceInv
<1> QED
  BY <1>1, Invariants, PTL

(* What efi_enter_kernel hands over is there when the kernel looks.        *)
THEOREM HandoffMemoryCorrect == Spec => []HandoffMemoryLive
<1>1. ResourceInv => HandoffMemoryLive
  BY DEF ResourceInv, HandoffMemoryLive, Early, BeforePayload, BeforeVirtmap,
         BeforeNewFdt, WithMap
<1> QED
  BY <1>1, Invariants, PTL

(* Nothing after ExitBootServices calls a boot service.                    *)
THEOREM PointOfNoReturn == Spec => NoBootServiceAfterExit
<1>1. MapInv /\ [Next]_vars => [bs = "down" => UNCHANGED fwVars]_vars
  <2> SUFFICES ASSUME MapInv, Next, bs = "down" PROVE UNCHANGED fwVars
    OBVIOUS
  <2>1. pc \in {"exited", "enter", "kernel"}
    BY DEF MapInv, Exited
  <2>2. CASE StubNext
    BY <2>1, <2>2
    DEF StubNext, Prepare, GetMemoryMap, Exit, Fail, OpenLoadedImage,
        ConvertCmdline, ParseOptions, FindPayload, CheckPlatformFeatures,
        CheckRtServices, AllocMemreserve, InstallMemreserve, LoadProgram,
        AllocPayloadTable, InstallPayloadTable, ProbeVirtmap, AllocVirtmap,
        GetFdt, AllocNewFdt, UpdateFdt, ProbeMap, AllocMap, InstallMap,
        FillMap, UninstallMap, FreeMap, PrivFunc, ExitBootServices, RetryFill,
        RetryPrivFunc, RetryExit, SetVirtualAddressMap, EnterKernel,
        FreeNewFdt, FreeFdt, FreeVirtmap, Quiet
  <2>3. CASE FirmwareEvent
    BY <2>3 DEF FirmwareEvent
  <2> QED
    BY <2>2, <2>3 DEF Next
<1> QED
  BY <1>1, Invariants, PTL DEF Spec, NoBootServiceAfterExit

-----------------------------------------------------------------------------
(* The boot path implements BootHandoff (its safety part: that it ends is  *)
(* model-checked).                                                         *)

(* The runtime entries of the map: exit_boot_func has given them addresses *)
(* when ExitBootServices is called, and SetVirtualAddressMap has installed *)
(* or withdrawn those before the kernel is entered.                        *)
RuntimeInv ==
  /\ pc \in {"exit1", "exit2", "exited"}
       => va = IF novamap THEN "identity" ELSE "assigned"
  /\ pc \in {"enter", "kernel"} => va \in {"identity", "installed", "signalled"}

(* No step breaks the invariant of the runtime entries.                    *)
LEMMA RuntimeStep == TypeOK /\ RuntimeInv /\ [Next]_vars => RuntimeInv'
<1> SUFFICES ASSUME TypeOK, RuntimeInv, [Next]_vars PROVE RuntimeInv'
  OBVIOUS
<1> USE DEF RuntimeInv, TypeOK, StubTypeOK, Goto, Return, stubVars
<1>1. CASE OpenLoadedImage
  BY <1>1 DEF OpenLoadedImage
<1>2. CASE ConvertCmdline
  BY <1>2 DEF ConvertCmdline
<1>3. CASE ParseOptions
  BY <1>3 DEF ParseOptions
<1>4. CASE FindPayload
  BY <1>4 DEF FindPayload
<1>5. CASE CheckPlatformFeatures
  BY <1>5 DEF CheckPlatformFeatures
<1>6. CASE CheckRtServices
  BY <1>6 DEF CheckRtServices
<1>7. CASE AllocMemreserve
  BY <1>7 DEF AllocMemreserve
<1>8. CASE InstallMemreserve
  BY <1>8 DEF InstallMemreserve
<1>9. CASE LoadProgram
  BY <1>9 DEF LoadProgram
<1>10. CASE AllocPayloadTable
  BY <1>10 DEF AllocPayloadTable
<1>11. CASE InstallPayloadTable
  BY <1>11 DEF InstallPayloadTable
<1>12. CASE ProbeVirtmap
  BY <1>12 DEF ProbeVirtmap, Probe
<1>13. CASE AllocVirtmap
  BY <1>13 DEF AllocVirtmap
<1>14. CASE GetFdt
  BY <1>14 DEF GetFdt
<1>15. CASE AllocNewFdt
  BY <1>15 DEF AllocNewFdt
<1>16. CASE UpdateFdt
  BY <1>16 DEF UpdateFdt
<1>17. CASE ProbeMap
  BY <1>17 DEF ProbeMap, Probe
<1>18. CASE AllocMap
  BY <1>18 DEF AllocMap
<1>19. CASE InstallMap
  BY <1>19 DEF InstallMap
<1>20. CASE FillMap
  BY <1>20 DEF FillMap, Fill
<1>21. CASE UninstallMap
  BY <1>21 DEF UninstallMap
<1>22. CASE FreeMap
  BY <1>22 DEF FreeMap
<1>23. CASE PrivFunc
  BY <1>23 DEF PrivFunc, ExitBootFunc
<1>24. CASE ExitBootServices
  BY <1>24 DEF ExitBootServices
<1>25. CASE RetryFill
  BY <1>25 DEF RetryFill, Fill
<1>26. CASE RetryPrivFunc
  BY <1>26 DEF RetryPrivFunc, ExitBootFunc
<1>27. CASE RetryExit
  BY <1>27 DEF RetryExit
<1>28. CASE SetVirtualAddressMap
  BY <1>28 DEF SetVirtualAddressMap
<1>29. CASE EnterKernel
  BY <1>29 DEF EnterKernel
<1>30. CASE FreeNewFdt
  BY <1>30 DEF FreeNewFdt
<1>31. CASE FreeFdt
  BY <1>31 DEF FreeFdt
<1>32. CASE FreeVirtmap
  BY <1>32 DEF FreeVirtmap
<1>33. CASE FirmwareEvent /\ UNCHANGED <<pc, stubVars>>
  BY <1>33
<1>34. CASE UNCHANGED vars
  BY <1>34 DEF vars
<1> QED
  BY  <1>1, <1>2, <1>3, <1>4, <1>5, <1>6, <1>7, <1>8, <1>9, <1>10, <1>11, <1>12, <1>13, <1>14, <1>15, <1>16, <1>17, <1>18, <1>19, <1>20, <1>21, <1>22, <1>23, <1>24, <1>25, <1>26, <1>27, <1>28, <1>29, <1>30, <1>31, <1>32, <1>33, <1>34
  DEF Next, StubNext, Prepare, GetMemoryMap, Exit, Fail
(* Leaving boot services is the only step that takes them down, and it     *)
(* goes to "exited" without touching what the stub has prepared.           *)
LEMMA GoingDown ==
  ASSUME TypeOK, MapInv, Next, bs # "down", bs' = "down"
  PROVE  /\ pc' = "exited" /\ pc \in {"exit1", "exit2"}
         /\ buf.key = mapKey /\ UNCHANGED <<map, stubVars>>
<1>1. ExitBootServices \/ RetryExit
  BY DEF Next, StubNext, Prepare, GetMemoryMap, Exit, Fail, FirmwareEvent,
         OpenLoadedImage, ConvertCmdline, ParseOptions, FindPayload,
         CheckPlatformFeatures, CheckRtServices, AllocMemreserve,
         InstallMemreserve, LoadProgram, AllocPayloadTable,
         InstallPayloadTable, ProbeVirtmap, AllocVirtmap, GetFdt, AllocNewFdt,
         UpdateFdt, ProbeMap, AllocMap, InstallMap, FillMap, UninstallMap,
         FreeMap, PrivFunc, RetryFill, RetryPrivFunc, SetVirtualAddressMap,
         EnterKernel, FreeNewFdt, FreeFdt, FreeVirtmap, Quiet, fwVars,
         AllocatePool, AllocatePages, FreePool, FreePages, HandOutMap,
         InstallConfigurationTable, Probe, Fill
<1> QED
  BY <1>1 DEF ExitBootServices, RetryExit, ExitAccepted, ExitStaleKey,
              ExitRefused, Goto

(* Every step of the boot path is a step of BootHandoff or stutters there, *)
(* and the initial states correspond.                                      *)
THEOREM ImplementsHandoff == Spec => Handoff!Init /\ [][Handoff!Next]_Handoff!vars
<1>1. Init => Handoff!Init
  BY DEF Init, FwInit, Handoff!Init
<1>2. Init => RuntimeInv
  BY DEF Init, RuntimeInv
<1>3. TypeOK /\ MapInv /\ MapInv' /\ RuntimeInv /\ [Next]_vars
        => [Handoff!Next]_Handoff!vars
  <2> SUFFICES ASSUME TypeOK, MapInv, MapInv', RuntimeInv, [Next]_vars
               PROVE  [Handoff!Next]_Handoff!vars
    OBVIOUS
  <2>1. CASE UNCHANGED vars
    BY <2>1 DEF vars, fwVars, stubVars, Handoff!vars
  <2>2. CASE Next /\ bs = "down"
    <3>1. pc \in {"exited", "enter", "kernel"}
      BY <2>2 DEF MapInv, Exited
    <3>2. SetVirtualAddressMap \/ EnterKernel
      BY <2>2, <3>1
      DEF Next, StubNext, Prepare, GetMemoryMap, Exit, Fail, FirmwareEvent,
          OpenLoadedImage, ConvertCmdline, ParseOptions, FindPayload,
          CheckPlatformFeatures, CheckRtServices, AllocMemreserve,
          InstallMemreserve, LoadProgram, AllocPayloadTable,
          InstallPayloadTable, ProbeVirtmap, AllocVirtmap, GetFdt,
          AllocNewFdt, UpdateFdt, ProbeMap, AllocMap, InstallMap, FillMap,
          UninstallMap, FreeMap, PrivFunc, ExitBootServices, RetryFill,
          RetryPrivFunc, RetryExit, FreeNewFdt, FreeFdt, FreeVirtmap
    <3>3. CASE SetVirtualAddressMap
      BY <2>2, <3>3 DEF SetVirtualAddressMap, Quiet, fwVars, Handoff!vars
    <3>4. CASE EnterKernel
      BY <2>2, <3>4
      DEF EnterKernel, Quiet, fwVars, Goto, stubVars, RuntimeInv, Handoff!Next,
          Handoff!Enter
    <3> QED
      BY <3>2, <3>3, <3>4
  <2>3. CASE Next /\ bs # "down" /\ bs' = "down"
    <3>1. /\ pc' = "exited" /\ pc \in {"exit1", "exit2"}
          /\ buf.key = mapKey /\ UNCHANGED <<map, stubVars>>
      BY <2>3, GoingDown
    <3>2. fdtSize = mapLen /\ buf.key = mapKey
      BY <3>1 DEF MapInv
    <3>3. <<mapKey, mapLen>> \in Nat \X Nat
      BY BootServicesAssumption DEF TypeOK, FwTypeOK
    <3> QED
      BY <2>3, <3>1, <3>2, <3>3 DEF Handoff!Next, Handoff!Commit, map, stubVars
  <2>4. CASE Next /\ bs # "down" /\ bs' # "down"
    <3>1. pc # "kernel" /\ pc' # "kernel"
      BY <2>4 DEF MapInv, Exited
    <3>2. pc # "returned" \/ pc' = "returned"
      BY <2>4
      DEF Next, StubNext, Prepare, GetMemoryMap, Exit, Fail,
          OpenLoadedImage, ConvertCmdline, ParseOptions, FindPayload,
          CheckPlatformFeatures, CheckRtServices, AllocMemreserve,
          InstallMemreserve, LoadProgram, AllocPayloadTable,
          InstallPayloadTable, ProbeVirtmap, AllocVirtmap, GetFdt,
          AllocNewFdt, UpdateFdt, ProbeMap, AllocMap, InstallMap, FillMap,
          UninstallMap, FreeMap, PrivFunc, ExitBootServices, RetryFill,
          RetryPrivFunc, RetryExit, SetVirtualAddressMap, EnterKernel,
          FreeNewFdt, FreeFdt, FreeVirtmap
    <3> QED
      BY <2>4, <3>1, <3>2 DEF Handoff!Next, Handoff!GiveUp, Handoff!vars
  <2> QED
    BY <2>1, <2>2, <2>3, <2>4
<1> QED
  BY <1>1, <1>2, <1>3, Invariants, RuntimeStep, PTL DEF Spec
=============================================================================
