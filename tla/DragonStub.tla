----------------------------- MODULE DragonStub -----------------------------
(***************************************************************************)
(* The boot path of the stub, from efi_main to the jump into the kernel:   *)
(* every firmware call is a step of its own, every call may fail, and the  *)
(* firmware may change the memory map between any two steps.  pc names the *)
(* call about to be made.                                                  *)
(***************************************************************************)
EXTENDS BootServices

CONSTANTS
  Slack   (* EFI_MMAP_NR_SLACK_SLOTS: spare descriptors in the map buffer  *)

ASSUME SlackAssumption == Slack \in Nat

VARIABLES
  pc,        (* the next call of the stub                                  *)
  ret,       (* what efi_main returned to the firmware, "none" before that *)
  novamap,   (* efi_novamap                                                *)
  hartid,    (* where hartid came from, "unset" before that                *)
  loaded,    (* TRUE once the payload is in the memory loaded_paddr names  *)
  fdtAddr,   (* fdt_addr: the device tree the new one is made from         *)
  fdtSize,   (* linux,uefi-mmap-size in the new device tree                *)
  probeLen,  (* the descriptors GetMemoryMap reported to a sizing call     *)
  buf,       (* the boot memory map buffer, struct efi_boot_memmap         *)
  vmKey,     (* key of the map priv.runtime_map was copied from            *)
  va         (* VirtualStart of the runtime entries the kernel will read   *)

stubVars == <<ret, novamap, hartid, loaded, fdtAddr, fdtSize, probeLen, buf,
              vmKey, va>>
vars == <<fwVars, pc, stubVars>>

Absent == 0                (* no linux,uefi-mmap-size; no map copied yet   *)
Placeholder == MaxLen + 1  (* UINT32_MAX in the code: no map is that long  *)

PCs == {"start", "cmdline", "options", "payload", "platform", "rtProps",
        "rsvAlloc", "rsvInstall", "loadElf", "payloadAlloc",
        "payloadInstall", "virtmapProbe", "virtmapAlloc", "getFdt",
        "allocFdt", "updateFdt", "mapProbe", "mapAlloc", "mapInstall",
        "mapFill", "uninstall", "freeMap", "privFunc", "exit1", "retryFill",
        "retryPriv", "exit2", "exited", "enter", "kernel", "freeNewFdt",
        "freeFdt", "freeVirtmap", "returned"}

Init ==
  /\ FwInit
  /\ pc = "start"
  /\ ret = "none"
  /\ novamap = FALSE
  /\ hartid = "unset"
  /\ loaded = FALSE
  /\ fdtAddr = Null
  /\ fdtSize = Absent
  /\ probeLen = 0
  /\ buf = [key |-> 0, len |-> 0, cap |-> 0]
  /\ vmKey = Absent
  /\ va = "none"

-----------------------------------------------------------------------------
(* Shorthands: moving on, and returning to the firmware with a status.     *)
Goto(label) == pc' = label /\ UNCHANGED stubVars

Return(status) ==
  /\ pc' = "returned"
  /\ ret' = status
  /\ UNCHANGED <<novamap, hartid, loaded, fdtAddr, fdtSize, probeLen, buf,
                 vmKey, va>>

Quiet == UNCHANGED fwVars    \* a step that does not touch the firmware

-----------------------------------------------------------------------------
(* efi_main: the loaded image, the command line, the payload.              *)

OpenLoadedImage ==
  /\ pc = "start"
  /\ Quiet
  /\ Goto("cmdline") \/ Return("error")

(* efi_convert_cmdline: measuring the load options takes and gives back a  *)
(* pool allocation, then the converted string gets one that stays.         *)
ConvertCmdline ==
  /\ pc = "cmdline"
  /\ \/ AllocatePool("cmdline") /\ Goto("options")
     \/ /\ MapMayChange
        /\ UNCHANGED <<bs, pools, pages, table, frees, events>>
        /\ Return("error")

(* efi_parse_options works on a temporary copy.  When that copy cannot be  *)
(* allocated, efi_handle_cmdline frees the address of its caller's pointer *)
(* and not the command line.                                               *)
ParseOptions ==
  /\ pc = "options"
  /\ \/ /\ MapMayChange
        /\ novamap' \in BOOLEAN
        /\ pc' = "payload"
        /\ UNCHANGED <<bs, pools, pages, table, frees, events>>
        /\ UNCHANGED <<ret, hartid, loaded, fdtAddr, fdtSize, probeLen, buf,
                       vmKey, va>>
     \/ FreePool("stackSlot") /\ Return("error")

FindPayload ==
  /\ pc = "payload"
  /\ Quiet
  /\ Goto("platform") \/ Return("error")

-----------------------------------------------------------------------------
(* efi_stub_common.  From here on efi_main ignores the status and returns  *)
(* EFI_SUCCESS.                                                            *)

CheckPlatformFeatures ==
  /\ pc = "platform"
  /\ Quiet
  /\ \/ /\ \/ hartid' = "efi"
           \/ "fwFdt" \in pages /\ hartid' = "fdt"
        /\ pc' = "rtProps"
        /\ UNCHANGED <<ret, novamap, loaded, fdtAddr, fdtSize, probeLen, buf,
                       vmKey, va>>
     \/ Return("success")

CheckRtServices ==
  /\ pc = "rtProps"
  /\ Quiet
  /\ novamap' \in {novamap, TRUE}
  /\ pc' = "rsvAlloc"
  /\ UNCHANGED <<ret, hartid, loaded, fdtAddr, fdtSize, probeLen, buf, vmKey,
                 va>>

AllocMemreserve ==
  /\ pc = "rsvAlloc"
  /\ \/ AllocatePool("rsv") /\ Goto("rsvInstall")
     \/ Quiet /\ Goto("loadElf")

InstallMemreserve ==
  /\ pc = "rsvInstall"
  /\ InstallConfigurationTable("memreserve", "rsv") \/ Quiet
  /\ Goto("loadElf")

-----------------------------------------------------------------------------
(* efi_boot_kernel: load_elf.                                              *)

(* load_elf does not look at the status of load_program: a payload that    *)
(* could not be loaded leaves program_paddr at zero and the boot goes on.  *)
LoadProgram ==
  /\ pc = "loadElf"
  /\ \/ /\ AllocatePages("kernel")
        /\ loaded' = TRUE
        /\ pc' = "payloadAlloc"
        /\ UNCHANGED <<ret, novamap, hartid, fdtAddr, fdtSize, probeLen, buf,
                       vmKey, va>>
     \/ /\ MapMayChange
        /\ UNCHANGED <<bs, pools, pages, table, frees, events>>
        /\ Goto("payloadAlloc")
     \/ Quiet /\ Return("success")      \* elf_get_header, parse_phdrs

AllocPayloadTable ==
  /\ pc = "payloadAlloc"
  /\ \/ AllocatePool("payloadTbl") /\ Goto("payloadInstall")
     \/ Quiet /\ Return("success")

InstallPayloadTable ==
  /\ pc = "payloadInstall"
  /\ \/ /\ InstallConfigurationTable("payload", "payloadTbl")
        /\ Goto(IF novamap THEN "getFdt" ELSE "virtmapProbe")
     \/ Quiet /\ Return("success")

-----------------------------------------------------------------------------
(* allocate_new_fdt_and_exit_boot, up to the new device tree.              *)

Probe_SlackSubtracted(next) ==    \* mutation: the headroom with a wrong sign
  /\ Quiet
  /\ probeLen' = mapLen - Slack
  /\ pc' = next
  /\ UNCHANGED <<ret, novamap, hartid, loaded, fdtAddr, fdtSize, buf, vmKey,
                 va>>

(* A sizing call of GetMemoryMap, then the next call or the given failure. *)
Probe(next) ==
  /\ Quiet
  /\ probeLen' = mapLen
  /\ pc' = next
  /\ UNCHANGED <<ret, novamap, hartid, loaded, fdtAddr, fdtSize, buf, vmKey,
                 va>>

ProbeVirtmap ==
  /\ pc = "virtmapProbe"
  /\ Probe("virtmapAlloc") \/ (Quiet /\ Return("success"))

AllocVirtmap ==
  /\ pc = "virtmapAlloc"
  /\ \/ AllocatePool("virtmap") /\ Goto("getFdt")
     \/ Quiet /\ Return("success")

GetFdt ==
  /\ pc = "getFdt"
  /\ Quiet
  /\ \/ "fwFdt" \in pages /\ fdtAddr' = "fwFdt"
     \/ fdtAddr' = Null
  /\ pc' = "allocFdt"
  /\ UNCHANGED <<ret, novamap, hartid, loaded, fdtSize, probeLen, buf, vmKey,
                 va>>

AllocNewFdt_WrongLabel ==         \* mutation: one failure label too early
  /\ pc = "allocFdt"
  /\ \/ AllocatePages("newFdt") /\ Goto("updateFdt")
     \/ Quiet /\ Goto("freeNewFdt")

AllocNewFdt ==
  /\ pc = "allocFdt"
  /\ \/ AllocatePages("newFdt") /\ Goto("updateFdt")
     \/ Quiet /\ Goto("freeFdt")

UpdateFdt ==
  /\ pc = "updateFdt"
  /\ Quiet
  /\ \/ /\ fdtSize' = Placeholder
        /\ pc' = "mapProbe"
        /\ UNCHANGED <<ret, novamap, hartid, loaded, fdtAddr, probeLen, buf,
                       vmKey, va>>
     \/ Goto("freeNewFdt")

-----------------------------------------------------------------------------
(* efi_get_memory_map(&map, true), called by efi_exit_boot_services.       *)

ProbeMap ==
  /\ pc = "mapProbe"
  /\ Probe("mapAlloc") \/ (Quiet /\ Goto("freeNewFdt"))

AllocMap ==
  /\ pc = "mapAlloc"
  /\ \/ /\ AllocatePool("bootMap")
        /\ buf' = [buf EXCEPT !.cap = probeLen + Slack]
        /\ pc' = "mapInstall"
        /\ UNCHANGED <<ret, novamap, hartid, loaded, fdtAddr, fdtSize,
                       probeLen, vmKey, va>>
     \/ Quiet /\ Goto("freeNewFdt")

InstallMap_Unchecked ==           \* mutation: the status is not looked at
  /\ pc = "mapInstall"
  /\ InstallConfigurationTable("bootMap", "bootMap") \/ Quiet
  /\ Goto("mapFill")

InstallMap ==
  /\ pc = "mapInstall"
  /\ \/ InstallConfigurationTable("bootMap", "bootMap") /\ Goto("mapFill")
     \/ Quiet /\ Goto("freeMap")

(* GetMemoryMap into the buffer: it fails when the map has outgrown what   *)
(* the call says the buffer holds.                                         *)
Fill(room, next, failure) ==
  \/ /\ mapLen <= room
     /\ HandOutMap
     /\ buf' = [buf EXCEPT !.key = mapKey, !.len = mapLen]
     /\ pc' = next
     /\ UNCHANGED <<ret, novamap, hartid, loaded, fdtAddr, fdtSize, probeLen,
                    vmKey, va>>
  \/ mapLen > room /\ Quiet /\ Goto(failure)

FillMap ==
  /\ pc = "mapFill"
  /\ Fill(buf.cap, "privFunc", "uninstall")

UninstallMap_Skipped ==           \* mutation: the table outlives the map
  /\ pc = "uninstall"
  /\ Quiet
  /\ Goto("freeMap")

UninstallMap ==
  /\ pc = "uninstall"
  /\ InstallConfigurationTable("bootMap", Null)
  /\ Goto("freeMap")

FreeMap ==
  /\ pc = "freeMap"
  /\ FreePool("bootMap")
  /\ Goto("freeNewFdt")

-----------------------------------------------------------------------------
(* efi_exit_boot_services.                                                 *)

(* exit_boot_func: efi_get_virtmap copies the runtime entries and gives    *)
(* every one of them an address, update_fdt_memmap overwrites the          *)
(* placeholders in place and fails when they are not there.                *)
ExitBootFunc(next) ==
  /\ vmKey' = IF novamap THEN vmKey ELSE buf.key
  /\ va' = IF novamap THEN "identity" ELSE "assigned"
  /\ fdtSize' = IF fdtSize = Absent THEN Absent ELSE buf.len
  /\ pc' = next
  /\ UNCHANGED <<ret, novamap, hartid, loaded, fdtAddr, probeLen, buf>>

PrivFunc ==
  /\ pc = "privFunc"
  /\ IF fdtSize = Absent
       THEN ExitBootFunc("freeNewFdt") /\ FreePool("bootMap")
       ELSE ExitBootFunc("exit1") /\ Quiet

ExitBootServices ==
  /\ pc = "exit1"
  /\ \/ ExitAccepted(buf.key) /\ Goto("exited")
     \/ ExitStaleKey(buf.key) /\ Goto("retryFill")
     \/ ExitRefused /\ Goto("freeNewFdt")

RetryFill_NoPrivFunc ==           \* mutation: exit_boot_func not run again
  /\ pc = "retryFill"
  /\ Fill(buf.cap, "exit2", "freeNewFdt")

RetryFill_SizeNotReset ==         \* mutation: map_size = buff_size forgotten
  /\ pc = "retryFill"
  /\ Fill(buf.len, "retryPriv", "freeNewFdt")

(* The map changed under the stub: read it again into the same buffer,     *)
(* whose whole size counts again, and try once more.                       *)
RetryFill ==
  /\ pc = "retryFill"
  /\ Fill(buf.cap, "retryPriv", "freeNewFdt")

RetryPrivFunc ==
  /\ pc = "retryPriv"
  /\ Quiet
  /\ ExitBootFunc(IF fdtSize = Absent THEN "freeNewFdt" ELSE "exit2")

RetryExit ==
  /\ pc = "exit2"
  /\ \/ ExitAccepted(buf.key) /\ Goto("exited")
     \/ ExitStaleKey(buf.key) /\ Goto("freeNewFdt")
     \/ ExitRefused /\ Goto("freeNewFdt")

-----------------------------------------------------------------------------
(* Beyond the point of no return: SetVirtualAddressMap, whose failure is   *)
(* signalled in the map the kernel reads, and the jump.                    *)

SetVirtualAddressMap_Unwinds ==   \* mutation: its failure fails the boot
  /\ pc = "exited"
  /\ Quiet
  /\ Goto("enter") \/ Goto("freeNewFdt")

SetVirtualAddressMap_NoSignal ==  \* mutation: its failure is not signalled
  /\ pc = "exited"
  /\ Quiet
  /\ va' \in IF novamap THEN {va} ELSE {"installed", va}
  /\ pc' = "enter"
  /\ UNCHANGED <<ret, novamap, hartid, loaded, fdtAddr, fdtSize, probeLen,
                 buf, vmKey>>

SetVirtualAddressMap ==
  /\ pc = "exited"
  /\ Quiet
  /\ va' \in IF novamap THEN {va} ELSE {"installed", "signalled"}
  /\ pc' = "enter"
  /\ UNCHANGED <<ret, novamap, hartid, loaded, fdtAddr, fdtSize, probeLen,
                 buf, vmKey>>

EnterKernel ==
  /\ pc = "enter"
  /\ Quiet
  /\ Goto("kernel")

-----------------------------------------------------------------------------
(* The failure exits of allocate_new_fdt_and_exit_boot.                    *)

FreeNewFdt ==
  /\ pc = "freeNewFdt"
  /\ FreePages("newFdt")
  /\ Goto("freeFdt")

FreeFdt ==
  /\ pc = "freeFdt"
  /\ IF fdtAddr = Null THEN Quiet ELSE FreePages(fdtAddr)
  /\ Goto("freeVirtmap")

FreeVirtmap ==
  /\ pc = "freeVirtmap"
  /\ FreePool(IF novamap THEN Null ELSE "virtmap")
  /\ Return("success")

-----------------------------------------------------------------------------
Prepare ==
  \/ OpenLoadedImage \/ ConvertCmdline \/ ParseOptions \/ FindPayload
  \/ CheckPlatformFeatures \/ CheckRtServices
  \/ AllocMemreserve \/ InstallMemreserve
  \/ LoadProgram \/ AllocPayloadTable \/ InstallPayloadTable
  \/ ProbeVirtmap \/ AllocVirtmap \/ GetFdt \/ AllocNewFdt \/ UpdateFdt

GetMemoryMap ==
  \/ ProbeMap \/ AllocMap \/ InstallMap \/ FillMap \/ UninstallMap \/ FreeMap

Exit ==
  \/ PrivFunc \/ ExitBootServices
  \/ RetryFill \/ RetryPrivFunc \/ RetryExit
  \/ SetVirtualAddressMap \/ EnterKernel

Fail == FreeNewFdt \/ FreeFdt \/ FreeVirtmap

StubNext == Prepare \/ GetMemoryMap \/ Exit \/ Fail

Next == StubNext \/ (FirmwareEvent /\ UNCHANGED <<pc, stubVars>>)

(* One thread runs to its end; nothing makes the firmware change the map.  *)
Fairness == WF_vars(StubNext)

Spec == Init /\ [][Next]_vars /\ Fairness

-----------------------------------------------------------------------------
(* Correctness.                                                            *)

(* Every variable of the stub ranges over what the code can put in it.     *)
StubTypeOK ==
  /\ pc \in PCs
  /\ ret \in {"none", "success", "error"}
  /\ novamap \in BOOLEAN
  /\ hartid \in {"unset", "efi", "fdt"}
  /\ loaded \in BOOLEAN
  /\ fdtAddr \in {Null, "fwFdt"}
  /\ fdtSize \in Nat
  /\ probeLen \in Nat
  /\ buf \in [key : Nat, len : Nat, cap : Nat]
  /\ vmKey \in Nat
  /\ va \in {"none", "identity", "assigned", "installed", "signalled"}

(* The firmware's and the stub's variables have their types.               *)
TypeOK == FwTypeOK /\ StubTypeOK

Exited == pc \in {"exited", "enter", "kernel"}

(* Once boot services are gone, all three places the kernel and the        *)
(* firmware read the memory map from agree with the map that was current   *)
(* when ExitBootServices accepted: the boot map buffer, the size in the    *)
(* device tree, and the runtime map given to SetVirtualAddressMap.  A      *)
(* retry after a stale key has to redo every one of them (exit_boot_func). *)
HandoffMapIsFinal ==
  Exited => /\ buf.key = mapKey
            /\ buf.len = mapLen
            /\ fdtSize = mapLen
            /\ ~novamap => vmKey = mapKey

(* A configuration table that is installed points to live memory, also     *)
(* while efi_get_memory_map backs out of a half-made boot map.             *)
NoDanglingTable ==
  \A g \in Guids : table[g] # Null => table[g] \in pools

(* The kernel finds what it was handed: the new device tree, the boot map  *)
(* behind its configuration table, the payload table, the memory it was    *)
(* loaded to, and a hart id.                                               *)
HandoffMemoryLive ==
  pc = "kernel" => /\ "newFdt" \in pages
                   /\ table["bootMap"] = "bootMap" /\ "bootMap" \in pools
                   /\ table["payload"] = "payloadTbl"
                   /\ loaded => "kernel" \in pages
                   /\ hartid # "unset"

(* Nothing is freed that is not live: the failure exits of                 *)
(* allocate_new_fdt_and_exit_boot and of efi_get_memory_map overlap and    *)
(* are entered from many calls.                                            *)
FreesAreLive ==
  \A f \in frees : f.what \in Pools \cup Pages => f.live

(* No boot service is called once ExitBootServices has succeeded: nothing  *)
(* the firmware keeps changes after the point of no return.                *)
NoBootServiceAfterExit == [][bs = "down" => UNCHANGED fwVars]_vars

(* Under a firmware that keeps to what helper.c says of ExitBootServices,  *)
(* with a buffer that has enough spare descriptors, one retry is enough:   *)
(* a stub that tries to leave boot services ends up in the kernel.         *)
ExitReachesKernel == (pc = "exit1") ~> (pc = "kernel")

(* The boot path implements what BootHandoff promises.                     *)
NoMap == <<>>
Handoff == INSTANCE BootHandoff WITH
  Maps    <- Nat \X Nat,
  owner   <- IF pc = "kernel" THEN "kernel"
             ELSE IF pc = "returned" THEN "gaveUp"
             ELSE IF bs = "down" THEN "stub" ELSE "firmware",
  final   <- IF bs = "down" THEN <<mapKey, mapLen>> ELSE NoMap,
  told    <- IF bs = "down" THEN <<buf.key, fdtSize>> ELSE NoMap,
  runtime <- IF pc = "kernel" THEN va ELSE "unknown"

HandoffSpec == Handoff!Spec

-----------------------------------------------------------------------------
(* What comments of the repository say, and the code does not do.          *)

(* helper.c: "exit_boot_services() was called, thus cannot free".          *)
NoFreeAfterExitCalled == \A f \in frees : f.bs = "up"

(* mem.c on efi_free: it "should only be used to return pages allocated    *)
(* with efi_allocate_pages()"; the firmware's device tree never was.       *)
FreesOwnPages == \A f \in frees : f.what # "fwFdt"

(* dragonstub.h: the payload table says the address and the size the stub  *)
(* loaded the kernel to.                                                   *)
PayloadTableNamesKernel == table["payload"] # Null => loaded
=============================================================================
