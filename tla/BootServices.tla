---------------------------- MODULE BootServices ----------------------------
(***************************************************************************)
(* The UEFI boot services as DragonStub uses them: pool and page           *)
(* allocation, the configuration tables, the memory map with its key, and  *)
(* ExitBootServices.  The firmware is not part of the repository: this     *)
(* module is the environment, read off the calls in src/apps.              *)
(*                                                                         *)
(* The memory map is abstracted to its key and its number of descriptors.  *)
(* Any call that allocates, frees or installs may change it, and so may a  *)
(* firmware event (a timer callback) between two calls of the stub.        *)
(***************************************************************************)
EXTENDS Naturals

CONSTANTS
  InitLen,        (* descriptors in the memory map when the stub starts    *)
  MaxLen,         (* most descriptors the memory map ever has              *)
  MaxEvents,      (* bound on the map changes made by firmware events      *)
  ConformingExit  (* TRUE: once ExitBootServices was called the map is     *)
                  (* quiet and only a stale key makes the call fail, which *)
                  (* is what helper.c says of EDK2.  FALSE: neither holds. *)

ASSUME BootServicesAssumption ==
  /\ MaxLen \in Nat \ {0}
  /\ InitLen \in 1..MaxLen
  /\ MaxEvents \in Nat
  /\ ConformingExit \in BOOLEAN

VARIABLES
  bs,       (* "up", "stopping" once ExitBootServices was called, "down"   *)
  mapKey,   (* the current memory map: its key ...                         *)
  mapLen,   (* ... and its number of descriptors                           *)
  keyOut,   (* GetMemoryMap has handed the current key to the stub         *)
  pools,    (* the live pool allocations of the stub                       *)
  pages,    (* the live page allocations, the firmware's FDT included      *)
  table,    (* the configuration tables the stub installs                  *)
  frees,    (* history: what was freed and the state of boot services then *)
  events    (* number of firmware events so far                            *)

fwVars == <<bs, mapKey, mapLen, keyOut, pools, pages, table, frees, events>>

Null == "null"
Pools == {"cmdline", "rsv", "payloadTbl", "virtmap", "bootMap"}
Pages == {"kernel", "newFdt", "fwFdt"}
Freeable == Pools \cup Pages \cup {Null, "stackSlot"}
Guids == {"memreserve", "payload", "bootMap"}
Services == {"up", "stopping", "down"}

FwTypeOK ==
  /\ bs \in Services
  /\ mapKey \in Nat
  /\ mapLen \in 1..MaxLen
  /\ keyOut \in BOOLEAN
  /\ pools \subseteq Pools
  /\ pages \subseteq Pages
  /\ table \in [Guids -> Pools \cup {Null}]
  /\ frees \subseteq [what : Freeable, bs : Services, live : BOOLEAN]
  /\ events \in 0..MaxEvents

FwInit ==
  /\ bs = "up"
  /\ mapKey = 1
  /\ mapLen = InitLen
  /\ keyOut = FALSE
  /\ pools = {}
  /\ pages \in {{}, {"fwFdt"}}
  /\ table = [g \in Guids |-> Null]
  /\ frees = {}
  /\ events = 0

-----------------------------------------------------------------------------
(* The current map, its key included; what a call may do to it is to give  *)
(* it one descriptor more or less and a new key.  A key the stub was never *)
(* told of is as good as new, so only a key handed out is replaced.        *)
map == <<mapKey, mapLen, keyOut>>

MapChanges ==
  /\ mapKey' = IF keyOut THEN mapKey + 1 ELSE mapKey
  /\ keyOut' = FALSE
  /\ mapLen' \in {n \in 1..MaxLen : n <= mapLen + 1 /\ mapLen <= n + 1}

MapMayChange == MapChanges \/ UNCHANGED map

(* A firmware event handler runs between two calls of the stub.            *)
FirmwareEvent ==
  /\ bs = "up" \/ (bs = "stopping" /\ ~ConformingExit)
  /\ events < MaxEvents
  /\ events' = events + 1
  /\ MapChanges
  /\ UNCHANGED <<bs, pools, pages, table, frees>>

(* The second half of GetMemoryMap: the caller learns the current key.     *)
HandOutMap ==
  /\ keyOut' = TRUE
  /\ UNCHANGED <<bs, mapKey, mapLen, pools, pages, table, frees, events>>

AllocatePool(p) ==
  /\ pools' = pools \cup {p}
  /\ MapMayChange
  /\ UNCHANGED <<bs, pages, table, frees, events>>

AllocatePages(p) ==
  /\ pages' = pages \cup {p}
  /\ MapMayChange
  /\ UNCHANGED <<bs, pools, table, frees, events>>

Freed(p) == [what |-> p, bs |-> bs, live |-> p \in pools \cup pages]

FreePool(p) ==
  /\ pools' = pools \ {p}
  /\ frees' = frees \cup {Freed(p)}
  /\ MapMayChange
  /\ UNCHANGED <<bs, pages, table, events>>

FreePages(p) ==
  /\ pages' = pages \ {p}
  /\ frees' = frees \cup {Freed(p)}
  /\ MapMayChange
  /\ UNCHANGED <<bs, pools, table, events>>

(* Installing a table, or deleting it with Null, might allocate memory.    *)
InstallConfigurationTable(g, p) ==
  /\ table' = [table EXCEPT ![g] = p]
  /\ MapMayChange
  /\ UNCHANGED <<bs, pools, pages, frees, events>>

(* ExitBootServices accepts exactly the current key.  The first call runs  *)
(* the firmware's own callbacks before it looks at the key, and they may   *)
(* change the map.                                                         *)
ExitAccepted(key) ==
  /\ key = mapKey
  /\ bs' = "down"
  /\ UNCHANGED <<map, pools, pages, table, frees, events>>

ExitStaleKey(key) ==
  /\ bs' = "stopping"
  /\ IF bs = "up" \/ ~ConformingExit THEN MapMayChange
                                     ELSE UNCHANGED map
  /\ key # mapKey'
  /\ UNCHANGED <<pools, pages, table, frees, events>>

ExitRefused ==
  /\ ~ConformingExit
  /\ bs' = "stopping"
  /\ UNCHANGED <<map, pools, pages, table, frees, events>>
=============================================================================
