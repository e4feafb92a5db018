---------------------------- MODULE BootHandoff -----------------------------
(***************************************************************************)
(* What DragonStub promises, whatever calls it makes on the way.  The      *)
(* machine belongs to the firmware until boot services are left for good;  *)
(* from then on the only way is into the kernel, which is told of exactly  *)
(* the memory map that boot services ended with, and whose runtime entries *)
(* are usable as they stand, have been installed, or are marked unusable.  *)
(***************************************************************************)
CONSTANTS Maps, NoMap

VARIABLES
  owner,   (* "firmware", "stub" between boot services and kernel,         *)
           (* "kernel", or "gaveUp" when the stub returned                 *)
  final,   (* the memory map boot services ended with                      *)
  told,    (* the memory map the kernel is told of                         *)
  runtime  (* the state of the runtime entries in it                       *)

vars == <<owner, final, told, runtime>>

Init ==
  /\ owner = "firmware"
  /\ final = NoMap
  /\ told = NoMap
  /\ runtime = "unknown"

Commit ==
  /\ owner = "firmware"
  /\ owner' = "stub"
  /\ final' \in Maps
  /\ told' = final'
  /\ UNCHANGED runtime

Enter ==
  /\ owner = "stub"
  /\ owner' = "kernel"
  /\ runtime' \in {"identity", "installed", "signalled"}
  /\ UNCHANGED <<final, told>>

GiveUp ==
  /\ owner = "firmware"
  /\ owner' = "gaveUp"
  /\ UNCHANGED <<final, told, runtime>>

Next == Commit \/ Enter \/ GiveUp

(* The stub does not hang, with or without boot services.                  *)
Terminates == <>(owner \in {"kernel", "gaveUp"})

Spec == Init /\ [][Next]_vars /\ Terminates
=============================================================================
