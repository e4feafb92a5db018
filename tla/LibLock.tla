------------------------------ MODULE LibLock -------------------------------
(***************************************************************************)
(* FLOCK (lib/lock.c, lib/runtime/rtlock.c): "since there is no-premption  *)
(* (at any TPL) or multiprocessor support, acquiring the lock only         *)
(* consists of raising to the locks TPL".  The program runs at its task    *)
(* priority level, and notifications of a higher level run in between,     *)
(* everywhere, and take locks too.                                         *)
(*                                                                         *)
(* As the boot services ask for, code takes only locks of its level or of  *)
(* a higher one, and leaves them in the reverse order.                     *)
(***************************************************************************)
EXTENDS Integers, SequencesExt, FiniteSetsExt

CONSTANTS
  Locks,
  LockTpl,        (* Lock->Tpl, as InitializeLock has set it               *)
  HandlerTpls,    (* the levels of the notifications                       *)
  TplApplication, (* that of the program                                   *)
  MaxNesting      (* bound: notifications running inside each other        *)

ASSUME LockAssumption ==
  /\ LockTpl \in [Locks -> Int] /\ HandlerTpls \subseteq Int
  /\ TplApplication \in Int /\ MaxNesting \in Nat

VARIABLES
  level,          (* the task priority level of the processor              *)
  OwnerTpl, Lock, (* the fields of the locks                               *)
  contexts        (* what runs: the program and the notifications in it    *)

lockVars == <<level, OwnerTpl, Lock, contexts>>

(* from is the level that was interrupted, Tpl the local variable.         *)
Context(tpl, from) ==
  [tpl |-> tpl, from |-> from, held |-> <<>>, at |-> "runs", Tpl |-> from]

Running == contexts[Len(contexts)]
Becomes(c) == contexts' = [contexts EXCEPT ![Len(contexts)] = c]

InitializeLock ==
  /\ level = TplApplication
  /\ OwnerTpl = [l \in Locks |-> 0] /\ Lock = [l \in Locks |-> 0]
  /\ contexts = <<Context(TplApplication, TplApplication)>>

(* RtAcquireLock: the level is raised, and then the lock is owned.         *)
RaiseToLock(l) ==
  /\ Running.at = "runs" /\ LockTpl[l] >= level /\ l \notin Range(Running.held)
  /\ level' = LockTpl[l]
  /\ Becomes([Running EXCEPT !.held = Append(@, l), !.at = "raised", !.Tpl = level])
  /\ UNCHANGED <<OwnerTpl, Lock>>

RtAcquireLock ==
  /\ Running.at = "raised"
  /\ LET l == Last(Running.held)
     IN  /\ OwnerTpl' = [OwnerTpl EXCEPT ![l] = Running.Tpl]
         /\ Lock' = [Lock EXCEPT ![l] = @ + 1]
  /\ Becomes([Running EXCEPT !.at = "runs"])
  /\ UNCHANGED level

(* mutation: the level is restored while the lock is still held            *)
RtReleaseLock_Early ==
  /\ Running.at = "runs" /\ Running.held # <<>>
  /\ Becomes([Running EXCEPT !.at = "released", !.Tpl = OwnerTpl[Last(Running.held)]])
  /\ level' = OwnerTpl[Last(Running.held)]
  /\ Lock' = [Lock EXCEPT ![Last(Running.held)] = @ - 1]
  /\ UNCHANGED OwnerTpl

(* RtReleaseLock: the lock is given up, and then the level is restored.    *)
RtReleaseLock ==
  /\ Running.at = "runs" /\ Running.held # <<>>
  /\ LET l == Last(Running.held)
     IN  /\ Lock' = [Lock EXCEPT ![l] = @ - 1]
         /\ Becomes([Running EXCEPT !.at = "released", !.Tpl = OwnerTpl[l]])
  /\ UNCHANGED <<level, OwnerTpl>>

RestoreFromLock ==
  /\ Running.at = "released"
  /\ level' = Running.Tpl
  /\ Becomes([Running EXCEPT !.at = "runs", !.held = Front(@)])
  /\ UNCHANGED <<OwnerTpl, Lock>>

(* The boot services run a notification, and go back.                      *)
Notify ==
  /\ Len(contexts) <= MaxNesting
  /\ \E n \in HandlerTpls :
       /\ n > level /\ level' = n
       /\ contexts' = Append(contexts, Context(n, level))
  /\ UNCHANGED <<OwnerTpl, Lock>>

NotifyReturns ==
  /\ Len(contexts) > 1 /\ Running.at = "runs" /\ Running.held = <<>>
  /\ level' = Running.from /\ contexts' = Front(contexts)
  /\ UNCHANGED <<OwnerTpl, Lock>>

LockNext ==
  \/ \E l \in Locks : RaiseToLock(l)
  \/ RtAcquireLock \/ RtReleaseLock \/ RestoreFromLock \/ Notify \/ NotifyReturns

LockSpec == InitializeLock /\ [][LockNext]_lockVars

-----------------------------------------------------------------------------
(* Has c counted the lock l, and not yet given it up?                      *)
Owns(c, l) ==
  \E k \in DOMAIN c.held : c.held[k] = l /\ (c.at = "runs" \/ k < Len(c.held))

(* Whoever is between acquiring and releasing a lock is alone with it, and *)
(* the assertion that a lock is counted once, when it is taken and when it *)
(* is given up, holds.                                                     *)
LocksExclude ==
  \A l \in Locks :
    /\ \A i, j \in DOMAIN contexts :
         l \in Range(contexts[i].held) /\ l \in Range(contexts[j].held) => i = j
    /\ Lock[l] = IF \E i \in DOMAIN contexts : Owns(contexts[i], l) THEN 1 ELSE 0

(* The code that runs has the level of the innermost lock it holds, and    *)
(* its own one when it holds none, and a release restores the level of the *)
(* lock that is left, never one another owner has left in the lock.        *)
LevelOf(tpl, held) == IF held = <<>> THEN tpl ELSE LockTpl[Last(held)]
LevelFollowsLocks ==
  /\ level = LevelOf(Running.tpl, Running.held)
  /\ Running.at = "released" => Running.Tpl = LevelOf(Running.tpl, Front(Running.held))

(* At most one context has a lock, and the task priority is the one of the *)
(* locks that are held.                                                    *)
LocksKept ==
  /\ LocksExclude
  /\ LevelFollowsLocks
=============================================================================
