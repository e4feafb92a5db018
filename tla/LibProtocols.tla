---------------------------- MODULE LibProtocols ----------------------------
(***************************************************************************)
(* LibInstallProtocolInterfaces, LibReinstallProtocolInterfaces and        *)
(* LibUninstallProtocolInterfaces (lib/hand.c): several interfaces are     *)
(* installed, replaced or removed by one call each, and the first two undo *)
(* what they have done when one of the calls fails.  A boot service may    *)
(* refuse, the ones that undo as well, whose status is dropped.            *)
(***************************************************************************)
EXTENDS Integers, SequencesExt

CONSTANTS
  Databases,      (* sets of interfaces that are installed at first        *)
  InstallLists,   (* arguments: sequences of records of a protocol and the *)
  ReinstallLists  (* old and the new interface, or old = new               *)

VARIABLES
  installer,      (* the function that runs                                *)
  args,
  installing,     (* where it is                                           *)
  done,           (* Index, the calls that have succeeded                  *)
  undone,         (* how many of them have been undone                     *)
  refused,        (* which of these the firmware has not taken back        *)
  Outcome,        (* Status                                                *)
  Handle, OldHandle,
  db, db0,        (* the interfaces of the system, now and before          *)
  tpl

installVars ==
  <<installer, args, installing, done, undone, refused, Outcome, Handle, OldHandle, db, db0, tpl>>

NoHandle == 0
TheHandle == 1
NewHandle == 2
(* The address of the caller's variable is not a handle.                   *)
HandleVariable == -1

(* A handle has one interface of a protocol, and none before it is made.   *)
ASSUME InstallAssumption ==
  /\ \A l \in InstallLists \cup ReinstallLists : Len(l) \in Nat /\ DOMAIN l = 1..Len(l)
  /\ \A d \in Databases :
       /\ \A x \in d : x.handle \notin {NewHandle, HandleVariable}
       /\ \A x \in d, y \in d : x.handle = y.handle /\ x.protocol = y.protocol => x = y

Installed(h, p, i) == [handle |-> h, protocol |-> p, interface |-> i]

InstallInit ==
  /\ \/ installer = "install" /\ args \in InstallLists /\ Handle \in {NoHandle, TheHandle}
     \/ installer \in {"reinstall", "uninstall"} /\ args \in ReinstallLists /\ Handle = TheHandle
  /\ db \in Databases /\ db0 = db /\ OldHandle = Handle
  /\ installing = "begin" /\ Outcome = "SUCCESS"
  /\ done = 0 /\ undone = 0 /\ refused = {} /\ tpl = "APPLICATION"

RaiseTPL ==
  /\ installing = "begin"
  /\ installing' = "call" /\ tpl' = IF installer = "uninstall" THEN tpl ELSE "NOTIFY"
  /\ UNCHANGED <<installer, args, done, undone, refused, Outcome, Handle, OldHandle, db, db0>>

-----------------------------------------------------------------------------
(* The boot services: what they may answer, and the interfaces after that. *)
(* A handle comes into being with its first interface; an interface that   *)
(* is in use is not given up.                                              *)
HasOn(h, p) == \E x \in db : x.handle = h /\ x.protocol = p
HandleFor(h) == IF h = NoHandle THEN NewHandle ELSE h

Refused(statuses) == [status : statuses, db : {db}]
Granted(database) == [status : {"SUCCESS"}, db : {database}]

InstallInterface(h, p, i) ==
  IF HasOn(h, p) THEN Refused({"INVALID_PARAMETER"})
  ELSE Refused({"OUT_OF_RESOURCES"}) \cup Granted(db \cup {Installed(HandleFor(h), p, i)})

ReinstallInterface(h, p, from, to) ==
  IF Installed(h, p, from) \notin db THEN Refused({"INVALID_PARAMETER", "NOT_FOUND"})
  ELSE Refused({"ACCESS_DENIED"})
       \cup Granted((db \ {Installed(h, p, from)}) \cup {Installed(h, p, to)})

UninstallInterface(h, p, i) ==
  IF Installed(h, p, i) \notin db THEN Refused({"NOT_FOUND"})
  ELSE Refused({"ACCESS_DENIED"}) \cup Granted(db \ {Installed(h, p, i)})

-----------------------------------------------------------------------------
Called(database, handle) ==
  /\ db' = database /\ Handle' = handle
  /\ done' = done + 1
  /\ UNCHANGED <<installer, args, installing, undone, refused, Outcome, OldHandle, db0, tpl>>

CallFails(status) ==
  /\ Outcome' = status /\ installing' = "undo"
  /\ UNCHANGED <<installer, args, done, undone, refused, Handle, OldHandle, db, db0, tpl>>

InstallNext1 ==
  /\ installer = "install" /\ installing = "call" /\ done < Len(args)
  /\ LET a == args[done + 1]
     IN  \E r \in InstallInterface(Handle, a.protocol, a.new) :
           IF r.status = "SUCCESS" THEN Called(r.db, HandleFor(Handle)) ELSE CallFails(r.status)

(* The service takes a handle; it is given the variable that holds one.    *)
ReinstallHandle == HandleVariable

ReinstallNext1 ==
  /\ installer = "reinstall" /\ installing = "call" /\ done < Len(args)
  /\ LET a == args[done + 1]
     IN  \E r \in ReinstallInterface(ReinstallHandle, a.protocol, a.old, a.new) :
           IF r.status = "SUCCESS" THEN Called(r.db, Handle) ELSE CallFails(r.status)

(* Nobody learns of the failures.                                          *)
UninstallNext1 ==
  /\ installer = "uninstall" /\ installing = "call" /\ done < Len(args)
  /\ LET a == args[done + 1]
     IN  \E r \in UninstallInterface(Handle, a.protocol, a.old) : Called(r.db, Handle)

(* mutation: the handle before the call, which may be none                 *)
UndoHandle_Old == OldHandle

UndoHandle == Handle

(* In the order in which they were done, and whatever the service says.    *)
Undo1 ==
  /\ installing = "undo" /\ undone < done
  /\ undone' = undone + 1
  /\ LET a == args[undone + 1]
     IN  \E r \in (IF installer = "install"
                   THEN UninstallInterface(UndoHandle, a.protocol, a.new)
                   ELSE ReinstallInterface(ReinstallHandle, a.protocol, a.new, a.old)) :
           /\ db' = r.db
           /\ refused' = IF r.status = "ACCESS_DENIED" THEN refused \cup {undone'} ELSE refused
  /\ UNCHANGED <<installer, args, installing, done, Outcome, Handle, OldHandle, db0, tpl>>

RestoreTPL ==
  /\ \/ installing = "call" /\ done = Len(args) /\ UNCHANGED Handle
     \/ /\ installing = "undo" /\ undone = done
        /\ Handle' = IF installer = "install" THEN OldHandle ELSE Handle
  /\ installing' = "done" /\ tpl' = "APPLICATION"
  /\ UNCHANGED <<installer, args, done, undone, refused, Outcome, OldHandle, db, db0>>

InstallNext ==
  RaiseTPL \/ InstallNext1 \/ ReinstallNext1 \/ UninstallNext1 \/ Undo1 \/ RestoreTPL

InstallSpec == InstallInit /\ [][InstallNext]_installVars

-----------------------------------------------------------------------------
(* Whenever a notification can run either all interfaces are installed, on *)
(* one handle, or none is but those the firmware has not taken back when   *)
(* it was asked to, and the caller's handle is what it was, so that of a   *)
(* handle that was made for them the caller never hears; what others have  *)
(* installed stays.                                                        *)
InstalledOrUndone ==
  installer = "install" /\ tpl = "APPLICATION" /\ installing # "begin" =>
    IF Outcome = "SUCCESS"
    THEN db = db0 \cup {Installed(Handle, args[i].protocol, args[i].new) : i \in DOMAIN args}
    ELSE /\ Handle = OldHandle
         /\ db = db0 \cup {Installed(HandleFor(OldHandle), args[i].protocol, args[i].new) :
                           i \in refused}

(* LibReinstallProtocolInterfaces exchanges nothing, and says so unless it *)
(* was asked for nothing: what it gives the service in place of the handle *)
(* is the address of the variable that holds it.                           *)
NothingReinstalled ==
  installer = "reinstall" /\ installing = "done" =>
    db = db0 /\ (Outcome = "SUCCESS" <=> Len(args) = 0)

(* LibInstallProtocolInterfaces does all of its list or, when one of it    *)
(* fails, undoes what it has done as far as the firmware lets it, and      *)
(* LibReinstallProtocolInterfaces never does any of it.                    *)
AllOrNothing ==
  /\ InstalledOrUndone
  /\ NothingReinstalled
=============================================================================
