----------------------------- MODULE Reinstall -----------------------------
(***************************************************************************)
(* Reinstalling the system of one machine (service/clone/reinstall.go):    *)
(* the system disk is renamed to a backup, a fresh one is made from the    *)
(* template, the machine is started, and only then the backup is removed;  *)
(* an error in between rolls back.  What a disk holds is the task that     *)
(* made it, Original for what the machine had.  Users may start and stop   *)
(* the machine meanwhile.                                                  *)
(***************************************************************************)
EXTENDS Naturals, FiniteSets, QueueSlots

CONSTANTS
    Tasks,       \* ids of reinstall requests and their tasks
    Original,    \* the system the machine had
    Kinds,       \* subset of {"linux", "windows", "windows_cold"}
    Faults      \* subset of {"fail", "restore", "cleanup", "cancel", "crash"}

ASSUME ReinstallAssumption ==
    /\ Original \notin Tasks /\ Slots \in Nat \ {0}
    /\ Kinds \subseteq {"linux", "windows", "windows_cold"}
    /\ Faults \subseteq {"fail", "restore", "cleanup", "cancel", "crash"}
    /\ None \notin Tasks \cup {Original}

VARIABLES
    disk,        \* what the system disk's path holds, or None
    backup,      \* what the backup of each task holds, or None
    live,        \* the system the machine runs, None when it is off
    xml,         \* its definition: config drive and reboot policy
    credential,  \* the system whose password is on record
    asking,      \* requests that have passed HasActiveReinstallTask
    phase,       \* the tasks, as the queue promises them
    kind,        \* template type of each task
    step,        \* where its handler is
    saved,       \* originalXML of each task
    modified,    \* tasks whose xmlModified is set
    canceled,    \* tasks whose context is canceled
    before,      \* history: what the disk held when the task took it away
    overlap      \* history: two tasks were active at a time

machine == <<disk, backup, live, xml, credential>>
tasks == <<phase, kind, step, saved, modified, canceled, before>>
vars == <<machine, asking, tasks, overlap>>

Queue == INSTANCE TaskLifecycle

Systems == {Original} \cup Tasks
Definition == [drive : Systems, reboot : {"restart", "destroy"}]
Steps == {"none", "check", "snapshots", "shutdown", "wait", "backup", "create",
          "prepare", "policy", "start", "first_boot", "unpolicy", "record",
          "cleanup", "rollback", "restore_xml", "remove_disk", "restore_disk",
          "failed", "success", "lost"}
Finished == {"failed", "success", "lost"}

Init ==
    /\ disk = Original
    /\ backup = [t \in Tasks |-> None]
    /\ live \in {None, Original}
    /\ xml = [drive |-> Original, reboot |-> "restart"]
    /\ credential = Original
    /\ asking = {}
    /\ Queue!Init
    /\ kind \in [Tasks -> Kinds]
    /\ step = [t \in Tasks |-> "none"]
    /\ saved = [t \in Tasks |-> None]
    /\ modified = {} /\ canceled = {}
    /\ before = [t \in Tasks |-> None]
    /\ overlap = FALSE

Active == {t \in Tasks : phase[t] \in {"waiting", "executing"}}
May(fault) == fault \in Faults
Go(t, to) == step' = [step EXCEPT ![t] = to]
At(t, where) == step[t] = where

-----------------------------------------------------------------------------
(* Users and requests.                                                     *)

GuestStops ==
    /\ live # None
    /\ live' = None
    /\ UNCHANGED <<disk, backup, xml, credential, asking, tasks, overlap>>

(* FixOnReboot first: every start but the reinstall's own first one sets   *)
(* the policy back to restart.                                             *)
UserStarts ==
    /\ live = None /\ disk # None
    /\ live' = disk
    /\ xml' = [xml EXCEPT !.reboot = "restart"]
    /\ UNCHANGED <<disk, backup, credential, asking, tasks, overlap>>

ReinstallVm(t) ==
    /\ phase[t] = "new" /\ t \notin asking
    /\ Active = {}
    /\ asking' = asking \cup {t}
    /\ UNCHANGED <<machine, tasks, overlap>>

Submit(t) ==
    /\ t \in asking
    /\ asking' = asking \ {t}
    /\ overlap' = (overlap \/ Active # {})
    /\ Queue!Accept(t)
    /\ UNCHANGED <<machine, kind, step, saved, modified, canceled, before>>

CancelTask(t) ==
    /\ May("cancel")
    /\ \/ Queue!Skip(t) /\ UNCHANGED canceled
       \/ /\ phase[t] = "executing" /\ t \notin canceled
          /\ canceled' = canceled \cup {t} /\ UNCHANGED phase
    /\ UNCHANGED <<machine, asking, kind, step, saved, modified, before, overlap>>

Execute(t) ==
    /\ Queue!Execute(t)
    /\ Go(t, "check")
    /\ UNCHANGED <<machine, asking, kind, saved, modified, canceled, before, overlap>>

-----------------------------------------------------------------------------
(* ReinstallVM.                                                            *)

(* Checks of template, boot type and credentials; the definition is read.  *)
Check(t) ==
    /\ At(t, "check")
    /\ \/ saved' = [saved EXCEPT ![t] = xml] /\ Go(t, "snapshots")
       \/ May("fail") /\ UNCHANGED saved /\ Go(t, "failed")
    /\ UNCHANGED <<machine, asking, phase, kind, modified, canceled, before, overlap>>

DeleteAllSnapshots(t) ==
    /\ At(t, "snapshots")
    /\ \/ Go(t, "shutdown")
       \/ May("fail") /\ Go(t, "failed")
    /\ UNCHANGED <<machine, asking, phase, kind, saved, modified, canceled, before, overlap>>

(* The machine is stopped; then its state is polled until it is off.       *)
Shutdown(t) ==
    /\ At(t, "shutdown")
    /\ \/ live' = None /\ Go(t, "wait")
       \/ May("fail") /\ live # None /\ UNCHANGED live /\ Go(t, "failed")
    /\ UNCHANGED <<disk, backup, xml, credential, asking, phase, kind, saved, modified,
                   canceled, before, overlap>>

WaitForVMShutOff(t) ==
    /\ At(t, "wait")
    /\ \/ live = None /\ Go(t, "backup")
       \/ (t \in canceled \/ live # None) /\ Go(t, "failed")
    /\ UNCHANGED <<machine, asking, phase, kind, saved, modified, canceled, before, overlap>>

(* Fault: the fresh disk is made over the old one.                         *)
CopyToNoBackup(t) ==
    /\ At(t, "backup")
    /\ \/ /\ disk # None
          /\ disk' = None
          /\ before' = [before EXCEPT ![t] = disk]
          /\ Go(t, "create")
       \/ disk = None /\ UNCHANGED <<disk, before>> /\ Go(t, "failed")
    /\ UNCHANGED <<backup, live, xml, credential, asking, phase, kind, saved, modified,
                   canceled, overlap>>

RenameToBackup(t) ==
    /\ At(t, "backup")
    /\ \/ /\ disk # None
          /\ backup' = [backup EXCEPT ![t] = disk] /\ disk' = None
          /\ before' = [before EXCEPT ![t] = disk]
          /\ Go(t, "create")
       \/ /\ disk = None \/ May("fail")
          /\ UNCHANGED <<disk, backup, before>> /\ Go(t, "failed")
    /\ UNCHANGED <<live, xml, credential, asking, phase, kind, saved, modified, canceled,
                   overlap>>

(* From here on an error rolls back.                                       *)
createReinstallSystemDisk(t) ==
    /\ At(t, "create")
    /\ \/ disk' = t /\ Go(t, "prepare")
       \/ May("fail") /\ disk' \in {disk, t} /\ Go(t, "rollback")
    /\ UNCHANGED <<backup, live, xml, credential, asking, phase, kind, saved, modified,
                   canceled, before, overlap>>

(* Windows gets a config drive: the new definition takes the place of      *)
(* originalXML when it was saved, and is left out when it was not.         *)
Prepare(t) ==
    /\ At(t, "prepare")
    /\ \/ /\ kind[t] # "linux"
          /\ LET new == [saved[t] EXCEPT !.drive = t] IN
               xml' = new /\ saved' = [saved EXCEPT ![t] = new]
          /\ modified' = modified \cup {t}
          /\ Go(t, "policy")
       \/ /\ kind[t] = "linux" \/ May("fail")
          /\ UNCHANGED <<xml, saved, modified>> /\ Go(t, "policy")
       \/ /\ May("fail") \/ t \in canceled
          /\ UNCHANGED <<xml, saved, modified>> /\ Go(t, "rollback")
    /\ UNCHANGED <<disk, backup, live, credential, asking, phase, kind, canceled, before,
                   overlap>>

ColdReboot(t) == kind[t] = "windows_cold"

ApplyFirstBootRebootMode(t) ==
    /\ At(t, "policy")
    /\ \/ /\ ColdReboot(t)
          /\ xml' = [saved[t] EXCEPT !.reboot = "destroy"]
          /\ modified' = modified \cup {t}
          /\ Go(t, "start")
       \/ ~ ColdReboot(t) /\ UNCHANGED <<xml, modified>> /\ Go(t, "start")
       \/ ColdReboot(t) /\ May("fail") /\ UNCHANGED <<xml, modified>> /\ Go(t, "rollback")
    /\ UNCHANGED <<disk, backup, live, credential, asking, phase, kind, saved, canceled,
                   before, overlap>>

(* A machine that runs already is an error; so is a network that cannot be *)
(* set up once it runs.                                                    *)
Start(t) ==
    /\ At(t, "start")
    /\ \/ /\ live = None /\ disk # None
          /\ live' = disk
          /\ xml' = IF ColdReboot(t) THEN xml ELSE [xml EXCEPT !.reboot = "restart"]
          /\ Go(t, IF ColdReboot(t) THEN "first_boot" ELSE "record")
       \/ /\ live # None \/ disk = None \/ May("fail")
          /\ live' \in IF live = None THEN {None, disk} ELSE {live}
          /\ xml' \in {xml, IF ColdReboot(t) THEN xml ELSE [xml EXCEPT !.reboot = "restart"]}
          /\ Go(t, "rollback")
    /\ UNCHANGED <<disk, backup, credential, asking, phase, kind, saved, modified, canceled,
                   before, overlap>>

(* The first reboot of Windows is a stop, after which it is started again; *)
(* when none is seen in time the machine is left as it is.  A user who     *)
(* starts it between the poll and the start makes the start an error.      *)
CompleteWindowsFirstBootColdReboot(t) ==
    /\ At(t, "first_boot")
    /\ \/ /\ xml' = [xml EXCEPT !.reboot = "restart"]
          /\ \/ live # None /\ UNCHANGED live
             \/ live = None /\ disk # None /\ live' = disk
          /\ Go(t, "unpolicy")
       \/ /\ May("fail") \/ t \in canceled \/ disk = None \/ live # None
          /\ xml' \in {xml, [xml EXCEPT !.reboot = "restart"]}
          /\ UNCHANGED live
          /\ Go(t, "rollback")
    /\ UNCHANGED <<disk, backup, credential, asking, phase, kind, saved, modified, canceled,
                   before, overlap>>

RestoreXMLAfterFirstBoot(t) ==
    /\ At(t, "unpolicy")
    /\ \/ xml' = saved[t] /\ modified' = modified \ {t} /\ Go(t, "record")
       \/ May("fail") /\ UNCHANGED <<xml, modified>> /\ Go(t, "rollback")
    /\ UNCHANGED <<disk, backup, live, credential, asking, phase, kind, saved, canceled,
                   before, overlap>>

(* Errors of the records are only logged.                                  *)
SaveVMCredential(t) ==
    /\ At(t, "record")
    /\ credential' \in {t} \cup (IF May("fail") THEN {credential} ELSE {})
    /\ Go(t, "cleanup")
    /\ UNCHANGED <<disk, backup, live, xml, asking, phase, kind, saved, modified, canceled,
                   before, overlap>>

RemoveBackup(t) ==
    /\ At(t, "cleanup")
    /\ \/ backup' = [backup EXCEPT ![t] = None] /\ Go(t, "success")
       \/ May("cleanup") /\ UNCHANGED backup /\ Go(t, "rollback")
    /\ UNCHANGED <<disk, live, xml, credential, asking, phase, kind, saved, modified,
                   canceled, before, overlap>>

(* The deferred rollback.  Its errors are added to the message.            *)
RollbackDestroys(t) ==
    /\ At(t, "rollback")
    /\ \/ live' = None
       \/ May("restore") /\ UNCHANGED live
    /\ Go(t, IF t \in modified THEN "restore_xml" ELSE "remove_disk")
    /\ UNCHANGED <<disk, backup, xml, credential, asking, phase, kind, saved, modified,
                   canceled, before, overlap>>

RollbackXML(t) ==
    /\ At(t, "restore_xml")
    /\ \/ xml' = saved[t]
       \/ May("restore") /\ UNCHANGED xml
    /\ Go(t, "remove_disk")
    /\ UNCHANGED <<disk, backup, live, credential, asking, phase, kind, saved, modified,
                   canceled, before, overlap>>

RemoveFreshDisk(t) ==
    /\ At(t, "remove_disk")
    /\ disk' = None
    /\ Go(t, "restore_disk")
    /\ UNCHANGED <<backup, live, xml, credential, asking, phase, kind, saved, modified,
                   canceled, before, overlap>>

(* Fault: the backup is given up together with the fresh disk.             *)
RestoreNothing(t) ==
    /\ At(t, "restore_disk")
    /\ disk' = None /\ backup' = [backup EXCEPT ![t] = None]
    /\ Go(t, "failed")
    /\ UNCHANGED <<live, xml, credential, asking, phase, kind, saved, modified, canceled,
                   before, overlap>>

bestEffortRestoreReinstallDisk(t) ==
    /\ At(t, "restore_disk")
    /\ \/ backup[t] # None /\ disk' = backup[t] /\ backup' = [backup EXCEPT ![t] = None]
       \/ /\ May("restore") \/ backup[t] = None
          /\ UNCHANGED <<disk, backup>>
    /\ Go(t, "failed")
    /\ UNCHANGED <<live, xml, credential, asking, phase, kind, saved, modified, canceled,
                   before, overlap>>

Settle(t) ==
    /\ step[t] \in Finished
    /\ Queue!Settle(t)
    /\ UNCHANGED <<machine, asking, kind, step, saved, modified, canceled, before, overlap>>

-----------------------------------------------------------------------------
(* The panel dies: no task is taken up again and nothing is rolled back.   *)
Crash ==
    /\ May("crash")
    /\ \E t \in Tasks : phase[t] = "executing"
    /\ phase' = [t \in Tasks |-> IF phase[t] = "new" THEN "new" ELSE "settled"]
    /\ step' = [t \in Tasks |-> IF phase[t] = "executing" /\ step[t] \notin Finished
                                THEN "lost" ELSE step[t]]
    /\ asking' = {} /\ canceled' = {}
    /\ UNCHANGED <<machine, kind, saved, modified, before, overlap>>

ReinstallVM(t) ==
    \/ Check(t) \/ DeleteAllSnapshots(t) \/ Shutdown(t) \/ WaitForVMShutOff(t)
    \/ RenameToBackup(t) \/ createReinstallSystemDisk(t) \/ Prepare(t)
    \/ ApplyFirstBootRebootMode(t) \/ Start(t)
    \/ CompleteWindowsFirstBootColdReboot(t) \/ RestoreXMLAfterFirstBoot(t)
    \/ SaveVMCredential(t) \/ RemoveBackup(t)
    \/ RollbackDestroys(t) \/ RollbackXML(t) \/ RemoveFreshDisk(t)
    \/ bestEffortRestoreReinstallDisk(t)

Next ==
    \/ GuestStops \/ UserStarts \/ Crash
    \/ \E t \in Tasks : ReinstallVm(t) \/ Submit(t) \/ CancelTask(t)
                        \/ Execute(t) \/ ReinstallVM(t) \/ Settle(t)

Spec == Init /\ [][Next]_vars

-----------------------------------------------------------------------------
(* Types; and a task works from a definition it has read.                  *)
TypeOK ==
    /\ disk \in Systems \cup {None} /\ live \in Systems \cup {None}
    /\ backup \in [Tasks -> Systems \cup {None}]
    /\ xml \in Definition /\ credential \in Systems
    /\ asking \subseteq Tasks
    /\ phase \in [Tasks -> Queue!Phases] /\ kind \in [Tasks -> Kinds]
    /\ step \in [Tasks -> Steps]
    /\ saved \in [Tasks -> Definition \cup {None}]
    /\ \A t \in Tasks : step[t] \notin {"none", "check"} \cup Finished => saved[t] \in Definition
    /\ modified \subseteq Tasks /\ canceled \subseteq Tasks
    /\ before \in [Tasks -> Systems \cup {None}]

(* Once a reinstall has taken the disk away, the system it held is in the  *)
(* backup until the task has ended in success or in a rollback: through    *)
(* every error, cancel, users who start the machine in the middle, a       *)
(* second reinstall that slipped past the check, and for ever when the     *)
(* panel dies in between.                                                  *)
OldSystemKept ==
    \A t \in Tasks : (before[t] # None /\ step[t] \notin {"success", "failed"})
        => backup[t] = before[t]

(* A reinstall that reports success has installed its own system, keeps no *)
(* backup, and has left the machine to restart when the guest reboots,     *)
(* unless the definition it found said otherwise.  One that fails after it *)
(* took the disk away has given it back; only an error of the rollback     *)
(* itself leaves the system in the backup (clone/reinstall.go:173-314).    *)
VerdictIsTrue ==
    ~ overlap =>
        \A t \in Tasks : phase[t] = "executing" =>
            /\ step[t] = "success" =>
                 /\ disk = t /\ backup[t] = None
                 /\ xml.reboot \in {"restart", saved[t].reboot}
            /\ (step[t] = "failed" /\ before[t] # None) =>
                 \/ disk = before[t] /\ backup[t] = None
                 \/ May("restore") /\ disk = None /\ backup[t] = before[t]
=============================================================================
