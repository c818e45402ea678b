--------------------------- MODULE MachinesProofs ---------------------------
(***************************************************************************)
(* Proofs about what a user has of machines, for any number of requests,   *)
(* tasks and names, any mix of templates and any set of faults: the system *)
(* a reinstall takes away is kept until its end is certain, and what it    *)
(* reports is true (Reinstall); a registration in the lightweight cloud    *)
(* that is being provisioned has a task, and an active one is complete     *)
(* (LightweightRegistration); the list of those owned is what is there     *)
(* (MachineOwnership); the rules that forward ports to machines are those  *)
(* users made, and the script of them is right in the end (PortForwards).  *)
(***************************************************************************)
EXTENDS Reinstall, LightweightRegistration, MachineOwnership, PortForwards,
        FiniteSetTheorems, SequenceTheorems, WellFoundedInduction, TLAPS

(* Where a handler stands: before it touches the disk, on the disk it has  *)
(* made, and undoing what it did.                                          *)
BeforeBackup == {"none", "check", "snapshots", "shutdown", "wait", "backup"}
OnFresh == {"prepare", "policy", "start", "first_boot", "unpolicy", "record", "cleanup"}
InRollback == {"rollback", "restore_xml", "remove_disk", "restore_disk"}

(* A task has taken the disk away exactly when it is past the backup; what *)
(* it took is in its backup until it ends in success or failure.           *)
BackupInv ==
    \A t \in Tasks :
        /\ before[t] # None => step[t] \notin BeforeBackup
        /\ step[t] \in OnFresh \cup InRollback \cup {"create"} => before[t] # None

(* A handler is under way only in the worker that executes its task.       *)
PhaseInv ==
    \A t \in Tasks :
        /\ phase[t] \in {"new", "waiting"} => step[t] = "none"
        /\ phase[t] # "executing" => step[t] \in {"none"} \cup Finished

(* The check of HasActiveReinstallTask works while no request slips past.  *)
OneActive == ~ overlap => \A s, t \in Active : s = t

(* Alone, a handler finds the disk as its last step left it.               *)
DiskInv ==
    ~ overlap =>
        \A t \in Tasks : phase[t] = "executing" =>
            /\ step[t] \in {"create", "restore_disk"} => disk = None
            /\ step[t] \in OnFresh => disk = t
            /\ step[t] \in {"record", "cleanup"} => xml.reboot \in {"restart", saved[t].reboot}

KeptInv == TypeOK /\ BackupInv /\ PhaseInv /\ OldSystemKept
RInv == KeptInv /\ OneActive /\ DiskInv /\ VerdictIsTrue

-----------------------------------------------------------------------------
(* Types.                                                                  *)

LEMMA TypeInit == Init => TypeOK
  BY ReinstallAssumption DEF Init, TypeOK, Systems, Definition, Steps, Queue!Init,
     Queue!Phases, Finished

LEMMA TypeHandler ==
  ASSUME TypeOK, NEW t \in Tasks, ReinstallVM(t)
  PROVE  TypeOK'
<1> USE ReinstallAssumption DEF TypeOK, Systems, Definition, Steps, Finished, Go, At, tasks, machine
<1>1. ASSUME Check(t) PROVE TypeOK'
  BY <1>1 DEF Check
<1>2. ASSUME DeleteAllSnapshots(t) PROVE TypeOK'
  BY <1>2 DEF DeleteAllSnapshots
<1>3. ASSUME Shutdown(t) PROVE TypeOK'
  BY <1>3 DEF Shutdown
<1>4. ASSUME WaitForVMShutOff(t) PROVE TypeOK'
  BY <1>4 DEF WaitForVMShutOff
<1>5. ASSUME RenameToBackup(t) PROVE TypeOK'
  BY <1>5 DEF RenameToBackup
<1>6. ASSUME createReinstallSystemDisk(t) PROVE TypeOK'
  BY <1>6 DEF createReinstallSystemDisk
<1>7. ASSUME Prepare(t) PROVE TypeOK'
  BY <1>7 DEF Prepare
<1>8. ASSUME ApplyFirstBootRebootMode(t) PROVE TypeOK'
  BY <1>8 DEF ApplyFirstBootRebootMode, ColdReboot
<1>9. ASSUME Start(t) PROVE TypeOK'
  BY <1>9 DEF Start, ColdReboot
<1>10. ASSUME CompleteWindowsFirstBootColdReboot(t) PROVE TypeOK'
  BY <1>10 DEF CompleteWindowsFirstBootColdReboot
<1>11. ASSUME RestoreXMLAfterFirstBoot(t) PROVE TypeOK'
  BY <1>11 DEF RestoreXMLAfterFirstBoot
<1>12. ASSUME SaveVMCredential(t) PROVE TypeOK'
  BY <1>12 DEF SaveVMCredential
<1>13. ASSUME RemoveBackup(t) PROVE TypeOK'
  BY <1>13 DEF RemoveBackup
<1>14. ASSUME RollbackDestroys(t) PROVE TypeOK'
  BY <1>14 DEF RollbackDestroys
<1>15. ASSUME RollbackXML(t) PROVE TypeOK'
  BY <1>15 DEF RollbackXML
<1>16. ASSUME RemoveFreshDisk(t) PROVE TypeOK'
  BY <1>16 DEF RemoveFreshDisk
<1>17. ASSUME bestEffortRestoreReinstallDisk(t) PROVE TypeOK'
  BY <1>17 DEF bestEffortRestoreReinstallDisk
<1> QED
  BY <1>1, <1>2, <1>3, <1>4, <1>5, <1>6, <1>7, <1>8, <1>9, <1>10, <1>11, <1>12, <1>13, <1>14,
     <1>15, <1>16, <1>17 DEF ReinstallVM

LEMMA TypeStep == TypeOK /\ [Next]_vars => TypeOK'
<1> SUFFICES ASSUME TypeOK, [Next]_vars PROVE TypeOK'
  OBVIOUS
<1> USE ReinstallAssumption
<1>1. ASSUME GuestStops \/ UserStarts PROVE TypeOK'
  BY <1>1 DEF TypeOK, GuestStops, UserStarts, Systems, Definition, tasks
<1>2. ASSUME Crash PROVE TypeOK'
  BY <1>2 DEF TypeOK, Crash, machine, Steps, Finished, Queue!Phases
<1>3. ASSUME NEW t \in Tasks, ReinstallVm(t) PROVE TypeOK'
  BY <1>3 DEF TypeOK, ReinstallVm, machine, tasks
<1>4. ASSUME NEW t \in Tasks, Submit(t) PROVE TypeOK'
  BY <1>4 DEF TypeOK, Submit, Queue!Accept, Queue!Move, Queue!Phases, machine
<1>5. ASSUME NEW t \in Tasks, CancelTask(t) PROVE TypeOK'
  BY <1>5 DEF TypeOK, CancelTask, Queue!Skip, Queue!Move, Queue!Phases, machine
<1>6. ASSUME NEW t \in Tasks, Execute(t) PROVE TypeOK'
  BY <1>6 DEF TypeOK, Execute, Go, Queue!Execute, Queue!Move, Queue!Phases, machine,
     Steps, Finished
<1>7. ASSUME NEW t \in Tasks, ReinstallVM(t) PROVE TypeOK'
  BY <1>7, TypeHandler
<1>8. ASSUME NEW t \in Tasks, Settle(t) PROVE TypeOK'
  BY <1>8 DEF TypeOK, Settle, Queue!Settle, Queue!Move, Queue!Phases, machine
<1>9. ASSUME UNCHANGED vars PROVE TypeOK'
  BY <1>9 DEF TypeOK, vars, machine, tasks
<1> QED
  BY <1>1, <1>2, <1>3, <1>4, <1>5, <1>6, <1>7, <1>8, <1>9 DEF Next

-----------------------------------------------------------------------------
(* What a step of a handler leaves alone: the queue, and every other task. *)

LEMMA HandlerFrame ==
  ASSUME TypeOK, NEW t \in Tasks, ReinstallVM(t)
  PROVE  /\ UNCHANGED <<phase, kind, asking, canceled, overlap>>
         /\ step[t] \notin Finished \cup {"none"}
         /\ \A s \in Tasks : s # t => /\ step'[s] = step[s] /\ saved'[s] = saved[s]
                                     /\ backup'[s] = backup[s] /\ before'[s] = before[s]
<1> DEFINE Frame == /\ UNCHANGED <<phase, kind, asking, canceled, overlap>>
                    /\ step[t] \notin Finished \cup {"none"}
                    /\ \A s \in Tasks : s # t => /\ step'[s] = step[s] /\ saved'[s] = saved[s]
                                                /\ backup'[s] = backup[s] /\ before'[s] = before[s]
<1> USE DEF TypeOK, Finished, Go, At, tasks, machine
<1>1. ASSUME Check(t) PROVE Frame
  BY <1>1 DEF Check
<1>2. ASSUME DeleteAllSnapshots(t) PROVE Frame
  BY <1>2 DEF DeleteAllSnapshots
<1>3. ASSUME Shutdown(t) PROVE Frame
  BY <1>3 DEF Shutdown
<1>4. ASSUME WaitForVMShutOff(t) PROVE Frame
  BY <1>4 DEF WaitForVMShutOff
<1>5. ASSUME RenameToBackup(t) PROVE Frame
  BY <1>5 DEF RenameToBackup
<1>6. ASSUME createReinstallSystemDisk(t) PROVE Frame
  BY <1>6 DEF createReinstallSystemDisk
<1>7. ASSUME Prepare(t) PROVE Frame
  BY <1>7 DEF Prepare
<1>8. ASSUME ApplyFirstBootRebootMode(t) PROVE Frame
  BY <1>8 DEF ApplyFirstBootRebootMode, ColdReboot
<1>9. ASSUME Start(t) PROVE Frame
  BY <1>9 DEF Start, ColdReboot
<1>10. ASSUME CompleteWindowsFirstBootColdReboot(t) PROVE Frame
  BY <1>10 DEF CompleteWindowsFirstBootColdReboot
<1>11. ASSUME RestoreXMLAfterFirstBoot(t) PROVE Frame
  BY <1>11 DEF RestoreXMLAfterFirstBoot
<1>12. ASSUME SaveVMCredential(t) PROVE Frame
  BY <1>12 DEF SaveVMCredential
<1>13. ASSUME RemoveBackup(t) PROVE Frame
  BY <1>13 DEF RemoveBackup
<1>14. ASSUME RollbackDestroys(t) PROVE Frame
  BY <1>14 DEF RollbackDestroys
<1>15. ASSUME RollbackXML(t) PROVE Frame
  BY <1>15 DEF RollbackXML
<1>16. ASSUME RemoveFreshDisk(t) PROVE Frame
  BY <1>16 DEF RemoveFreshDisk
<1>17. ASSUME bestEffortRestoreReinstallDisk(t) PROVE Frame
  BY <1>17 DEF bestEffortRestoreReinstallDisk
<1> QED
  BY <1>1, <1>2, <1>3, <1>4, <1>5, <1>6, <1>7, <1>8, <1>9, <1>10, <1>11, <1>12, <1>13, <1>14,
     <1>15, <1>16, <1>17 DEF ReinstallVM, Frame

-----------------------------------------------------------------------------
(* What a reinstall has taken away.                                        *)

LEMMA KeptHandler ==
  ASSUME KeptInv, NEW t \in Tasks, ReinstallVM(t)
  PROVE  (BackupInv /\ PhaseInv /\ OldSystemKept)'
<1> DEFINE Mine == /\ before'[t] # None => step'[t] \notin BeforeBackup
                   /\ step'[t] \in OnFresh \cup InRollback \cup {"create"} => before'[t] # None
                   /\ (before'[t] # None /\ step'[t] \notin {"success", "failed"})
                        => backup'[t] = before'[t]
<1> USE DEF KeptInv, TypeOK, BackupInv, OldSystemKept, BeforeBackup, OnFresh, InRollback,
        Go, At, tasks, machine, Steps
<1>1. ASSUME Check(t) PROVE Mine
  BY <1>1 DEF Check
<1>2. ASSUME DeleteAllSnapshots(t) PROVE Mine
  BY <1>2 DEF DeleteAllSnapshots
<1>3. ASSUME Shutdown(t) PROVE Mine
  BY <1>3 DEF Shutdown
<1>4. ASSUME WaitForVMShutOff(t) PROVE Mine
  BY <1>4 DEF WaitForVMShutOff
<1>5. ASSUME RenameToBackup(t) PROVE Mine
  BY <1>5 DEF RenameToBackup
<1>6. ASSUME createReinstallSystemDisk(t) PROVE Mine
  BY <1>6 DEF createReinstallSystemDisk
<1>7. ASSUME Prepare(t) PROVE Mine
  BY <1>7 DEF Prepare
<1>8. ASSUME ApplyFirstBootRebootMode(t) PROVE Mine
  BY <1>8 DEF ApplyFirstBootRebootMode, ColdReboot
<1>9. ASSUME Start(t) PROVE Mine
  BY <1>9 DEF Start, ColdReboot
<1>10. ASSUME CompleteWindowsFirstBootColdReboot(t) PROVE Mine
  BY <1>10 DEF CompleteWindowsFirstBootColdReboot
<1>11. ASSUME RestoreXMLAfterFirstBoot(t) PROVE Mine
  BY <1>11 DEF RestoreXMLAfterFirstBoot
<1>12. ASSUME SaveVMCredential(t) PROVE Mine
  BY <1>12 DEF SaveVMCredential
<1>13. ASSUME RemoveBackup(t) PROVE Mine
  BY <1>13 DEF RemoveBackup
<1>14. ASSUME RollbackDestroys(t) PROVE Mine
  BY <1>14 DEF RollbackDestroys
<1>15. ASSUME RollbackXML(t) PROVE Mine
  BY <1>15 DEF RollbackXML
<1>16. ASSUME RemoveFreshDisk(t) PROVE Mine
  BY <1>16 DEF RemoveFreshDisk
<1>17. ASSUME bestEffortRestoreReinstallDisk(t) PROVE Mine
  BY <1>17 DEF bestEffortRestoreReinstallDisk
<1>18. Mine
  BY <1>1, <1>2, <1>3, <1>4, <1>5, <1>6, <1>7, <1>8, <1>9, <1>10, <1>11, <1>12, <1>13, <1>14,
     <1>15, <1>16, <1>17 DEF ReinstallVM
<1>19. (BackupInv /\ OldSystemKept)'
  BY <1>18, HandlerFrame
<1>20. PhaseInv'
  BY HandlerFrame DEF PhaseInv, Finished
<1> QED
  BY <1>19, <1>20

LEMMA KeptInit == Init => KeptInv
<1> SUFFICES ASSUME Init PROVE KeptInv
  OBVIOUS
<1>1. TypeOK
  BY TypeInit
<1>2. BackupInv /\ PhaseInv /\ OldSystemKept
  BY DEF Init, BackupInv, PhaseInv, OldSystemKept, OnFresh, InRollback, Finished, Queue!Init
<1> QED
  BY <1>1, <1>2 DEF KeptInv

LEMMA KeptStep == KeptInv /\ [Next]_vars => KeptInv'
<1> SUFFICES ASSUME KeptInv, [Next]_vars PROVE KeptInv'
  OBVIOUS
<1> DEFINE Goal == (BackupInv /\ PhaseInv /\ OldSystemKept)'
<1> USE DEF KeptInv, TypeOK, BackupInv, PhaseInv, OldSystemKept, machine, tasks
<1>1. ASSUME GuestStops \/ UserStarts PROVE Goal
  BY <1>1 DEF GuestStops, UserStarts
<1>2. ASSUME Crash PROVE Goal
  BY <1>2 DEF Crash, BeforeBackup, OnFresh, InRollback, Finished
<1>3. ASSUME NEW t \in Tasks, ReinstallVm(t) PROVE Goal
  BY <1>3 DEF ReinstallVm
<1>4. ASSUME NEW t \in Tasks, Submit(t) PROVE Goal
  BY <1>4 DEF Submit, Queue!Accept, Queue!Move
<1>5. ASSUME NEW t \in Tasks, CancelTask(t) PROVE Goal
  BY <1>5 DEF CancelTask, Queue!Skip, Queue!Move
<1>6. ASSUME NEW t \in Tasks, Execute(t) PROVE Goal
  BY <1>6 DEF Execute, Go, Queue!Execute, Queue!Move, BeforeBackup, OnFresh, InRollback
<1>7. ASSUME NEW t \in Tasks, ReinstallVM(t) PROVE Goal
  BY <1>7, KeptHandler
<1>8. ASSUME NEW t \in Tasks, Settle(t) PROVE Goal
  BY <1>8 DEF Settle, Queue!Settle, Queue!Move
<1>9. ASSUME UNCHANGED vars PROVE Goal
  BY <1>9 DEF vars
<1>10. Goal
  BY <1>1, <1>2, <1>3, <1>4, <1>5, <1>6, <1>7, <1>8, <1>9 DEF Next
<1>11. TypeOK'
  BY TypeStep
<1> QED
  BY <1>10, <1>11

(* Types hold in every reachable state, and a handler past its checks      *)
(* works from a definition it has read (TypeOK; clone/reinstall.go).       *)
THEOREM ReinstallTypes == Spec => []TypeOK
<1>1. TypeOK /\ [Next]_vars => TypeOK'
  BY TypeStep
<1> QED
  BY TypeInit, <1>1, PTL DEF Spec

(* Whatever fails, is canceled, or is interleaved with it, and when the    *)
(* panel dies: the system a reinstall took away is in its backup until the *)
(* task has ended (OldSystemKept; clone/reinstall.go:173-314).             *)
THEOREM OldSystemIsKept == Spec => []OldSystemKept
<1>1. KeptInv => OldSystemKept
  BY DEF KeptInv
<1> QED
  BY KeptInit, KeptStep, <1>1, PTL DEF Spec

-----------------------------------------------------------------------------
(* What one handler does while no other is active.                         *)

LEMMA AloneHandler ==
  ASSUME RInv, ~ overlap, NEW t \in Tasks, ReinstallVM(t)
  PROVE  (DiskInv /\ VerdictIsTrue)'
<1> DEFINE Disk == /\ step'[t] \in {"create", "restore_disk"} => disk' = None
                   /\ step'[t] \in OnFresh => disk' = t
                   /\ step'[t] \in {"record", "cleanup"}
                        => xml'.reboot \in {"restart", saved'[t].reboot}
           Verdict == /\ step'[t] = "success" =>
                           /\ disk' = t /\ backup'[t] = None
                           /\ xml'.reboot \in {"restart", saved'[t].reboot}
                      /\ (step'[t] = "failed" /\ before'[t] # None) =>
                           \/ disk' = before'[t] /\ backup'[t] = None
                           \/ May("restore") /\ disk' = None /\ backup'[t] = before'[t]
<1>0. /\ phase[t] = "executing"
      /\ UNCHANGED <<phase, overlap>>
      /\ \A s \in Tasks : phase[s] = "executing" => s = t
  BY HandlerFrame DEF RInv, KeptInv, PhaseInv, OneActive, Active
<1> USE <1>0, ReinstallAssumption
        DEF RInv, KeptInv, TypeOK, BackupInv, OldSystemKept, DiskInv, BeforeBackup, OnFresh,
            InRollback, Finished, Systems, Definition, Go, At, tasks, machine
<1>1. ASSUME Check(t) PROVE Disk /\ Verdict
  BY <1>1 DEF Check
<1>2. ASSUME DeleteAllSnapshots(t) PROVE Disk /\ Verdict
  BY <1>2 DEF DeleteAllSnapshots
<1>3. ASSUME Shutdown(t) PROVE Disk /\ Verdict
  BY <1>3 DEF Shutdown
<1>4. ASSUME WaitForVMShutOff(t) PROVE Disk /\ Verdict
  BY <1>4 DEF WaitForVMShutOff
<1>5. ASSUME RenameToBackup(t) PROVE Disk /\ Verdict
  BY <1>5 DEF RenameToBackup
<1>6. ASSUME createReinstallSystemDisk(t) PROVE Disk /\ Verdict
  BY <1>6 DEF createReinstallSystemDisk
<1>7. ASSUME Prepare(t) PROVE Disk /\ Verdict
  BY <1>7 DEF Prepare
<1>8. ASSUME ApplyFirstBootRebootMode(t) PROVE Disk /\ Verdict
  BY <1>8 DEF ApplyFirstBootRebootMode, ColdReboot
<1>9. ASSUME Start(t) PROVE Disk /\ Verdict
  BY <1>9 DEF Start, ColdReboot
<1>10. ASSUME CompleteWindowsFirstBootColdReboot(t) PROVE Disk /\ Verdict
  BY <1>10 DEF CompleteWindowsFirstBootColdReboot
<1>11. ASSUME RestoreXMLAfterFirstBoot(t) PROVE Disk /\ Verdict
  BY <1>11 DEF RestoreXMLAfterFirstBoot
<1>12. ASSUME SaveVMCredential(t) PROVE Disk /\ Verdict
  BY <1>12 DEF SaveVMCredential
<1>13. ASSUME RemoveBackup(t) PROVE Disk /\ Verdict
  BY <1>13 DEF RemoveBackup
<1>14. ASSUME RollbackDestroys(t) PROVE Disk /\ Verdict
  BY <1>14 DEF RollbackDestroys
<1>15. ASSUME RollbackXML(t) PROVE Disk /\ Verdict
  BY <1>15 DEF RollbackXML
<1>16. ASSUME RemoveFreshDisk(t) PROVE Disk /\ Verdict
  BY <1>16 DEF RemoveFreshDisk
<1>17. ASSUME bestEffortRestoreReinstallDisk(t) PROVE Disk /\ Verdict
  BY <1>17 DEF bestEffortRestoreReinstallDisk
<1>18. Disk /\ Verdict
  BY <1>1, <1>2, <1>3, <1>4, <1>5, <1>6, <1>7, <1>8, <1>9, <1>10, <1>11, <1>12, <1>13, <1>14,
     <1>15, <1>16, <1>17 DEF ReinstallVM
<1> QED
  BY <1>0, <1>18 DEF DiskInv, VerdictIsTrue

LEMMA RStep == RInv /\ [Next]_vars => RInv'
<1> SUFFICES ASSUME RInv, [Next]_vars PROVE RInv'
  OBVIOUS
<1> DEFINE Alone == (OneActive /\ DiskInv /\ VerdictIsTrue)'
<1>0. KeptInv'
  BY KeptStep DEF RInv
<1> USE DEF RInv, KeptInv, TypeOK, OneActive, Active, DiskInv, VerdictIsTrue, machine, tasks
<1>1. ASSUME GuestStops PROVE Alone
  BY <1>1 DEF GuestStops
<1>2. ASSUME UserStarts PROVE Alone
  BY <1>2 DEF UserStarts, Definition
<1>3. ASSUME Crash PROVE Alone
  BY <1>3 DEF Crash
<1>4. ASSUME NEW t \in Tasks, ReinstallVm(t) PROVE Alone
  BY <1>4 DEF ReinstallVm
<1>5. ASSUME NEW t \in Tasks, Submit(t) PROVE Alone
  BY <1>5 DEF Submit, Queue!Accept, Queue!Move
<1>6. ASSUME NEW t \in Tasks, CancelTask(t) PROVE Alone
  BY <1>6 DEF CancelTask, Queue!Skip, Queue!Move
<1>7. ASSUME NEW t \in Tasks, Execute(t) PROVE Alone
  BY <1>7 DEF Execute, Go, Queue!Execute, Queue!Move, OnFresh, Steps
<1>8. ASSUME NEW t \in Tasks, ReinstallVM(t) PROVE Alone
  <2>1. CASE overlap
    BY <1>8, <2>1, HandlerFrame
  <2>2. CASE ~ overlap
    <3>1. OneActive'
      BY <1>8, HandlerFrame
    <3> QED
      BY <1>8, <2>2, <3>1, AloneHandler
  <2> QED
    BY <2>1, <2>2
<1>9. ASSUME NEW t \in Tasks, Settle(t) PROVE Alone
  BY <1>9 DEF Settle, Queue!Settle, Queue!Move
<1>10. ASSUME UNCHANGED vars PROVE Alone
  BY <1>10 DEF vars
<1>11. Alone
  BY <1>1, <1>2, <1>3, <1>4, <1>5, <1>6, <1>7, <1>8, <1>9, <1>10 DEF Next
<1> QED
  BY <1>0, <1>11

(* RInv, what is known of a handler alone with its machine: only requests  *)
(* that slipped past HasActiveReinstallTask can break it                   *)
(* (clone/reinstall.go, handler/vm.go).                                    *)
THEOREM ReinstallInvariant == Spec => []RInv
<1>1. Init => RInv
  BY KeptInit DEF Init, RInv, OneActive, Active, DiskInv, VerdictIsTrue, Queue!Init
<1> QED
  BY <1>1, RStep, PTL DEF Spec

(* A reinstall that reports success has installed its own system and keeps *)
(* no backup; one that fails has given the old system back, or, when the   *)
(* rollback itself fails, still has it in the backup (VerdictIsTrue).      *)
THEOREM VerdictIsAlwaysTrue == Spec => []VerdictIsTrue
<1>1. RInv => VerdictIsTrue
  BY DEF RInv
<1> QED
  BY ReinstallInvariant, <1>1, PTL

-----------------------------------------------------------------------------
(* Ids grow.  Every task belongs to the confirmation that submitted it and *)
(* works for the registration that was confirmed.                          *)
IdInv ==
    /\ reg # None => reg.id =< lastId
    /\ \A c \in Confirmations : /\ confirm[c] # None => confirm[c].id =< lastId
                                /\ job[c] # None => job[c].id =< lastId
TaskInv ==
    \A t \in Confirmations :
      /\ job[t] # None <=> provision[t] = "executing"
      /\ provision[t] \in {"waiting", "executing"} => confirm[t] # None /\ confirm[t].pc # "submit"
      /\ confirm[t] # None => (confirm[t].pc = "submit" <=> provision[t] = "new")
      /\ job[t] # None => job[t].id = confirm[t].id

(* While none of the windows is open that ActiveIsComplete names, one task *)
(* is at work at a time.  What it made for a registration that is still    *)
(* there is there, unless its machine is being removed; and nobody is at   *)
(* work on an active one.                                                  *)
Undisturbed == lapses \cap {"twice", "removal", "crash"} = {}
Alone == \A t, u \in Confirmations : job[t] # None /\ job[u] # None => t = u
Idle == Status("active") => \A t \in Confirmations : job[t] # None => job[t].pc = "begin"
Written(p) == CASE p = "quota" -> {"owner"} [] p = "network" -> {"owner", "quota"}
                [] p = "credential" -> {"owner", "quota", "network"}
                [] p = "activate" -> Rows [] OTHER -> {}
MadeFor(t) ==
    LET p == job[t].pc IN
    /\ p = "define" => ~ domain /\ image
    /\ Is(job[t].id) /\ removing # "machine" =>
         /\ p \in {"start", "check", "activate"} \cup Rows => domain /\ image
         /\ Written(p) \subseteq rows
Made == \A t \in Confirmations : job[t] # None => MadeFor(t)
Complete == Status("active") /\ removing # "machine" => domain /\ image /\ rows = Rows

WorkInv == Undisturbed => Alone /\ Idle /\ Made /\ Complete
RegistrationInv == RegistrationTypeOK /\ IdInv /\ TaskInv /\ ProvisioningIsBacked /\ WorkInv

LEMMA RegistrationStarts == InitRegistration => RegistrationInv
<1> SUFFICES ASSUME InitRegistration PROVE RegistrationInv
  OBVIOUS
<1> USE RegistrationAssumption DEF InitRegistration, Provisions!Init
<1>1. RegistrationTypeOK
  <2>1. lastId \in 0..MaxIds /\ errors \in 0..MaxErrors
    OBVIOUS
  <2>2. provision \in [Confirmations -> Provisions!Phases]
    BY DEF Provisions!Phases
  <2> QED BY <2>1, <2>2 DEF RegistrationTypeOK
<1>2. IdInv /\ TaskInv /\ ProvisioningIsBacked /\ WorkInv
  BY DEF IdInv, TaskInv, ProvisioningIsBacked, WorkInv, Alone, Idle, Made, Complete, Status
<1> QED BY <1>1, <1>2 DEF RegistrationInv

(* A status is set of the registration that is meant, or not at all.       *)
LEMMA StatusSet ==
    ASSUME RegistrationTypeOK, NEW id, NEW s \in Statuses, SetStatus(id, s)
    PROVE  /\ reg' \in Registrations \cup {None} /\ (reg' # None <=> reg # None)
           /\ reg # None => /\ reg'.id = reg.id
                            /\ reg'.status = IF reg.id = id THEN s ELSE reg.status
  BY RegistrationAssumption DEF SetStatus, Is, RegistrationTypeOK, Registrations

(* A step of a task goes on, or ends it.                                   *)
Moves(t, p) ==
    /\ job' \in [Confirmations -> Jobs \cup {None}] /\ provision' = provision
    /\ job[t] # None /\ job'[t] # None /\ job'[t].pc = p /\ job'[t].id = job[t].id
    /\ \A u \in Confirmations \ {t} : job'[u] = job[u]
Ends(t) ==
    /\ job' \in [Confirmations -> Jobs \cup {None}]
    /\ provision' \in [Confirmations -> Provisions!Phases]
    /\ job[t] # None /\ job'[t] = None /\ provision[t] = "executing" /\ provision'[t] = "settled"
    /\ \A u \in Confirmations \ {t} : job'[u] = job[u] /\ provision'[u] = provision[u]

LEMMA Going ==
    ASSUME RegistrationTypeOK, NEW t \in Confirmations, NEW p, job[t] # None, JobGoes(t, p),
           p \in {"clone", "define", "start", "check", "continue", "activate"} \cup Rows,
           UNCHANGED provision
    PROVE  Moves(t, p)
<1>1. job[t] \in Jobs /\ job' = [job EXCEPT ![t].pc = p]
  BY DEF RegistrationTypeOK, JobGoes
<1>2. [job[t] EXCEPT !.pc = p] = [pc |-> p, id |-> job[t].id] /\ job[t].id \in Nat
  BY <1>1 DEF Jobs
<1>3. job' = [job EXCEPT ![t] = [pc |-> p, id |-> job[t].id]]
  BY <1>1, <1>2
<1>4. [pc |-> p, id |-> job[t].id] \in Jobs
  BY <1>2 DEF Jobs
<1> QED BY <1>3, <1>4, RegistrationAssumption DEF Moves, RegistrationTypeOK

LEMMA Leaving ==
    ASSUME RegistrationTypeOK, TaskInv, NEW t \in Confirmations, Leave(t)
    PROVE  Ends(t)
  BY RegistrationAssumption DEF Ends, Leave, Provisions!Settle, Provisions!Move,
     Provisions!Phases, RegistrationTypeOK, TaskInv

(* What every step of a task does to the registration and its confirmation.*)
GoesOn(t) == /\ \E p : Moves(t, p)
             /\ lapses' = lapses
             /\ reg' = reg \/ SetStatus(job[t].id, "provisioning")
EndsWell(t) ==
    /\ Ends(t)
    /\ \/ \E s \in {"failed", "active"} : SetStatus(job[t].id, s) /\ lapses' = lapses
       \/ /\ reg' = reg
          /\ \/ lapses' = lapses /\ (~ Is(job[t].id) \/ Status("active"))
             \/ lapses' = lapses \cup {"refused"}

LEMMA WorkKeepsTasks ==
    ASSUME RegistrationInv, NEW t \in Confirmations, Unasked, UNCHANGED ctx,
           GoesOn(t) \/ EndsWell(t)
    PROVE  IdInv' /\ TaskInv' /\ ProvisioningIsBacked'
<1> USE DEF RegistrationInv
<1>1. CASE GoesOn(t)
  <2>1. PICK p : Moves(t, p)
    BY <1>1 DEF GoesOn
  <2>2. /\ lapses' = lapses /\ (reg' # None <=> reg # None) /\ (reg # None => reg'.id = reg.id)
        /\ reg' = reg \/ (reg # None /\ reg.id # job[t].id => reg'.status = reg.status)
    BY <1>1, StatusSet DEF GoesOn, Statuses
  <2>3. IdInv' /\ TaskInv'
    BY <2>1, <2>2 DEF IdInv, TaskInv, Moves, Unasked
  <2>4. ProvisioningIsBacked'
    BY <2>1, <2>2 DEF ProvisioningIsBacked, TaskInv, Moves, Unasked, Status
  <2> QED BY <2>3, <2>4
<1>2. CASE EndsWell(t)
  <2>1. Ends(t) /\ lapses \subseteq lapses'
    BY <1>2 DEF EndsWell
  <2>2. (reg' # None <=> reg # None) /\ (reg # None => reg'.id = reg.id)
    BY <1>2, StatusSet DEF EndsWell, Statuses
  <2>3. IdInv' /\ TaskInv'
    BY <2>1, <2>2 DEF IdInv, TaskInv, Ends, Unasked
  <2>4. \/ "refused" \in lapses'
        \/ reg # None /\ reg.id = job[t].id => reg'.status # "provisioning"
    BY <1>2, StatusSet DEF EndsWell, Statuses, Is, Status
  <2>5. reg # None /\ reg.id # job[t].id => reg'.status = reg.status
    BY <1>2, StatusSet DEF EndsWell, Statuses
  <2>6. ProvisioningIsBacked'
    BY <2>1, <2>2, <2>4, <2>5 DEF ProvisioningIsBacked, TaskInv, Ends, Unasked, Status
  <2> QED BY <2>3, <2>6
<1> QED BY <1>1, <1>2

(* What a task has made, with no other at work.                            *)
LEMMA EndsKeepsWork ==
    ASSUME RegistrationInv, NEW t \in Confirmations, Ends(t), lapses \subseteq lapses',
           Undisturbed => Complete'
    PROVE  WorkInv'
<1> SUFFICES ASSUME Undisturbed' PROVE Alone' /\ Idle' /\ Made' /\ Complete'
  BY DEF WorkInv
<1>1. Undisturbed
  BY DEF Undisturbed
<1>2. \A u \in Confirmations : job'[u] = None
  BY <1>1 DEF RegistrationInv, WorkInv, Alone, Ends
<1> QED BY <1>1, <1>2 DEF Alone, Idle, Made

LEMMA MoveKeepsWork ==
    ASSUME RegistrationInv, NEW t \in Confirmations, NEW p, Moves(t, p), lapses' = lapses,
           Undisturbed => ~ Status("active")' /\ MadeFor(t)'
    PROVE  WorkInv'
<1> SUFFICES ASSUME Undisturbed' PROVE Alone' /\ Idle' /\ Made' /\ Complete'
  BY DEF WorkInv
<1>1. Undisturbed
  BY DEF Undisturbed
<1>2. \A u \in Confirmations : u # t => job'[u] = None
  BY <1>1 DEF RegistrationInv, WorkInv, Alone, Moves
<1> QED BY <1>1, <1>2 DEF Alone, Idle, Made, Complete

(* A task that failed leaves no active registration behind.                *)
LEMMA FailingKeeps ==
    ASSUME RegistrationInv, NEW t \in Confirmations, job[t] # None, job[t].pc # "begin",
           Fail(t), lapses' = lapses, Unasked, UNCHANGED ctx
    PROVE  EndsWell(t) /\ WorkInv'
<1>1. Ends(t)
  BY Leaving DEF Fail, RegistrationInv
<1>2. Undisturbed => ~ Status("active")
  BY DEF RegistrationInv, WorkInv, Idle
<1>3. Undisturbed => ~ Status("active")'
  BY <1>2, StatusSet DEF Fail, RegistrationInv, Statuses, Status
<1>4. WorkInv'
  BY <1>1, <1>3, EndsKeepsWork DEF Complete
<1> QED BY <1>1, <1>4 DEF EndsWell, Fail

LEMMA NotActive ==
    ASSUME RegistrationInv, Undisturbed, NEW t \in Confirmations, job[t] # None,
           job[t].pc # "begin"
    PROVE  ~ Status("active") /\ MadeFor(t)
  BY DEF RegistrationInv, WorkInv, Idle, Made

LEMMA BeginKeeps ==
    ASSUME RegistrationInv, NEW t \in Confirmations, Begin(t)
    PROVE  RegistrationInv'
<1> USE RegistrationAssumption DEF RegistrationInv
<1>0. RegistrationTypeOK /\ TaskInv
  OBVIOUS
<1>1. job[t] # None /\ job[t].pc = "begin" /\ UNCHANGED <<domain, image, rows, ctx>> /\ Unasked
  BY DEF Begin, JobAt
<1>2. CASE /\ Is(job[t].id) /\ reg.status # "active" /\ SetStatus(job[t].id, "provisioning")
           /\ JobGoes(t, "clone") /\ UNCHANGED <<provision, errors, lapses>>
  <2>1. Moves(t, "clone")
    BY <1>1, <1>2, Going
  <2>2. reg' \in Registrations \cup {None} /\ ~ Status("active")'
    BY <1>2, StatusSet DEF Is, Statuses, Status
  <2>3. MadeFor(t)'
    BY <2>1 DEF MadeFor, Moves, Written, Rows
  <2>4. WorkInv'
    BY <1>2, <2>1, <2>2, <2>3, MoveKeepsWork
  <2>5. RegistrationTypeOK'
    BY <1>1, <1>2, <2>1, <2>2 DEF RegistrationTypeOK, Moves, Unasked
  <2> QED BY <1>1, <1>2, <2>1, <2>4, <2>5, WorkKeepsTasks DEF GoesOn
<1>3. CASE /\ Leave(t) /\ reg' = reg /\ (~ Is(job[t].id) \/ Status("active"))
           /\ UNCHANGED <<errors, lapses>>
  <2>1. Ends(t) /\ EndsWell(t)
    BY <1>3, Leaving DEF EndsWell
  <2>2. Undisturbed => Complete'
    BY <1>1, <1>3 DEF WorkInv, Complete, Unasked, Status
  <2>3. WorkInv'
    BY <1>3, <2>1, <2>2, EndsKeepsWork
  <2>4. RegistrationTypeOK'
    BY <1>1, <1>3, <2>1 DEF RegistrationTypeOK, Ends, Unasked
  <2> QED BY <1>1, <2>1, <2>3, <2>4, WorkKeepsTasks
<1>4. CASE Err /\ Leave(t) /\ Lapse({"refused"}) /\ reg' = reg
  <2>1. Ends(t) /\ EndsWell(t)
    BY <1>4, Leaving DEF EndsWell, Lapse
  <2>2. Undisturbed => Complete'
    BY <1>1, <1>4 DEF WorkInv, Complete, Unasked, Status
  <2>3. WorkInv'
    BY <1>4, <2>1, <2>2, EndsKeepsWork DEF Lapse
  <2>4. errors' \in 0..MaxErrors
    BY <1>4 DEF Err, RegistrationTypeOK
  <2>5. RegistrationTypeOK'
    BY <1>1, <1>4, <2>1, <2>4 DEF RegistrationTypeOK, Ends, Unasked, Lapse
  <2> QED BY <1>1, <2>1, <2>3, <2>5, WorkKeepsTasks
<1> QED BY <1>2, <1>3, <1>4 DEF Begin

(* How the steps after the first fail, and go on.                          *)
Bits == domain \in BOOLEAN /\ image \in BOOLEAN /\ rows \subseteq Rows

LEMMA WorkFails ==
    ASSUME RegistrationInv, NEW t \in Confirmations, job[t] # None, job[t].pc # "begin",
           Fail(t), lapses' = lapses, Unasked, UNCHANGED ctx, errors' = errors \/ Err, Bits'
    PROVE  RegistrationInv'
<1> USE DEF RegistrationInv
<1>1. EndsWell(t) /\ WorkInv'
  BY FailingKeeps
<1>2. Ends(t) /\ reg' \in Registrations \cup {None}
  BY <1>1, StatusSet DEF EndsWell, Fail, Statuses
<1>3. errors' \in 0..MaxErrors
  BY RegistrationAssumption DEF Err, RegistrationTypeOK
<1>4. RegistrationTypeOK'
  BY <1>2, <1>3 DEF RegistrationTypeOK, Ends, Unasked, Bits
<1> QED BY <1>1, <1>4, WorkKeepsTasks

LEMMA WorkGoesOn ==
    ASSUME RegistrationInv, NEW t \in Confirmations, job[t] # None, job[t].pc # "begin",
           NEW p \in {"define", "start", "check", "continue", "activate"} \cup Rows,
           JobGoes(t, p), Unasked, Bits', UNCHANGED <<reg, provision, errors, lapses, ctx>>,
           Moves(t, p) /\ Undisturbed /\ MadeFor(t) => MadeFor(t)'
    PROVE  RegistrationInv'
<1> USE DEF RegistrationInv
<1>1. Moves(t, p)
  BY Going
<1>2. Undisturbed => ~ Status("active")' /\ MadeFor(t)'
  BY <1>1, NotActive DEF Status
<1>3. WorkInv'
  BY <1>1, <1>2, MoveKeepsWork
<1>4. RegistrationTypeOK'
  BY <1>1 DEF RegistrationTypeOK, Moves, Unasked, Bits
<1> QED BY <1>1, <1>3, <1>4, WorkKeepsTasks DEF GoesOn

LEMMA WorkKeepsRegistration ==
    ASSUME RegistrationInv, NEW t \in Confirmations, Work(t)
    PROVE  RegistrationInv'
<1>0. RegistrationTypeOK /\ Bits
  BY DEF RegistrationInv, RegistrationTypeOK, Bits
<1>1. CASE Begin(t)
  BY <1>1, BeginKeeps
<1>2. CASE CloneVM(t)
  <2>1. /\ job[t] # None /\ job[t].pc = "clone" /\ Unasked
        /\ UNCHANGED <<rows, ctx, lapses, domain>>
    BY <1>2 DEF CloneVM, JobAt, Aside
  <2>2. image' \in BOOLEAN
    BY <1>0, <1>2 DEF CloneVM, Bits
  <2>3. Bits'
    BY <1>0, <2>1, <2>2 DEF Bits
  <2>4. CASE Fail(t) /\ (errors' = errors \/ Err)
    BY <2>1, <2>3, <2>4, WorkFails
  <2>5. CASE domain /\ JobGoes(t, "continue") /\ UNCHANGED <<reg, image, provision, errors>>
    <3>1. Moves(t, "continue") => MadeFor(t)'
      BY DEF Moves, MadeFor, Written, Rows
    <3> QED BY <2>1, <2>3, <2>5, <3>1, WorkGoesOn
  <2>6. CASE /\ ~ domain /\ image' = TRUE /\ JobGoes(t, "define")
             /\ UNCHANGED <<reg, provision, errors>>
    <3>1. Moves(t, "define") => MadeFor(t)'
      BY <2>1, <2>6 DEF Moves, MadeFor, Written, Rows
    <3> QED BY <2>1, <2>3, <2>6, <3>1, WorkGoesOn
  <2> QED BY <1>2, <2>4, <2>5, <2>6 DEF CloneVM
<1>3. CASE Define(t)
  <2>1. job[t] # None /\ job[t].pc = "define" /\ Unasked /\ UNCHANGED <<rows, ctx, lapses>>
    BY <1>3 DEF Define, JobAt, Aside
  <2>2. Bits'
    BY <1>0, <1>3, <2>1 DEF Define, Bits
  <2>3. CASE Fail(t) /\ Err
    BY <2>1, <2>2, <2>3, WorkFails
  <2>4. CASE /\ ~ domain /\ domain' = TRUE /\ JobGoes(t, "start")
             /\ UNCHANGED <<reg, image, provision, errors>>
    <3>1. Moves(t, "start") /\ MadeFor(t) => MadeFor(t)'
      BY <1>0, <2>1, <2>4 DEF Bits, Moves, MadeFor, Written, Rows
    <3> QED BY <2>1, <2>2, <2>4, <3>1, WorkGoesOn
  <2>5. CASE domain /\ JobGoes(t, "continue") /\ UNCHANGED <<reg, domain, provision, errors>>
    <3>1. Moves(t, "continue") => MadeFor(t)'
      BY DEF Moves, MadeFor, Written, Rows
    <3> QED BY <2>1, <2>2, <2>5, <3>1, WorkGoesOn
  <2> QED BY <1>3, <2>3, <2>4, <2>5 DEF Define
<1>4. CASE StartVM(t)
  <2>1. /\ job[t] # None /\ job[t].pc = "start" /\ Unasked
        /\ UNCHANGED <<rows, ctx, lapses, domain>>
    BY <1>4 DEF StartVM, JobAt, Aside
  <2>2. Bits'
    BY <1>0, <1>4, <2>1 DEF StartVM, Bits
  <2>3. CASE Fail(t) /\ (errors' = errors \/ Err)
    BY <2>1, <2>2, <2>3, WorkFails
  <2>4. CASE domain /\ image /\ JobGoes(t, "check") /\ UNCHANGED <<reg, image, provision, errors>>
    <3>1. Moves(t, "check") => MadeFor(t)'
      BY <2>1, <2>4 DEF Moves, MadeFor, Written, Rows
    <3> QED BY <2>1, <2>2, <2>4, <3>1, WorkGoesOn
  <2> QED BY <1>4, <2>3, <2>4 DEF StartVM
<1>5. CASE CheckCanceled(t)
  <2>1. /\ job[t] # None /\ job[t].pc = "check" /\ Unasked
        /\ UNCHANGED <<rows, ctx, lapses, errors>>
    BY <1>5 DEF CheckCanceled, JobAt, Aside
  <2>2. Bits'
    BY <1>0, <1>5, <2>1 DEF CheckCanceled, Bits
  <2>3. CASE Fail(t)
    BY <2>1, <2>2, <2>3, WorkFails
  <2>4. CASE JobGoes(t, "owner") /\ UNCHANGED <<reg, domain, image, provision>>
    <3>1. Moves(t, "owner") /\ MadeFor(t) => MadeFor(t)'
      BY <2>1, <2>4 DEF Moves, MadeFor, Written, Rows, Is, Unasked
    <3> QED BY <2>1, <2>2, <2>4, <3>1, WorkGoesOn DEF Rows
  <2> QED BY <1>5, <2>3, <2>4 DEF CheckCanceled
<1>6. CASE continueExistingLightweightVM(t)
  <2>1. /\ job[t] # None /\ job[t].pc = "continue" /\ Unasked
        /\ UNCHANGED <<rows, ctx, lapses, image>>
    BY <1>6 DEF continueExistingLightweightVM, JobAt, Aside
  <2>2. Bits'
    BY <1>0, <1>6, <2>1 DEF continueExistingLightweightVM, Bits
  <2>3. CASE Fail(t) /\ (errors' = errors \/ Err)
    BY <2>1, <2>2, <2>3, WorkFails
  <2>4. CASE domain /\ image /\ JobGoes(t, "owner") /\ UNCHANGED <<reg, domain, provision, errors>>
    <3>1. Moves(t, "owner") => MadeFor(t)'
      BY <2>1, <2>4 DEF Moves, MadeFor, Written, Rows
    <3> QED BY <2>1, <2>2, <2>4, <3>1, WorkGoesOn DEF Rows
  <2> QED BY <1>6, <2>3, <2>4 DEF continueExistingLightweightVM
<1>7. CASE WriteRow(t)
  <2>1. PICK p \in {<<"owner", "quota">>, <<"quota", "network">>, <<"network", "credential">>,
                   <<"credential", "activate">>} :
          /\ JobAt(t, p[1])
          /\ \/ JobGoes(t, p[2]) /\ rows' = rows \cup {p[1]} /\ UNCHANGED <<reg, provision, errors>>
             \/ Err /\ Fail(t) /\ UNCHANGED rows
    BY <1>7 DEF WriteRow
  <2>2. Unasked /\ UNCHANGED <<domain, image, ctx, lapses>>
    BY <1>7 DEF WriteRow
  <2>3. /\ job[t] # None /\ job[t].pc = p[1] /\ p[1] \in Rows
        /\ p[2] \in {"activate"} \cup Rows
    BY <2>1 DEF JobAt, Rows
  <2>4. Bits'
    BY <1>0, <2>1, <2>2, <2>3 DEF Bits
  <2>5. CASE Err /\ Fail(t)
    BY <2>2, <2>3, <2>4, <2>5, WorkFails DEF Rows
  <2>6. CASE JobGoes(t, p[2]) /\ rows' = rows \cup {p[1]} /\ UNCHANGED <<reg, provision, errors>>
    <3>1. Written(p[2]) \subseteq Written(p[1]) \cup {p[1]}
      BY <2>1 DEF Written, Rows
    <3>2. Moves(t, p[2]) /\ MadeFor(t) => MadeFor(t)'
      BY <2>2, <2>3, <2>6, <3>1 DEF Moves, MadeFor, Is, Unasked, Rows
    <3> QED BY <2>2, <2>3, <2>4, <2>6, <3>2, WorkGoesOn DEF Rows
  <2> QED BY <2>1, <2>5, <2>6
<1>8. CASE Activate(t)
  <2>1. /\ job[t] # None /\ job[t].pc = "activate" /\ Unasked /\ Bits'
        /\ UNCHANGED <<rows, ctx, lapses, domain, image>>
    BY <1>0, <1>8 DEF Activate, JobAt, Aside, Bits
  <2>2. CASE Err /\ Fail(t)
    BY <2>1, <2>2, WorkFails
  <2>3. CASE SetStatus(job[t].id, "active") /\ Leave(t) /\ UNCHANGED errors
    <3>1. Ends(t)
      BY <2>3, Leaving DEF RegistrationInv
    <3>2. EndsWell(t)
      BY <2>1, <2>3, <3>1 DEF EndsWell
    <3>3. reg' \in Registrations \cup {None} /\ (reg # None /\ ~ Is(job[t].id) => reg' = reg)
      BY <1>0, <2>3, StatusSet DEF SetStatus, Statuses
    <3>4. Undisturbed => Complete'
      <4>1. ASSUME Undisturbed PROVE ~ Status("active") /\ MadeFor(t)
        BY <2>1, <4>1, NotActive
      <4>2. ASSUME Status("active")', ~ Status("active") PROVE Is(job[t].id)
        BY <2>3, <4>2 DEF SetStatus, Status
      <4> QED BY <2>1, <4>1, <4>2, <1>0 DEF Complete, MadeFor, Written, Unasked, Bits
    <3>5. WorkInv'
      BY <2>1, <3>1, <3>4, EndsKeepsWork
    <3>6. RegistrationTypeOK'
      BY <1>0, <2>1, <2>3, <3>1, <3>3 DEF RegistrationTypeOK, Ends, Unasked
    <3> QED BY <2>1, <3>2, <3>5, <3>6, WorkKeepsTasks DEF RegistrationInv
  <2> QED BY <1>8, <2>2, <2>3 DEF Activate
<1> QED BY <1>1, <1>2, <1>3, <1>4, <1>5, <1>6, <1>7, <1>8 DEF Work

(* Administrators, users, and the death of the panel.                      *)
LEMMA OthersKeepRegistration ==
    ASSUME RegistrationInv,
           \/ CreateLightweightVMRegistrations \/ DeleteLightweightVMRegistration
           \/ RemoveLightweightVMRegistrationByVMName \/ RemoveVMFromUser
           \/ DeleteVM \/ CleanupLightweightVMResources \/ PanelDies
           \/ \E c \in Confirmations : \/ BuildLightweightVMProvisionParams(c) \/ SubmitProvision(c)
                                       \/ MarkLightweightVMRegistrationTask(c)
           \/ \E t \in Confirmations : CancelWaiting(t) \/ CancelRunning(t) \/ ExecuteProvision(t)
    PROVE  RegistrationInv'
<1> USE RegistrationAssumption DEF RegistrationInv
<1>1. CASE CreateLightweightVMRegistrations
  <2>1. /\ reg = None /\ lastId' \in 0..MaxIds /\ lastId' = lastId + 1 /\ lastId \in Nat
        /\ reg' = [id |-> lastId', status |-> "pending"]
        /\ UNCHANGED <<domain, image, rows, confirm, provision, job, ctx, removing, errors, lapses>>
    BY <1>1 DEF CreateLightweightVMRegistrations, RegistrationTypeOK
  <2>2. reg' \in Registrations /\ ~ Status("active")' /\ ~ Status("provisioning")'
    BY <2>1 DEF Registrations, Statuses, Status
  <2>3. RegistrationTypeOK'
    BY <2>1, <2>2 DEF RegistrationTypeOK
  <2>4. /\ \A c \in Confirmations : job[c] # None => job[c].id =< lastId /\ job[c].id \in Nat
        /\ \A c \in Confirmations :
             confirm[c] # None => confirm[c].id =< lastId /\ confirm[c].id \in Nat
    BY DEF IdInv, RegistrationTypeOK, Jobs, Confirming
  <2>5. IdInv'
    BY <2>1, <2>4 DEF IdInv
  <2>6. \A c \in Confirmations : job[c] # None => ~ Is(job[c].id)'
    BY <2>1, <2>4 DEF Is
  <2>7. WorkInv'
    BY <2>1, <2>2, <2>6 DEF WorkInv, Undisturbed, Alone, Idle, Made, MadeFor, Complete
  <2> QED BY <2>1, <2>2, <2>3, <2>5, <2>7 DEF TaskInv, ProvisioningIsBacked
<1>2. ASSUME reg' = None, lapses' = lapses, rows' \subseteq Rows,
             removing' \in {None, "machine", "owner"},
             UNCHANGED <<lastId, domain, image, confirm, provision, job, ctx, errors>>
      PROVE  RegistrationInv'
  <2>1. RegistrationTypeOK'
    BY <1>2 DEF RegistrationTypeOK
  <2>2. ~ Status("active")' /\ ~ Status("provisioning")' /\ \A i : ~ Is(i)'
    BY <1>2 DEF Status, Is
  <2>3. WorkInv'
    BY <1>2, <2>2 DEF WorkInv, Undisturbed, Alone, Idle, Made, MadeFor, Complete
  <2> QED BY <1>2, <2>1, <2>2, <2>3 DEF IdInv, TaskInv, ProvisioningIsBacked
<1>3. CASE \/ DeleteLightweightVMRegistration \/ RemoveLightweightVMRegistrationByVMName
           \/ CleanupLightweightVMResources
  <2>1. removing \in {None, "machine", "owner"} /\ rows \subseteq Rows
    BY DEF RegistrationTypeOK
  <2> QED BY <1>2, <1>3, <2>1 DEF DeleteLightweightVMRegistration,
             RemoveLightweightVMRegistrationByVMName, CleanupLightweightVMResources
<1>4. CASE RemoveVMFromUser
  <2>1. /\ removing = "owner" /\ removing' = None /\ rows' = rows \ {"owner"}
        /\ lapses' = lapses \cup (IF reg # None THEN {"removal"} ELSE {})
        /\ UNCHANGED <<reg, lastId, domain, image, confirm, provision, job, ctx, errors>>
    BY <1>4 DEF RemoveVMFromUser, Lapse
  <2>2. RegistrationTypeOK'
    BY <2>1 DEF RegistrationTypeOK
  <2>3. Undisturbed' => Undisturbed /\ reg = None
    BY <2>1 DEF Undisturbed
  <2>4. WorkInv'
    BY <2>1, <2>3 DEF WorkInv, Alone, Idle, Made, MadeFor, Complete, Status, Is
  <2> QED BY <2>1, <2>2, <2>4 DEF IdInv, TaskInv, ProvisioningIsBacked, Status
<1>5. CASE DeleteVM
  <2>1. /\ domain /\ removing' = "machine" /\ ~ domain' /\ ~ image'
        /\ domain' \in BOOLEAN /\ image' \in BOOLEAN
        /\ UNCHANGED <<reg, lastId, rows, confirm, provision, job, ctx, errors, lapses>>
    BY <1>5 DEF DeleteVM
  <2>2. RegistrationTypeOK'
    BY <2>1 DEF RegistrationTypeOK
  <2>3. WorkInv'
    BY <2>1 DEF WorkInv, Undisturbed, Alone, Idle, Made, MadeFor, Complete, Status
  <2> QED BY <2>1, <2>2, <2>3 DEF IdInv, TaskInv, ProvisioningIsBacked, Status
<1>6. CASE PanelDies
  <2>1. /\ errors' \in 0..MaxErrors /\ lapses' = lapses \cup {"crash"} /\ removing' = None
        /\ job' = [t \in Confirmations |-> None] /\ confirm' = [c \in Confirmations |-> None]
        /\ provision' = [t \in Confirmations |-> IF provision[t] = "new" THEN "new" ELSE "settled"]
        /\ UNCHANGED <<reg, lastId, domain, image, rows, ctx>>
    BY <1>6 DEF PanelDies, Err, Lapse, RegistrationTypeOK
  <2>2. provision' \in [Confirmations -> Provisions!Phases]
    BY <2>1 DEF Provisions!Phases
  <2>3. RegistrationTypeOK'
    BY <2>1, <2>2 DEF RegistrationTypeOK
  <2>4. IdInv' /\ TaskInv'
    BY <2>1 DEF IdInv, TaskInv
  <2> QED BY <2>1, <2>3, <2>4 DEF ProvisioningIsBacked, WorkInv, Undisturbed
<1>7. ASSUME NEW c \in Confirmations, BuildLightweightVMProvisionParams(c)
      PROVE  RegistrationInv'
  <2>1. /\ confirm[c] = None /\ provision[c] = "new" /\ reg # None
        /\ confirm' = [confirm EXCEPT ![c] = [pc |-> "submit", id |-> reg.id]]
        /\ UNCHANGED <<reg, lastId, domain, image, rows, provision, job, ctx, removing, errors,
                       lapses>>
    BY <1>7 DEF BuildLightweightVMProvisionParams, Status
  <2>2. reg.id \in Nat /\ reg.id =< lastId /\ [pc |-> "submit", id |-> reg.id] \in Confirming
    BY <2>1 DEF RegistrationTypeOK, Registrations, Confirming, IdInv
  <2>3. RegistrationTypeOK'
    BY <2>1, <2>2 DEF RegistrationTypeOK
  <2>4. IdInv' /\ TaskInv'
    BY <2>1, <2>2 DEF IdInv, TaskInv, RegistrationTypeOK
  <2>5. ProvisioningIsBacked'
    BY <2>1 DEF ProvisioningIsBacked, RegistrationTypeOK, Status
  <2>6. WorkInv'
    BY <2>1 DEF WorkInv, Undisturbed, Alone, Idle, Made, MadeFor, Complete, Status, Is
  <2> QED BY <2>3, <2>4, <2>5, <2>6
<1>8. ASSUME NEW c \in Confirmations, confirm[c] # None, NEW q \in {"mark", "done"},
             confirm' = [confirm EXCEPT ![c].pc = q]
      PROVE  /\ confirm' \in [Confirmations -> Confirming \cup {None}]
             /\ confirm'[c] # None /\ confirm'[c].pc = q /\ confirm'[c].id = confirm[c].id
             /\ \A d \in Confirmations \ {c} : confirm'[d] = confirm[d]
  <2>1. confirm[c] \in Confirming
    BY <1>8 DEF RegistrationTypeOK
  <2>2. [confirm[c] EXCEPT !.pc = q] = [pc |-> q, id |-> confirm[c].id] /\ confirm[c].id \in Nat
    BY <2>1 DEF Confirming
  <2>3. confirm' = [confirm EXCEPT ![c] = [pc |-> q, id |-> confirm[c].id]]
    BY <1>8, <2>1, <2>2
  <2>4. [pc |-> q, id |-> confirm[c].id] \in Confirming
    BY <2>2 DEF Confirming
  <2> QED BY <2>3, <2>4 DEF RegistrationTypeOK
<1>9. ASSUME NEW c \in Confirmations, SubmitProvision(c)
      PROVE  RegistrationInv'
  <2>1. /\ confirm[c] # None /\ confirm[c].pc = "submit" /\ provision[c] = "new"
        /\ provision' = [provision EXCEPT ![c] = "waiting"]
        /\ confirm' = [confirm EXCEPT ![c].pc = "mark"]
        /\ UNCHANGED <<reg, lastId, domain, image, rows, job, ctx, removing, errors, lapses>>
    BY <1>9 DEF SubmitProvision, Provisions!Accept, Provisions!Move
  <2>2. /\ confirm' \in [Confirmations -> Confirming \cup {None}]
        /\ confirm'[c] # None /\ confirm'[c].pc = "mark" /\ confirm'[c].id = confirm[c].id
        /\ \A d \in Confirmations \ {c} : confirm'[d] = confirm[d]
    BY <2>1, <1>8
  <2>3. /\ provision' \in [Confirmations -> Provisions!Phases] /\ provision'[c] = "waiting"
        /\ \A d \in Confirmations \ {c} : provision'[d] = provision[d]
    BY <2>1 DEF RegistrationTypeOK, Provisions!Phases
  <2>4. RegistrationTypeOK'
    BY <2>1, <2>2, <2>3 DEF RegistrationTypeOK
  <2>5. IdInv' /\ TaskInv' /\ ProvisioningIsBacked'
    BY <2>1, <2>2, <2>3 DEF IdInv, TaskInv, ProvisioningIsBacked, Status
  <2>6. WorkInv'
    BY <2>1 DEF WorkInv, Undisturbed, Alone, Idle, Made, MadeFor, Complete, Status, Is
  <2> QED BY <2>4, <2>5, <2>6
<1>10. ASSUME NEW c \in Confirmations, MarkLightweightVMRegistrationTask(c)
       PROVE  RegistrationInv'
  <2>1. /\ confirm[c] # None /\ confirm[c].pc = "mark" /\ SetStatus(confirm[c].id, "provisioning")
        /\ confirm' = [confirm EXCEPT ![c].pc = "done"]
        /\ lapses' = lapses \cup (IF provision[c] = "settled" THEN {"late"} ELSE {})
        /\ UNCHANGED <<lastId, domain, image, rows, provision, job, ctx, removing, errors>>
    BY <1>10 DEF MarkLightweightVMRegistrationTask, Lapse
  <2>2. /\ confirm' \in [Confirmations -> Confirming \cup {None}]
        /\ confirm'[c] # None /\ confirm'[c].pc = "done" /\ confirm'[c].id = confirm[c].id
        /\ \A d \in Confirmations \ {c} : confirm'[d] = confirm[d]
    BY <2>1, <1>8
  <2>3. /\ reg' \in Registrations \cup {None} /\ (reg' # None <=> reg # None)
        /\ reg # None => /\ reg'.id = reg.id
                         /\ reg'.status = IF reg.id = confirm[c].id THEN "provisioning"
                                          ELSE reg.status
    BY <2>1, StatusSet DEF Statuses
  <2>4. provision[c] \in {"waiting", "executing", "settled"}
    BY <2>1 DEF TaskInv, RegistrationTypeOK, Provisions!Phases
  <2>5. RegistrationTypeOK'
    BY <2>1, <2>2, <2>3 DEF RegistrationTypeOK
  <2>6. IdInv' /\ TaskInv'
    BY <2>1, <2>2, <2>3 DEF IdInv, TaskInv
  <2>7. ProvisioningIsBacked'
    BY <2>1, <2>2, <2>3, <2>4 DEF ProvisioningIsBacked, Status
  <2>8. WorkInv'
    BY <2>1, <2>3 DEF WorkInv, Undisturbed, Alone, Idle, Made, MadeFor, Complete, Status, Is
  <2> QED BY <2>5, <2>6, <2>7, <2>8
<1>11. ASSUME NEW t \in Confirmations, CancelWaiting(t)
       PROVE  RegistrationInv'
  <2>1. /\ provision[t] = "waiting" /\ provision' = [provision EXCEPT ![t] = "settled"]
        /\ lapses' = lapses \cup {"canceled"}
        /\ UNCHANGED <<reg, lastId, domain, image, rows, confirm, job, ctx, removing, errors>>
    BY <1>11 DEF CancelWaiting, Provisions!Skip, Provisions!Move, Lapse
  <2>2. /\ provision' \in [Confirmations -> Provisions!Phases] /\ provision'[t] = "settled"
        /\ \A d \in Confirmations \ {t} : provision'[d] = provision[d]
    BY <2>1 DEF RegistrationTypeOK, Provisions!Phases
  <2>3. RegistrationTypeOK'
    BY <2>1, <2>2 DEF RegistrationTypeOK
  <2>4. IdInv' /\ TaskInv' /\ ProvisioningIsBacked'
    BY <2>1, <2>2 DEF IdInv, TaskInv, ProvisioningIsBacked
  <2>5. WorkInv'
    BY <2>1 DEF WorkInv, Undisturbed, Alone, Idle, Made, MadeFor, Complete, Status, Is
  <2> QED BY <2>3, <2>4, <2>5
<1>12. ASSUME NEW t \in Confirmations, CancelRunning(t)
       PROVE  RegistrationInv'
  BY <1>12 DEF CancelRunning, RegistrationTypeOK, IdInv, TaskInv, ProvisioningIsBacked, WorkInv,
     Undisturbed, Alone, Idle, Made, MadeFor, Complete, Status, Is
<1>13. ASSUME NEW t \in Confirmations, ExecuteProvision(t)
       PROVE  RegistrationInv'
  <2>1. /\ provision[t] = "waiting" /\ provision' = [provision EXCEPT ![t] = "executing"]
        /\ job' = [job EXCEPT ![t] = [pc |-> "begin", id |-> confirm[t].id]]
        /\ lapses' = lapses \cup Disturbs(t)
        /\ UNCHANGED <<reg, lastId, domain, image, rows, confirm, ctx, removing, errors>>
    BY <1>13 DEF ExecuteProvision, Provisions!Execute, Provisions!Move, Lapse, Unasked
  <2>2. /\ provision' \in [Confirmations -> Provisions!Phases] /\ provision'[t] = "executing"
        /\ \A d \in Confirmations \ {t} : provision'[d] = provision[d]
    BY <2>1 DEF RegistrationTypeOK, Provisions!Phases
  <2>3. confirm[t] # None /\ confirm[t] \in Confirming /\ job[t] = None
    BY <2>1 DEF TaskInv, RegistrationTypeOK
  <2>4. [pc |-> "begin", id |-> confirm[t].id] \in Jobs
    BY <2>3 DEF Confirming, Jobs
  <2>5. /\ job' \in [Confirmations -> Jobs \cup {None}] /\ job'[t] # None
        /\ job'[t].pc = "begin" /\ job'[t].id = confirm[t].id
        /\ \A d \in Confirmations \ {t} : job'[d] = job[d]
    BY <2>1, <2>4 DEF RegistrationTypeOK
  <2>6. Disturbs(t) \subseteq {"twice"}
    BY DEF Disturbs
  <2>7. RegistrationTypeOK'
    BY <2>1, <2>2, <2>5, <2>6 DEF RegistrationTypeOK
  <2>8. IdInv' /\ TaskInv' /\ ProvisioningIsBacked'
    <3>1. IdInv'
      BY <2>1, <2>5, <2>3 DEF IdInv
    <3>2. TaskInv'
      BY <2>1, <2>2, <2>3, <2>5 DEF TaskInv
    <3>3. ProvisioningIsBacked'
      BY <2>1, <2>2, <2>3, <2>5 DEF ProvisioningIsBacked, Status
    <3> QED BY <3>1, <3>2, <3>3
  <2>9. Undisturbed' => Undisturbed /\ \A u \in Confirmations \ {t} : job[u] = None
    BY <2>1 DEF Undisturbed, Disturbs
  <2>10. WorkInv'
    BY <2>1, <2>5, <2>9 DEF WorkInv, Alone, Idle, Made, MadeFor, Written, Complete, Status, Rows
  <2> QED BY <2>7, <2>8, <2>10
<1> QED BY <1>1, <1>3, <1>4, <1>5, <1>6, <1>7, <1>9, <1>10, <1>11, <1>12, <1>13

(* The inductive invariant of a registration, for any number of            *)
(* confirmations, registrations of the name, and errors.                   *)
THEOREM RegistrationInvariant == RegistrationSpec => []RegistrationInv
<1>1. RegistrationInv /\ [RegistrationNext]_registrationVars => RegistrationInv'
  <2> SUFFICES ASSUME RegistrationInv, [RegistrationNext]_registrationVars PROVE RegistrationInv'
    OBVIOUS
  <2>1. CASE UNCHANGED registrationVars
    BY <2>1 DEF registrationVars, RegistrationInv, RegistrationTypeOK, IdInv, TaskInv,
       ProvisioningIsBacked, WorkInv, Undisturbed, Alone, Idle, Made, MadeFor, Complete, Status, Is
  <2>2. CASE RegistrationNext
    BY <2>2, OthersKeepRegistration, WorkKeepsRegistration DEF RegistrationNext
  <2> QED BY <2>1, <2>2
<1> QED BY RegistrationStarts, <1>1, PTL DEF RegistrationSpec

(* Registration, tasks, confirmations and rows keep their types.           *)
THEOREM RegistrationTypes == RegistrationSpec => []RegistrationTypeOK
<1>1. RegistrationInv => RegistrationTypeOK
  BY DEF RegistrationInv
<1> QED BY RegistrationInvariant, <1>1, PTL

(* A registration in provisioning has a task that will change its status   *)
(* (lightweight/provision.go), but for the windows the property names.     *)
THEOREM ProvisioningHasATask == RegistrationSpec => []ProvisioningIsBacked
<1>1. RegistrationInv => ProvisioningIsBacked
  BY DEF RegistrationInv
<1> QED BY RegistrationInvariant, <1>1, PTL

(* An active registration has its machine, its disk and all its rows,      *)
(* through retries, cancels and removals (lightweight/provision.go).       *)
THEOREM ActiveStaysComplete == RegistrationSpec => []ActiveIsComplete
<1>1. RegistrationInv => ActiveIsComplete
  BY DEF RegistrationInv, WorkInv, Undisturbed, Complete, ActiveIsComplete
<1> QED BY RegistrationInvariant, <1>1, PTL

-----------------------------------------------------------------------------
(* A request is open until it has updated the list and its task is over.   *)
(* A user's request submits its task before it comes to the list, and no   *)
(* two open requests are for one machine.                                  *)
Open(r) == req[r] # None /\ (req[r].pc # "done" \/ fate[r] \in {"waiting", "executing"})
FateInv ==
    \A r \in Changes :
      /\ req[r] = None => fate[r] = "new"
      /\ req[r] # None /\ req[r].op = "assign" =>
           /\ req[r].vm = None /\ fate[r] = "new"
           /\ req[r].pc \notin {"submit", "read", "write"}
      /\ req[r] # None /\ req[r].op # "assign" =>
           /\ req[r].vm \in Names /\ req[r].pc # "form"
           /\ req[r].pc = "submit" <=> fate[r] = "new"
OneForEach ==
    \A r, s \in Changes :
      Open(r) /\ Open(s) /\ req[r].vm = req[s].vm /\ req[r].vm # None => r = s

(* While no two updates overlap: one request at a time updates the list,   *)
(* and what it has read is the list; the rules are those of the list, or   *)
(* are being made.  A machine in transit is in the list from, or out of    *)
(* it since, the update, and there since, or until, its task ended; any    *)
(* other is in the list if and only if it is there.                        *)
Updates(r) == req[r] # None /\ req[r].pc \in Updating
OneUpdates == \A r, s \in Changes : Updates(r) /\ Updates(s) => r = s
ReadIsList == \A r \in Changes : ReqAt(r, "write") \/ ReqAt(r, "install") => req[r].read = list
RulesFollow == rules = list \/ \E r \in Changes : ReqAt(r, "rules") \/ ReqAt(r, "install")
Updated(r) == req[r].pc \in {"rules", "install", "done"}
InTransit ==
    \A r \in Changes : Open(r) =>
      /\ req[r].op = "create" /\ req[r].vm \notin apart =>
           /\ req[r].vm \in list <=> Updated(r)
           /\ req[r].vm \in exists <=> fate[r] = "settled"
      /\ req[r].op = "delete" =>
           /\ Updated(r) => req[r].vm \notin list
           /\ req[r].vm \notin apart => (req[r].vm \in exists <=> fate[r] # "settled")
AtRest ==
    \A v \in Names : ~ Unsettled(v) /\ v \notin apart => (v \in list <=> v \in exists)

(* Without a second check before the first machine is in the list, there   *)
(* is room in the list for the machine that is being added.                *)
Adding(r) == req[r] # None /\ req[r].op = "create" /\ req[r].pc \in {"submit", "read", "write"}
RoomInList ==
    /\ IsFiniteSet(list)
    /\ \A r, s \in Changes : Adding(r) /\ Adding(s) => r = s
    /\ Cardinality(list) =< MaxVM
    /\ \A r \in Changes : Adding(r) => Cardinality(list) + 1 =< MaxVM

ListInv == OneUpdates /\ ReadIsList /\ RulesFollow /\ InTransit /\ AtRest
OwnershipInv ==
    /\ OwnershipTypeOK /\ FateInv /\ OneForEach
    /\ "overlap" \notin races => ListInv /\ ("quota" \notin races => RoomInList)

LEMMA OpenIsUnsettled ==
    \A v \in Names : Unsettled(v) <=> \E r \in Changes : Open(r) /\ req[r].vm = v
  BY DEF Unsettled, Open

LEMMA OwnershipStarts == InitOwnership => OwnershipInv
<1> SUFFICES ASSUME InitOwnership PROVE OwnershipInv
  OBVIOUS
<1> USE OwnershipAssumption DEF InitOwnership, Changing!Init
<1>1. OwnershipTypeOK
  <2>1. failures \in 0..MaxFailures
    OBVIOUS
  <2>2. fate \in [Changes -> Changing!Phases]
    BY DEF Changing!Phases
  <2> QED BY <2>1, <2>2 DEF OwnershipTypeOK
<1>2. FateInv /\ OneForEach
  BY DEF FateInv, OneForEach, Open
<1>3. IsFiniteSet(list) /\ Cardinality(list) = 0
  BY FS_EmptySet
<1>4. RoomInList
  BY <1>3 DEF RoomInList, Adding
<1>5. ListInv
  BY DEF ListInv, OneUpdates, ReadIsList, RulesFollow, InTransit, AtRest, Updates, Open, ReqAt
<1> QED BY <1>1, <1>2, <1>3, <1>4, <1>5 DEF OwnershipInv

(* A request that comes, and one that goes on.                             *)
LEMMA Came ==
    ASSUME OwnershipTypeOK, NEW r \in Changes, NEW o \in {"create", "delete", "assign"},
           NEW v \in Names \cup {None}, NEW R \in SUBSET Names, NEW p \in {"submit", "form"},
           Asks(r, o, v, R, p)
    PROVE  /\ req' \in [Changes -> Asked \cup {None}] /\ req'[r] # None
           /\ req'[r].op = o /\ req'[r].vm = v /\ req'[r].read = R /\ req'[r].pc = p
           /\ \A s \in Changes \ {r} : req'[s] = req[s]
<1> DEFINE q == [op |-> o, vm |-> v, read |-> R, pc |-> p]
<1>1. q \in Asked /\ q # None
  BY OwnershipAssumption DEF Asked
<1>2. q.op = o /\ q.vm = v /\ q.read = R /\ q.pc = p
  OBVIOUS
<1> HIDE DEF q
<1>3. req' = [req EXCEPT ![r] = q]
  BY DEF Asks, q
<1> QED BY <1>1, <1>2, <1>3 DEF OwnershipTypeOK

UpdateSteps == {"submit", "form", "read", "write", "rules", "install", "done"}
Went(r, R, p) ==
    /\ req' \in [Changes -> Asked \cup {None}] /\ req'[r] # None
    /\ req'[r].op = req[r].op /\ req'[r].vm = req[r].vm /\ req'[r].read = R /\ req'[r].pc = p
    /\ \A s \in Changes \ {r} : req'[s] = req[s]

LEMMA GoesOnTo ==
    ASSUME OwnershipTypeOK, NEW r \in Changes, req[r] # None, NEW p \in UpdateSteps, ReqGo(r, p)
    PROVE  Went(r, req[r].read, p)
<1> DEFINE q == [req[r] EXCEPT !.pc = p]
<1>1. req[r] \in Asked
  BY DEF OwnershipTypeOK
<1>2. q \in Asked /\ q # None /\ q.op = req[r].op /\ q.vm = req[r].vm
      /\ q.read = req[r].read /\ q.pc = p
  BY <1>1, OwnershipAssumption DEF Asked, UpdateSteps
<1>3. req' = [req EXCEPT ![r] = q]
  BY DEF ReqGo
<1> HIDE DEF q
<1> QED BY <1>2, <1>3 DEF OwnershipTypeOK, Went

LEMMA ReadsAndGoesOn ==
    ASSUME OwnershipTypeOK, NEW r \in Changes, req[r] # None, NEW p \in UpdateSteps,
           NEW R \in SUBSET Names, req' = [req EXCEPT ![r].read = R, ![r].pc = p]
    PROVE  Went(r, R, p)
<1> DEFINE q == [req[r] EXCEPT !.read = R, !.pc = p]
<1>1. req[r] \in Asked
  BY DEF OwnershipTypeOK
<1>2. q \in Asked /\ q.op = req[r].op /\ q.vm = req[r].vm /\ q.read = R /\ q.pc = p
  BY <1>1 DEF Asked, UpdateSteps
<1>3. q # None
  BY <1>2, OwnershipAssumption
<1>4. req' = [req EXCEPT ![r] = q]
  OBVIOUS
<1> HIDE DEF q
<1> QED BY <1>2, <1>3, <1>4 DEF OwnershipTypeOK, Went

(* A race that happened stays in the record.                               *)
LEMMA RacesStay ==
    ASSUME NEW b, NEW w, Race(b, w)
    PROVE  races \subseteq races' /\ (w \notin races' => ~ b)
           /\ \A x : x # w /\ x \in races' => x \in races
  BY DEF Race

-----------------------------------------------------------------------------
LEMMA ChecksKeepOwnership ==
    ASSUME OwnershipInv, NEW r \in Changes, NEW v \in Names,
           CheckQuota(r, v) \/ SelfDeleteVm(r, v)
    PROVE  OwnershipInv'
<1> USE OwnershipAssumption DEF OwnershipInv
<1> DEFINE o == IF req'[r].op = "create" THEN "create" ELSE "delete"
<1>1. /\ req[r] = None /\ ~ Unsettled(v) /\ fate[r] = "new"
      /\ UNCHANGED <<list, rules, exists, fate, failures, apart>>
  BY DEF CheckQuota, SelfDeleteVm, FateInv
<1>2. /\ req' \in [Changes -> Asked \cup {None}] /\ req'[r] # None
      /\ req'[r].op \in {"create", "delete"} /\ req'[r].vm = v /\ req'[r].pc = "submit"
      /\ \A s \in Changes \ {r} : req'[s] = req[s]
  <2>1. CASE CheckQuota(r, v)
    BY <2>1, Came DEF CheckQuota
  <2>2. CASE SelfDeleteVm(r, v)
    BY <2>2, Came DEF SelfDeleteVm
  <2> QED BY <2>1, <2>2
<1>3. races' \subseteq {"quota", "overlap"} /\ races \subseteq races'
      /\ ("overlap" \in races' => "overlap" \in races)
  BY DEF CheckQuota, SelfDeleteVm, Race, OwnershipTypeOK
<1>4. \/ v \notin exists \cup list /\ req'[r].op = "create"
      \/ v \in exists /\ v \in list /\ req'[r].op = "delete"
  <2>1. CASE CheckQuota(r, v)
    BY <2>1, Came DEF CheckQuota
  <2>2. CASE SelfDeleteVm(r, v)
    BY <2>2, Came DEF SelfDeleteVm
  <2> QED BY <2>1, <2>2
<1>5. OwnershipTypeOK'
  BY <1>1, <1>2, <1>3 DEF OwnershipTypeOK
<1>6. FateInv'
  BY <1>1, <1>2 DEF FateInv
<1>7. Open(r)' /\ \A s \in Changes \ {r} : Open(s)' <=> Open(s)
  BY <1>1, <1>2 DEF Open
<1>8. \A s \in Changes : Open(s) => req[s].vm # v
  BY <1>1, OpenIsUnsettled
<1>9. OneForEach'
  BY <1>2, <1>7, <1>8 DEF OneForEach
<1>10. ASSUME "overlap" \notin races' PROVE ListInv'
  <2>1. ListInv
    BY <1>10, <1>3
  <2>2. OneUpdates' /\ ReadIsList'
    BY <2>1, <1>1, <1>2 DEF ListInv, OneUpdates, ReadIsList, Updates, Updating, ReqAt
  <2>3. RulesFollow'
    BY <2>1, <1>1, <1>2 DEF ListInv, RulesFollow, ReqAt
  <2>4. InTransit'
    BY <2>1, <1>1, <1>2, <1>4, <1>7 DEF ListInv, InTransit, Updated
  <2>5. \A u \in Names : Unsettled(u) => Unsettled(u)'
    BY <1>1, <1>2 DEF Unsettled
  <2>6. AtRest'
    BY <2>1, <2>5, <1>1 DEF ListInv, AtRest
  <2> QED BY <2>2, <2>3, <2>4, <2>6 DEF ListInv
<1>11. ASSUME "overlap" \notin races', "quota" \notin races' PROVE RoomInList'
  <2>1. RoomInList
    BY <1>11, <1>3
  <2>2. CASE CheckQuota(r, v)
    <3>1. \A s \in Changes \ {r} : ~ Adding(s)
      BY <2>2, <1>11 DEF CheckQuota, Race, Others, Adding
    <3> QED BY <2>1, <2>2, <3>1, <1>1, <1>2 DEF RoomInList, Adding, CheckQuota
  <2>3. CASE SelfDeleteVm(r, v)
    <3>1. req'[r].op = "delete"
      BY <2>3, <1>4 DEF SelfDeleteVm
    <3> QED BY <2>1, <3>1, <1>1, <1>2 DEF RoomInList, Adding
  <2> QED BY <2>2, <2>3
<1> QED BY <1>1, <1>5, <1>6, <1>9, <1>10, <1>11

LEMMA SubmitKeepsOwnership ==
    ASSUME OwnershipInv, NEW r \in Changes, SubmitWithStruct(r)
    PROVE  OwnershipInv'
<1> USE OwnershipAssumption DEF OwnershipInv
<1>1. /\ req[r] # None /\ req[r].pc = "submit" /\ fate[r] = "new"
      /\ fate' = [fate EXCEPT ![r] = "waiting"]
      /\ UNCHANGED <<list, rules, exists, failures, apart, races>>
  BY DEF SubmitWithStruct, ReqAt, Changing!Accept, Changing!Move
<1>2. Went(r, req[r].read, "read")
  BY <1>1, GoesOnTo DEF SubmitWithStruct, UpdateSteps
<1>3. /\ fate' \in [Changes -> Changing!Phases] /\ fate'[r] = "waiting"
      /\ \A s \in Changes \ {r} : fate'[s] = fate[s]
  BY <1>1 DEF OwnershipTypeOK, Changing!Phases
<1>4. OwnershipTypeOK'
  BY <1>1, <1>2, <1>3 DEF OwnershipTypeOK, Went
<1>5. req[r].op # "assign"
  BY <1>1 DEF FateInv
<1>6. FateInv'
  BY <1>1, <1>2, <1>3, <1>5 DEF FateInv, Went
<1>7. \A s \in Changes : (Open(s)' <=> Open(s)) /\ (req'[s] = None <=> req[s] = None)
                         /\ (req[s] # None => req'[s].vm = req[s].vm)
  BY <1>1, <1>2, <1>3 DEF Open, Went
<1>8. OneForEach'
  BY <1>7 DEF OneForEach, Open
<1>9. ASSUME ListInv PROVE ListInv'
  <2>1. OneUpdates' /\ ReadIsList'
    BY <1>9, <1>1, <1>2 DEF ListInv, OneUpdates, ReadIsList, Updates, Updating, ReqAt, Went
  <2>2. RulesFollow'
    BY <1>9, <1>1, <1>2 DEF ListInv, RulesFollow, ReqAt, Went
  <2>3. InTransit'
    BY <1>9, <1>1, <1>2, <1>3, <1>7 DEF ListInv, InTransit, Updated, Went
  <2>4. AtRest'
    BY <1>9, <1>1, <1>7, OpenIsUnsettled DEF ListInv, AtRest, Unsettled, Open
  <2> QED BY <2>1, <2>2, <2>3, <2>4 DEF ListInv
<1>10. ASSUME RoomInList PROVE RoomInList'
  BY <1>10, <1>1, <1>2 DEF RoomInList, Adding, Went
<1> QED BY <1>1, <1>4, <1>6, <1>8, <1>9, <1>10

LEMMA FormKeepsOwnership ==
    ASSUME OwnershipInv, NEW r \in Changes, LoadForm(r)
    PROVE  OwnershipInv'
<1> USE OwnershipAssumption DEF OwnershipInv
<1>1. /\ req[r] = None /\ fate[r] = "new"
      /\ UNCHANGED <<list, rules, exists, fate, failures, apart, races>>
  BY DEF LoadForm
<1>2. /\ req' \in [Changes -> Asked \cup {None}] /\ req'[r] # None
      /\ req'[r].op = "assign" /\ req'[r].vm = None /\ req'[r].pc = "form"
      /\ \A s \in Changes \ {r} : req'[s] = req[s]
  BY Came DEF LoadForm, OwnershipTypeOK
<1>3. OwnershipTypeOK'
  BY <1>1, <1>2 DEF OwnershipTypeOK
<1>4. FateInv'
  BY <1>1, <1>2 DEF FateInv
<1>5. OneForEach'
  BY <1>1, <1>2 DEF OneForEach, Open
<1>6. ASSUME ListInv PROVE ListInv'
  <2>1. OneUpdates' /\ ReadIsList'
    BY <1>6, <1>1, <1>2 DEF ListInv, OneUpdates, ReadIsList, Updates, Updating, ReqAt
  <2>2. RulesFollow'
    BY <1>6, <1>1, <1>2 DEF ListInv, RulesFollow, ReqAt
  <2>3. InTransit'
    BY <1>6, <1>1, <1>2 DEF ListInv, InTransit, Updated, Open
  <2>4. \A u \in Names : Unsettled(u) => Unsettled(u)'
    BY <1>1, <1>2 DEF Unsettled
  <2>5. AtRest'
    BY <1>6, <2>4, <1>1 DEF ListInv, AtRest
  <2> QED BY <2>1, <2>2, <2>3, <2>5 DEF ListInv
<1>7. ASSUME RoomInList PROVE RoomInList'
  BY <1>7, <1>1, <1>2 DEF RoomInList, Adding
<1> QED BY <1>1, <1>3, <1>4, <1>5, <1>6, <1>7

(* What is chosen is of the list that was shown; the rest is set apart.    *)
LEMMA AssignKeepsOwnership ==
    ASSUME OwnershipInv, NEW r \in Changes, AssignVMsToUser(r)
    PROVE  OwnershipInv'
<1> USE OwnershipAssumption DEF OwnershipInv
<1>1. PICK chosen \in SUBSET req[r].read :
        list' = chosen /\ apart' = apart \cup (req[r].read \ chosen)
  BY DEF AssignVMsToUser
<1>2. /\ req[r] # None /\ req[r].pc = "form"
      /\ UNCHANGED <<rules, exists, fate, failures>>
  BY DEF AssignVMsToUser, ReqAt
<1>3. Went(r, req[r].read, "rules")
  BY <1>2, GoesOnTo DEF AssignVMsToUser, UpdateSteps
<1>4. races \subseteq races' /\ ("quota" \in races' => "quota" \in races)
      /\ races' \subseteq {"quota", "overlap"}
      /\ ("overlap" \notin races' => ~ Overlaps(r) /\ list = req[r].read)
  BY DEF AssignVMsToUser, Race, OwnershipTypeOK
<1>5. req[r].op = "assign" /\ req[r].vm = None /\ fate[r] = "new" /\ req[r].read \subseteq Names
  BY <1>2 DEF FateInv, OwnershipTypeOK, Asked
<1>6. OwnershipTypeOK'
  <2>1. {list', rules', exists', apart'} \subseteq SUBSET Names
    BY <1>1, <1>2, <1>5 DEF OwnershipTypeOK
  <2> QED BY <2>1, <1>2, <1>3, <1>4 DEF OwnershipTypeOK, Went
<1>7. FateInv'
  BY <1>2, <1>3, <1>5 DEF FateInv, Went
<1>8. \A s \in Changes : req[s] # None => req'[s].vm = req[s].vm
  BY <1>3 DEF Went
<1>9. \A s \in Changes : Open(s)' <=> Open(s)
  BY <1>2, <1>3 DEF Open, Went
<1>10. OneForEach'
  BY <1>8, <1>9 DEF OneForEach, Open
<1>11. ASSUME "overlap" \notin races' PROVE ListInv' /\ list' \subseteq list
  <2>1. ListInv /\ list = req[r].read /\ ~ Overlaps(r)
    BY <1>11, <1>4
  <2>2. list' \subseteq list /\ apart' = apart \cup (list \ list')
    BY <2>1, <1>1
  <2>3. \A s \in Changes \ {r} : ~ Updates(s)
    BY <2>1 DEF Overlaps, Others, Updates
  <2>4. OneUpdates'
    BY <2>3, <1>3 DEF OneUpdates, Updates, Went
  <2>5. ReadIsList'
    BY <2>3, <1>3 DEF ReadIsList, Updates, Updating, ReqAt, Went
  <2>6. RulesFollow'
    BY <1>3 DEF RulesFollow, ReqAt, Went
  <2>7. InTransit'
    BY <2>1, <2>2, <1>2, <1>3, <1>5, <1>9 DEF ListInv, InTransit, Updated, Open, Went
  <2>8. AtRest'
    BY <2>1, <2>2, <1>2, <1>8, <1>9, OpenIsUnsettled DEF ListInv, AtRest, Unsettled, Open, Went
  <2> QED BY <2>2, <2>4, <2>5, <2>6, <2>7, <2>8 DEF ListInv
<1>12. ASSUME "overlap" \notin races', "quota" \notin races' PROVE RoomInList'
  <2>1. RoomInList /\ list' \subseteq list
    BY <1>12, <1>4, <1>11
  <2>2. IsFiniteSet(list') /\ Cardinality(list') =< Cardinality(list)
    BY <2>1, FS_Subset DEF RoomInList
  <2>3. Cardinality(list) \in Nat /\ Cardinality(list') \in Nat
    BY <2>1, <2>2, FS_CardinalityType DEF RoomInList
  <2>4. \A s \in Changes : Adding(s)' => Adding(s)
    BY <1>3 DEF Adding, Went
  <2> QED BY <2>1, <2>2, <2>3, <2>4 DEF RoomInList
<1> QED BY <1>6, <1>7, <1>10, <1>11, <1>12

(* What every step of an update leaves as it is.                           *)
LEMMA UpdateKeepsRequests ==
    ASSUME OwnershipInv, NEW r \in Changes, req[r] # None, NEW R \in SUBSET Names,
           NEW p \in {"write", "rules", "install", "done"}, Went(r, R, p),
           req[r].pc \in {"read", "write", "rules", "install"},
           p = "write" => req[r].op # "assign", UNCHANGED <<exists, fate, failures, apart>>
    PROVE  /\ req' \in [Changes -> Asked \cup {None}]
           /\ \A s \in Changes : /\ req'[s] = None <=> req[s] = None
                                 /\ req[s] # None => req'[s].vm = req[s].vm
           /\ \A s \in Changes : Open(s)' => Open(s)
           /\ \A s \in Changes : Open(s) => Open(s)' \/ (s = r /\ p = "done")
           /\ FateInv' /\ OneForEach'
<1> USE DEF OwnershipInv
<1>1. \A s \in Changes : /\ req'[s] = None <=> req[s] = None
                         /\ req[s] # None => req'[s].vm = req[s].vm /\ req'[s].op = req[s].op
  BY DEF Went
<1>2. Open(r) /\ \A s \in Changes \ {r} : Open(s)' <=> Open(s)
  BY DEF Open, Went
<1>3. p # "done" => Open(r)'
  BY DEF Open, Went
<1>4. req[r].op # "assign" => req[r].pc # "submit" /\ fate[r] # "new"
  BY DEF FateInv
<1>5. FateInv'
  <2> SUFFICES ASSUME NEW s \in Changes
               PROVE  /\ req'[s] = None => fate'[s] = "new"
                      /\ req'[s] # None /\ req'[s].op = "assign" =>
                           /\ req'[s].vm = None /\ fate'[s] = "new"
                           /\ req'[s].pc \notin {"submit", "read", "write"}
                      /\ req'[s] # None /\ req'[s].op # "assign" =>
                           /\ req'[s].vm \in Names /\ req'[s].pc # "form"
                           /\ req'[s].pc = "submit" <=> fate'[s] = "new"
    BY DEF FateInv
  <2>1. CASE s = r
    BY <2>1, <1>1, <1>4 DEF FateInv, Went
  <2>2. CASE s # r
    BY <2>2 DEF FateInv, Went
  <2> QED BY <2>1, <2>2
<1>6. OneForEach'
  BY <1>1, <1>2 DEF OneForEach, Open
<1>7. \A s \in Changes : (Open(s)' => Open(s)) /\ (Open(s) => Open(s)' \/ (s = r /\ p = "done"))
  BY <1>2, <1>3
<1> QED BY <1>1, <1>5, <1>6, <1>7 DEF Went

LEMMA ReadKeepsOwnership ==
    ASSUME OwnershipInv, NEW r \in Changes, GetUserVMList(r)
    PROVE  OwnershipInv'
<1> USE OwnershipAssumption DEF OwnershipInv
<1> DEFINE p == IF req[r].op = "create" /\ req[r].vm \in list THEN "done" ELSE "write"
<1>1. /\ req[r] # None /\ req[r].pc = "read" /\ req[r].op # "assign"
      /\ req' = [req EXCEPT ![r].read = list, ![r].pc = p]
      /\ UNCHANGED <<list, rules, exists, fate, failures, apart>>
  BY DEF GetUserVMList, ReqAt, FateInv
<1>2. p \in {"write", "done"} /\ list \in SUBSET Names
      /\ (p = "done" => req[r].op = "create" /\ req[r].vm \in list)
  BY DEF OwnershipTypeOK
<1> HIDE DEF p
<1>3. Went(r, list, p)
  BY <1>1, <1>2, ReadsAndGoesOn DEF UpdateSteps
<1>4. races \subseteq races' /\ ("quota" \in races' => "quota" \in races)
      /\ races' \subseteq {"quota", "overlap"}
      /\ ("overlap" \notin races' => ~ Overlaps(r))
  BY DEF GetUserVMList, Race, OwnershipTypeOK
<1>5. /\ req' \in [Changes -> Asked \cup {None}]
      /\ \A s \in Changes : /\ req'[s] = None <=> req[s] = None
                            /\ req[s] # None => req'[s].vm = req[s].vm
      /\ \A s \in Changes : Open(s)' => Open(s)
      /\ \A s \in Changes : Open(s) => Open(s)' \/ (s = r /\ p = "done")
      /\ FateInv' /\ OneForEach'
  BY <1>1, <1>2, <1>3, UpdateKeepsRequests
<1>6. OwnershipTypeOK'
  BY <1>1, <1>4, <1>5 DEF OwnershipTypeOK
<1>7. ASSUME "overlap" \notin races' PROVE ListInv'
  <2>1. ListInv /\ ~ Overlaps(r)
    BY <1>7, <1>4
  <2>2. \A s \in Changes \ {r} : ~ Updates(s)
    BY <2>1 DEF Overlaps, Others, Updates
  <2>3. OneUpdates'
    BY <2>2, <1>3 DEF OneUpdates, Updates, Went
  <2>4. ReadIsList'
    BY <2>2, <1>1, <1>3 DEF ReadIsList, Updates, Updating, ReqAt, Went
  <2>5. RulesFollow'
    BY <2>1, <1>1, <1>2, <1>3 DEF ListInv, RulesFollow, ReqAt, Went
  <2>6. Open(r) /\ ~ Updated(r) /\ req[r].vm \in Names
    BY <1>1 DEF Open, Updated, FateInv
  <2>7. p = "done" => req[r].vm \in apart
    BY <2>1, <2>6, <1>2 DEF ListInv, InTransit
  <2>8. InTransit'
    BY <2>1, <2>6, <2>7, <1>1, <1>2, <1>3, <1>5 DEF ListInv, InTransit, Updated, Open, Went
  <2>9. \A u \in Names : u \notin apart /\ Unsettled(u) => Unsettled(u)'
    BY <2>7, <1>5, OpenIsUnsettled DEF Unsettled, Open
  <2>10. AtRest'
    BY <2>1, <2>9, <1>1 DEF ListInv, AtRest
  <2> QED BY <2>3, <2>4, <2>5, <2>8, <2>10 DEF ListInv
<1>8. ASSUME RoomInList PROVE RoomInList'
  BY <1>8, <1>1, <1>3 DEF RoomInList, Adding, Went
<1> QED BY <1>4, <1>5, <1>6, <1>7, <1>8

LEMMA WriteKeepsOwnership ==
    ASSUME OwnershipInv, NEW r \in Changes, WriteList(r)
    PROVE  OwnershipInv'
<1> USE OwnershipAssumption DEF OwnershipInv
<1>1. /\ req[r] # None /\ req[r].pc = "write" /\ req[r].op \in {"create", "delete"}
      /\ req[r].vm \in Names /\ req[r].read \in SUBSET Names
      /\ list' = IF req[r].op = "create" THEN req[r].read \cup {req[r].vm}
                 ELSE req[r].read \ {req[r].vm}
      /\ UNCHANGED <<rules, exists, fate, failures, apart, races>>
  BY DEF WriteList, ReqAt, FateInv, OwnershipTypeOK, Asked
<1>2. Went(r, req[r].read, "rules")
  BY <1>1, GoesOnTo DEF WriteList, UpdateSteps
<1>3. /\ req' \in [Changes -> Asked \cup {None}]
      /\ \A s \in Changes : /\ req'[s] = None <=> req[s] = None
                            /\ req[s] # None => req'[s].vm = req[s].vm
      /\ \A s \in Changes : Open(s)' <=> Open(s)
      /\ FateInv' /\ OneForEach'
  BY <1>1, <1>2, UpdateKeepsRequests
<1>4. OwnershipTypeOK'
  BY <1>1, <1>3 DEF OwnershipTypeOK
<1>5. ASSUME ListInv PROVE ListInv'
  <2>1. list' = IF req[r].op = "create" THEN list \cup {req[r].vm} ELSE list \ {req[r].vm}
    BY <1>5, <1>1 DEF ListInv, ReadIsList, ReqAt
  <2>2. \A s \in Changes \ {r} : ~ Updates(s)
    BY <1>5, <1>1 DEF ListInv, OneUpdates, Updates, Updating
  <2>3. OneUpdates'
    BY <2>2, <1>2 DEF OneUpdates, Updates, Went
  <2>4. ReadIsList'
    BY <2>2, <1>2 DEF ReadIsList, Updates, Updating, ReqAt, Went
  <2>5. RulesFollow'
    BY <1>2 DEF RulesFollow, ReqAt, Went
  <2>6. Open(r) /\ ~ Updated(r)
    BY <1>1 DEF Open, Updated
  <2>7. \A s \in Changes \ {r} : Open(s) => req[s].vm # req[r].vm
    BY <2>6, <1>1, OwnershipAssumption DEF OneForEach
  <2>8. InTransit'
    <3> SUFFICES ASSUME NEW s \in Changes, Open(s)'
                 PROVE  /\ req'[s].op = "create" /\ req'[s].vm \notin apart' =>
                             /\ req'[s].vm \in list' <=> Updated(s)'
                             /\ req'[s].vm \in exists' <=> fate'[s] = "settled"
                        /\ req'[s].op = "delete" =>
                             /\ Updated(s)' => req'[s].vm \notin list'
                             /\ req'[s].vm \notin apart' =>
                                  (req'[s].vm \in exists' <=> fate'[s] # "settled")
      BY DEF InTransit
    <3>1. CASE s = r
      BY <3>1, <1>5, <2>1, <2>6, <1>1, <1>2, <1>3 DEF ListInv, InTransit, Updated, Went
    <3>2. CASE s # r
      BY <3>2, <1>5, <2>1, <2>7, <1>1, <1>2, <1>3 DEF ListInv, InTransit, Updated, Went
    <3> QED BY <3>1, <3>2
  <2>9. \A u \in Names : Unsettled(u)' <=> Unsettled(u)
    BY <1>3, OpenIsUnsettled DEF Unsettled, Open
  <2>10. \A u \in Names : ~ Unsettled(u) => u # req[r].vm
    BY <2>6, OpenIsUnsettled
  <2>11. AtRest'
    BY <1>5, <2>1, <2>9, <2>10, <1>1 DEF ListInv, AtRest
  <2> QED BY <2>3, <2>4, <2>5, <2>8, <2>11 DEF ListInv
<1>6. ASSUME ListInv, RoomInList PROVE RoomInList'
  <2>1. list' = IF req[r].op = "create" THEN list \cup {req[r].vm} ELSE list \ {req[r].vm}
    BY <1>6, <1>1 DEF ListInv, ReadIsList, ReqAt
  <2>2. IsFiniteSet(list) /\ Cardinality(list) \in Nat
    BY <1>6, FS_CardinalityType DEF RoomInList
  <2>3. CASE req[r].op = "create"
    <3>1. /\ IsFiniteSet(list') /\ Cardinality(list') \in Nat
          /\ Cardinality(list') =< Cardinality(list) + 1
      <4>1. list' = list \cup {req[r].vm}
        BY <2>1, <2>3
      <4>2. /\ IsFiniteSet(list \cup {req[r].vm})
            /\ Cardinality(list \cup {req[r].vm}) =
                 IF req[r].vm \in list THEN Cardinality(list) ELSE Cardinality(list) + 1
        BY <2>2, FS_AddElement
      <4> QED BY <4>1, <4>2, <2>2
    <3>2. Adding(r) /\ \A s \in Changes \ {r} : ~ Adding(s)
      BY <2>3, <1>6, <1>1 DEF RoomInList, Adding
    <3>3. \A s \in Changes : ~ Adding(s)'
      BY <3>2, <1>2 DEF Adding, Went
    <3> QED BY <3>1, <3>2, <3>3, <2>2, <1>6 DEF RoomInList
  <2>4. CASE req[r].op = "delete"
    <3>1. list' \subseteq list
      BY <2>1, <2>4
    <3>2. IsFiniteSet(list') /\ Cardinality(list') =< Cardinality(list)
      BY <2>2, <3>1, FS_Subset
    <3>3. Cardinality(list') \in Nat
      BY <3>2, FS_CardinalityType
    <3>4. \A s \in Changes : Adding(s)' => Adding(s)
      BY <1>2, <2>4 DEF Adding, Went
    <3> QED BY <3>2, <3>3, <3>4, <2>2, <1>6 DEF RoomInList
  <2> QED BY <2>3, <2>4, <1>1
<1> QED BY <1>1, <1>3, <1>4, <1>5, <1>6

LEMMA RulesKeepOwnership ==
    ASSUME OwnershipInv, NEW r \in Changes, ReadForRules(r) \/ InstallRules(r)
    PROVE  OwnershipInv'
<1> USE OwnershipAssumption DEF OwnershipInv
<1>1. /\ req[r] # None /\ req[r].pc \in {"rules", "install"}
      /\ list \in SUBSET Names /\ req[r].read \in SUBSET Names
      /\ UNCHANGED <<list, exists, fate, failures, apart, races>>
  BY DEF ReadForRules, InstallRules, ReqAt, OwnershipTypeOK, Asked
<1>2. \/ /\ Went(r, list, "install") /\ rules' = rules
      \/ /\ Went(r, req[r].read, "done") /\ rules' = req[r].read /\ req[r].pc = "install"
  <2>1. CASE ReadForRules(r)
    BY <2>1, <1>1, ReadsAndGoesOn DEF ReadForRules, UpdateSteps
  <2>2. CASE InstallRules(r)
    BY <2>2, <1>1, GoesOnTo DEF InstallRules, UpdateSteps, ReqAt
  <2> QED BY <2>1, <2>2
<1>3. /\ req' \in [Changes -> Asked \cup {None}]
      /\ \A s \in Changes : /\ req'[s] = None <=> req[s] = None
                            /\ req[s] # None => req'[s].vm = req[s].vm
      /\ \A s \in Changes : Open(s)' => Open(s)
      /\ \A s \in Changes : Open(s) => Open(s)' \/ (s = r /\ req'[r].pc = "done")
      /\ FateInv' /\ OneForEach'
  <2>1. CASE Went(r, list, "install")
    BY <2>1, <1>1, UpdateKeepsRequests
  <2>2. CASE Went(r, req[r].read, "done")
    <3>1. req'[r].pc = "done"
      BY <2>2 DEF Went
    <3> QED BY <3>1, <2>2, <1>1, UpdateKeepsRequests
  <2> QED BY <2>1, <2>2, <1>2
<1>4. OwnershipTypeOK'
  BY <1>1, <1>2, <1>3 DEF OwnershipTypeOK
<1>5. /\ req'[r].op = req[r].op /\ req'[r].vm = req[r].vm
      /\ req'[r].pc \in {"install", "done"} /\ req[r].pc \in {"rules", "install"}
      /\ \A s \in Changes \ {r} : req'[s] = req[s]
  BY <1>1, <1>2 DEF Went
<1>6. ASSUME ListInv PROVE ListInv'
  <2>1. \A s \in Changes \ {r} : ~ Updates(s)
    BY <1>6, <1>1 DEF ListInv, OneUpdates, Updates, Updating
  <2>2. OneUpdates'
    BY <2>1, <1>5 DEF OneUpdates, Updates
  <2>3. ReadIsList'
    BY <2>1, <1>1, <1>2 DEF ReadIsList, Updates, Updating, ReqAt, Went
  <2>4. RulesFollow'
    BY <1>6, <1>1, <1>2 DEF ListInv, ReadIsList, RulesFollow, ReqAt, Went
  <2>5. \A s \in Changes : (req[s] # None => req'[s].op = req[s].op)
                           /\ (req[s] # None => (Updated(s)' <=> Updated(s)))
    BY <1>5 DEF Updated
  <2>6. InTransit'
    BY <1>6, <2>5, <1>1, <1>3 DEF ListInv, InTransit, Open
  <2>7. AtRest'
    <3> SUFFICES ASSUME NEW v \in Names, ~ Unsettled(v)', v \notin apart
                 PROVE  v \in list <=> v \in exists
      BY <1>1 DEF AtRest
    <3>1. CASE Unsettled(v)
      <4>1. Open(r) /\ req[r].vm = v /\ ~ Open(r)'
        BY <3>1, <1>3, OpenIsUnsettled DEF Unsettled, Open
      <4>2. fate[r] \notin {"waiting", "executing", "new"} /\ req[r].op # "assign"
        BY <4>1, <1>1, <1>3 DEF Open, FateInv
      <4>3. fate[r] = "settled" /\ Updated(r) /\ req[r].op \in {"create", "delete"}
        BY <4>2, <1>1 DEF OwnershipTypeOK, Changing!Phases, Updated, Asked
      <4> QED BY <4>1, <4>3, <1>6 DEF ListInv, InTransit
    <3>2. CASE ~ Unsettled(v)
      BY <3>2, <1>6 DEF ListInv, AtRest
    <3> QED BY <3>1, <3>2
  <2> QED BY <2>2, <2>3, <2>4, <2>6, <2>7 DEF ListInv
<1>7. ASSUME RoomInList PROVE RoomInList'
  BY <1>7, <1>1, <1>5 DEF RoomInList, Adding
<1> QED BY <1>1, <1>3, <1>4, <1>6, <1>7

(* A task leaves the list alone: what it makes or removes, or fails to, is *)
(* the machine of its own request.                                         *)
LEMMA TasksKeepOwnership ==
    ASSUME OwnershipInv, NEW t \in Changes,
           ExecuteChange(t) \/ Succeed(t) \/ FailChange(t) \/ CancelChange(t)
    PROVE  OwnershipInv'
<1> USE OwnershipAssumption DEF OwnershipInv
<1>1. /\ fate[t] \in {"waiting", "executing"} /\ UNCHANGED <<list, rules, req, races>>
      /\ \E to \in {"executing", "settled"} :
           /\ fate' = [fate EXCEPT ![t] = to]
           /\ to = "executing" => UNCHANGED <<exists, apart>>
  BY DEF ExecuteChange, Succeed, FailChange, CancelChange, Changing!Execute, Changing!Settle,
     Changing!Skip, Changing!Move
<1>2. /\ fate' \in [Changes -> Changing!Phases] /\ fate'[t] \in {"executing", "settled"}
      /\ \A s \in Changes \ {t} : fate'[s] = fate[s]
      /\ fate'[t] = "executing" => UNCHANGED <<exists, apart>>
  BY <1>1 DEF OwnershipTypeOK, Changing!Phases
<1>3. /\ req[t] # None /\ req[t].op \in {"create", "delete"} /\ req[t].vm \in Names
      /\ req[t].pc # "submit"
  BY <1>1 DEF FateInv, OwnershipTypeOK, Asked
<1>4. fate'[t] = "settled" =>
        \/ req[t].op = "create" /\ exists' = exists \cup {req[t].vm} /\ apart' = apart
        \/ /\ req[t].op = "delete"
           /\ exists' = exists \ {req[t].vm} /\ apart' = apart \ {req[t].vm}
        \/ exists' = exists /\ apart' = apart \cup {req[t].vm}
  <2>1. CASE ExecuteChange(t)
    <3>1. fate' = [fate EXCEPT ![t] = "executing"]
      BY <2>1 DEF ExecuteChange, Changing!Execute, Changing!Move
    <3> QED BY <3>1 DEF OwnershipTypeOK
  <2>2. CASE Succeed(t)
    BY <2>2 DEF Succeed
  <2>3. CASE FailChange(t) \/ CancelChange(t)
    BY <2>3 DEF FailChange, CancelChange
  <2> QED BY <2>1, <2>2, <2>3
<1>5. failures' \in 0..MaxFailures
  BY DEF ExecuteChange, Succeed, FailChange, CancelChange, OwnershipTypeOK
<1>6. OwnershipTypeOK'
  <2>1. {exists', apart'} \subseteq SUBSET Names
    BY <1>2, <1>3, <1>4 DEF OwnershipTypeOK
  <2> QED BY <2>1, <1>1, <1>2, <1>5 DEF OwnershipTypeOK
<1>7. FateInv'
  BY <1>1, <1>2, <1>3 DEF FateInv
<1>8. /\ Open(t) /\ \A s \in Changes \ {t} : Open(s)' <=> Open(s)
      /\ \A s \in Changes \ {t} : Open(s) => req[s].vm # req[t].vm
  <2>1. Open(t) /\ \A s \in Changes \ {t} : Open(s)' <=> Open(s)
    BY <1>1, <1>2, <1>3 DEF Open
  <2>2. req[t].vm # None
    BY <1>3
  <2> QED BY <2>1, <2>2 DEF OneForEach
<1>9. OneForEach'
  BY <1>1, <1>8 DEF OneForEach
<1>10. ASSUME ListInv PROVE ListInv'
  <2>1. OneUpdates' /\ ReadIsList' /\ RulesFollow'
    BY <1>10, <1>1 DEF ListInv, OneUpdates, ReadIsList, RulesFollow, Updates, ReqAt
  <2>2. InTransit'
    <3> SUFFICES ASSUME NEW s \in Changes, Open(s)'
                 PROVE  /\ req[s].op = "create" /\ req[s].vm \notin apart' =>
                             /\ req[s].vm \in list <=> Updated(s)
                             /\ req[s].vm \in exists' <=> fate'[s] = "settled"
                        /\ req[s].op = "delete" =>
                             /\ Updated(s) => req[s].vm \notin list
                             /\ req[s].vm \notin apart' =>
                                  (req[s].vm \in exists' <=> fate'[s] # "settled")
      BY <1>1 DEF InTransit, Updated
    <3>1. CASE s = t
      BY <3>1, <1>10, <1>1, <1>2, <1>3, <1>4, <1>8 DEF ListInv, InTransit
    <3>2. CASE s # t
      <4>1. Open(s) /\ req[s].vm # req[t].vm /\ fate'[s] = fate[s]
        BY <3>2, <1>2, <1>8
      <4>2. /\ req[s].vm \in exists' <=> req[s].vm \in exists
            /\ req[s].vm \in apart' <=> req[s].vm \in apart
        BY <4>1, <1>2, <1>4
      <4> QED BY <4>1, <4>2, <1>10 DEF ListInv, InTransit
    <3> QED BY <3>1, <3>2
  <2>3. AtRest'
    <3> SUFFICES ASSUME NEW v \in Names, ~ Unsettled(v)', v \notin apart'
                 PROVE  v \in list <=> v \in exists'
      BY <1>1 DEF AtRest
    <3>1. CASE v = req[t].vm
      <4>1. req[t].pc = "done" /\ fate'[t] = "settled"
        BY <3>1, <1>1, <1>2, <1>3 DEF Unsettled
      <4> QED BY <3>1, <4>1, <1>10, <1>1, <1>3, <1>4, <1>8 DEF ListInv, InTransit, Updated
    <3>2. CASE v # req[t].vm
      <4>1. ~ Unsettled(v)
        BY <3>2, <1>1, <1>2 DEF Unsettled
      <4>2. (v \in exists' <=> v \in exists) /\ (v \in apart' <=> v \in apart)
        BY <3>2, <1>2, <1>4
      <4> QED BY <4>1, <4>2, <1>10 DEF ListInv, AtRest
    <3> QED BY <3>1, <3>2
  <2> QED BY <2>1, <2>2, <2>3 DEF ListInv
<1>11. ASSUME RoomInList PROVE RoomInList'
  BY <1>11, <1>1 DEF RoomInList, Adding
<1> QED BY <1>1, <1>6, <1>7, <1>9, <1>10, <1>11

(* The inductive invariant, for any number of names, requests, machines a  *)
(* user may have, and failures.                                            *)
THEOREM OwnershipInvariant == OwnershipSpec => []OwnershipInv
<1>1. OwnershipInv /\ [OwnershipNext]_ownershipVars => OwnershipInv'
  <2> SUFFICES ASSUME OwnershipInv, [OwnershipNext]_ownershipVars PROVE OwnershipInv'
    OBVIOUS
  <2>1. CASE UNCHANGED ownershipVars
    BY <2>1 DEF ownershipVars, OwnershipInv, OwnershipTypeOK, FateInv, OneForEach, ListInv,
       OneUpdates, ReadIsList, RulesFollow, InTransit, AtRest, RoomInList, Open, Updates, Updated,
       Adding, Unsettled, ReqAt
  <2>2. ASSUME NEW r \in Changes, NEW v \in Names, CheckQuota(r, v) \/ SelfDeleteVm(r, v)
        PROVE  OwnershipInv'
    BY <2>2, ChecksKeepOwnership
  <2>3. ASSUME NEW r \in Changes,
               \/ SubmitWithStruct(r) \/ LoadForm(r) \/ AssignVMsToUser(r)
               \/ GetUserVMList(r) \/ WriteList(r) \/ ReadForRules(r) \/ InstallRules(r)
        PROVE  OwnershipInv'
    BY <2>3, SubmitKeepsOwnership, FormKeepsOwnership, AssignKeepsOwnership, ReadKeepsOwnership,
       WriteKeepsOwnership, RulesKeepOwnership
  <2>4. ASSUME NEW t \in Changes,
               ExecuteChange(t) \/ Succeed(t) \/ FailChange(t) \/ CancelChange(t)
        PROVE  OwnershipInv'
    BY <2>4, TasksKeepOwnership
  <2> QED BY <2>1, <2>2, <2>3, <2>4 DEF OwnershipNext
<1> QED BY OwnershipStarts, <1>1, PTL DEF OwnershipSpec

(* The list, the requests and their tasks keep their types.                *)
THEOREM OwnershipTypes == OwnershipSpec => []OwnershipTypeOK
<1>1. OwnershipInv => OwnershipTypeOK
  BY DEF OwnershipInv
<1> QED BY OwnershipInvariant, <1>1, PTL

(* With nothing under way, the list, the rules and the machines agree.     *)
THEOREM ListIsWhatIsThere == OwnershipSpec => []OwnedIsListed
<1>1. OwnershipInv => OwnedIsListed
  <2> SUFFICES ASSUME OwnershipInv, \A v \in Names : ~ Unsettled(v),
                      \A r \in Changes : req[r] # None => req[r].pc = "done",
                      "overlap" \notin races
               PROVE  /\ rules = list /\ list \ apart = exists \ apart
                      /\ "quota" \in races \/ apart # {} \/ Cardinality(exists) =< MaxVM
    BY DEF OwnedIsListed
  <2>1. rules = list
    BY DEF OwnershipInv, ListInv, RulesFollow, ReqAt
  <2>2. list \ apart = exists \ apart
    BY DEF OwnershipInv, ListInv, AtRest, OwnershipTypeOK
  <2>3. ASSUME "quota" \notin races, apart = {} PROVE Cardinality(exists) =< MaxVM
    <3>1. exists = list
      BY <2>2, <2>3
    <3> QED BY <2>3, <3>1 DEF OwnershipInv, RoomInList
  <2> QED BY <2>1, <2>2, <2>3
<1> QED BY OwnershipInvariant, <1>1, PTL

-----------------------------------------------------------------------------
(* Sequences of rules.                                                     *)

LEMMA LeastNat ==
    ASSUME NEW T, T \subseteq Nat, T # {}
    PROVE  \E n \in T : \A m \in T : n =< m
<1>1. PICK x \in T : \A y \in T : ~ (<<y, x>> \in OpToRel(<, Nat))
  BY WFMin, NatLessThanWellFounded
<1>2. \A y \in T : ~ (y < x)
  BY <1>1 DEF OpToRel
<1> QED BY <1>2

LEMMA Elements ==
    ASSUME NEW S, NEW s \in Seq(S)
    PROVE  /\ Len(s) \in Nat /\ ToSet(s) \subseteq S
           /\ \A i \in 1..Len(s) : s[i] \in S /\ s[i] \in ToSet(s)
           /\ \A x \in ToSet(s) : \E i \in 1..Len(s) : s[i] = x
<1>1. Len(s) \in Nat /\ DOMAIN s = 1..Len(s) /\ \A i \in 1..Len(s) : s[i] \in S
  BY LenProperties, ElementOfSeq
<1> QED BY <1>1 DEF ToSet

LEMMA Appended ==
    ASSUME NEW S, NEW s \in Seq(S), NEW x \in S
    PROVE  /\ Append(s, x) \in Seq(S) /\ Len(Append(s, x)) = Len(s) + 1
           /\ \A i \in 1..Len(s) : Append(s, x)[i] = s[i]
           /\ Append(s, x)[Len(s) + 1] = x
           /\ ToSet(Append(s, x)) = ToSet(s) \cup {x}
<1> DEFINE t == Append(s, x)
<1>1. /\ t \in Seq(S) /\ Len(t) = Len(s) + 1 /\ Len(s) \in Nat
      /\ \A i \in 1..Len(s) : t[i] = s[i]
      /\ t[Len(s) + 1] = x
  BY AppendProperties, LenProperties
<1>2. DOMAIN t = 1..Len(s) + 1 /\ DOMAIN s = 1..Len(s)
  BY <1>1, LenProperties
<1> HIDE DEF t
<1>3. ToSet(t) = ToSet(s) \cup {x}
  BY <1>1, <1>2 DEF ToSet
<1> QED BY <1>1, <1>3 DEF t

LEMMA Removed ==
    ASSUME NEW S, NEW s \in Seq(S), NEW i \in 1..Len(s)
    PROVE  /\ RemoveAt(s, i) \in Seq(S) /\ Len(RemoveAt(s, i)) = Len(s) - 1
           /\ \A j \in 1..Len(s) - 1 : RemoveAt(s, i)[j] = IF j < i THEN s[j] ELSE s[j + 1]
<1> DEFINE a == SubSeq(s, 1, i - 1)
           b == SubSeq(s, i + 1, Len(s))
<1>1. Len(s) \in Nat /\ \A j \in 1..Len(s) : s[j] \in S
  BY Elements
<1>2. a \in Seq(S) /\ Len(a) = i - 1 /\ \A j \in 1..i - 1 : a[j] = s[j]
  <2>1. \A j \in 1..i - 1 : s[j] \in S
    BY <1>1
  <2>2. /\ SubSeq(s, 1, i - 1) \in Seq(S)
        /\ Len(SubSeq(s, 1, i - 1)) = IF 1 =< i - 1 THEN i - 1 - 1 + 1 ELSE 0
        /\ \A j \in 1..i - 1 - 1 + 1 : SubSeq(s, 1, i - 1)[j] = s[1 + j - 1]
    BY <1>1, <2>1, SubSeqProperties
  <2> QED BY <1>1, <2>2
<1>3. /\ b \in Seq(S) /\ Len(b) = Len(s) - i
      /\ \A j \in 1..Len(s) - i : b[j] = s[i + j]
  <2>1. \A j \in i + 1..Len(s) : s[j] \in S
    BY <1>1
  <2>2. /\ SubSeq(s, i + 1, Len(s)) \in Seq(S)
        /\ Len(SubSeq(s, i + 1, Len(s))) =
             IF i + 1 =< Len(s) THEN Len(s) - (i + 1) + 1 ELSE 0
        /\ \A j \in 1..Len(s) - (i + 1) + 1 :
             SubSeq(s, i + 1, Len(s))[j] = s[(i + 1) + j - 1]
    BY <1>1, <2>1, SubSeqProperties
  <2> QED BY <1>1, <2>2
<1> HIDE DEF a, b
<1>4. /\ a \o b \in Seq(S) /\ Len(a \o b) = Len(a) + Len(b)
      /\ \A j \in 1..Len(a) + Len(b) : (a \o b)[j] = IF j =< Len(a) THEN a[j] ELSE b[j - Len(a)]
  BY <1>2, <1>3, ConcatProperties
<1>5. RemoveAt(s, i) = a \o b
  BY DEF RemoveAt, a, b
<1>6. \A j \in 1..Len(s) - 1 : (a \o b)[j] = IF j < i THEN s[j] ELSE s[j + 1]
  <2> SUFFICES ASSUME NEW j \in 1..Len(s) - 1
               PROVE  (a \o b)[j] = IF j < i THEN s[j] ELSE s[j + 1]
    OBVIOUS
  <2>1. j \in 1..Len(a) + Len(b) /\ i \in Nat /\ Len(a) = i - 1
    BY <1>1, <1>2, <1>3
  <2>2. CASE j < i
    <3>1. j =< Len(a) /\ j \in 1..i - 1
      BY <2>1, <2>2
    <3> QED BY <3>1, <2>1, <2>2, <1>2, <1>4
  <2>3. CASE ~ (j < i)
    <3>1. ~ (j =< Len(a)) /\ j - Len(a) \in 1..Len(s) - i /\ i + (j - Len(a)) = j + 1
      BY <2>1, <2>3, <1>1
    <3> QED BY <3>1, <2>1, <2>3, <1>3, <1>4
  <2> QED BY <2>2, <2>3
<1>7. Len(a) + Len(b) = Len(s) - 1
  BY <1>1, <1>2, <1>3
<1> QED BY <1>4, <1>5, <1>6, <1>7

(* Rules of distinct ports.                                                *)
Distinct(p) == \A i, j \in 1..Len(p) : p[i].port = p[j].port => i = j

LEMMA DistinctAppended ==
    ASSUME NEW s \in Seq(Rules), NEW x \in Rules, Distinct(s),
           \A i \in 1..Len(s) : s[i].port # x.port
    PROVE  Distinct(Append(s, x))
<1> DEFINE t == Append(s, x)
<1>1. /\ Len(s) \in Nat /\ Len(t) = Len(s) + 1 /\ t[Len(s) + 1] = x
      /\ \A i \in 1..Len(s) : t[i] = s[i]
  BY Appended, Elements
<1> HIDE DEF t
<1>2. SUFFICES ASSUME NEW i \in 1..Len(t), NEW j \in 1..Len(t), t[i].port = t[j].port
               PROVE  i = j
  BY DEF Distinct, t
<1>3. CASE i \in 1..Len(s) /\ j \in 1..Len(s)
  BY <1>1, <1>2, <1>3 DEF Distinct
<1>4. CASE i \in 1..Len(s) /\ j = Len(s) + 1
  BY <1>1, <1>2, <1>4
<1>5. CASE i = Len(s) + 1 /\ j \in 1..Len(s)
  BY <1>1, <1>2, <1>5
<1> QED BY <1>1, <1>3, <1>4, <1>5

LEMMA DistinctRemoved ==
    ASSUME NEW s \in Seq(Rules), Distinct(s), NEW i \in 1..Len(s)
    PROVE  Distinct(RemoveAt(s, i)) /\ ToSet(RemoveAt(s, i)) = ToSet(s) \ {s[i]}
<1> DEFINE t == RemoveAt(s, i)
<1>0. Len(s) \in Nat
  BY LenProperties
<1>1. /\ t \in Seq(Rules) /\ Len(t) = Len(s) - 1 /\ Len(s) \in Nat
      /\ \A j \in 1..Len(s) - 1 : t[j] = IF j < i THEN s[j] ELSE s[j + 1]
  BY <1>0, Removed
<1>2. DOMAIN t = 1..Len(s) - 1 /\ DOMAIN s = 1..Len(s)
  BY <1>1, LenProperties
<1> HIDE DEF t
<1>3. Distinct(t)
  BY <1>1 DEF Distinct
<1>4. \A x : x \in ToSet(t) => x \in ToSet(s) /\ x # s[i]
  <2> SUFFICES ASSUME NEW j \in 1..Len(s) - 1 PROVE t[j] \in ToSet(s) /\ t[j] # s[i]
    BY <1>2 DEF ToSet
  <2>1. PICK k \in 1..Len(s) : t[j] = s[k] /\ k # i
    BY <1>1
  <2> QED BY <2>1, <1>1, <1>2 DEF Distinct, ToSet
<1>5. \A x : x \in ToSet(s) /\ x # s[i] => x \in ToSet(t)
  <2> SUFFICES ASSUME NEW k \in 1..Len(s), s[k] # s[i] PROVE s[k] \in ToSet(t)
    BY <1>2 DEF ToSet
  <2>1. PICK j \in 1..Len(s) - 1 : t[j] = s[k]
    <3>1. CASE k < i
      BY <3>1, <1>1
    <3>2. CASE k > i
      <4>1. k - 1 \in 1..Len(s) - 1 /\ ~ (k - 1 < i) /\ k - 1 + 1 = k
        BY <3>2, <1>1
      <4> QED BY <4>1, <1>1
    <3> QED BY <3>1, <3>2, <1>1
  <2> QED BY <2>1, <1>2 DEF ToSet
<1> QED BY <1>3, <1>4, <1>5 DEF t

(* One sequence has its rules in the order of another.                     *)
SameOrder(p, q) ==
    \A i, j \in 1..Len(p) : \A k, l \in 1..Len(q) : p[i] = q[k] /\ p[j] = q[l] /\ i < j => k < l

LEMMA OrderOfSelf == ASSUME NEW p \in Seq(Rules), Distinct(p) PROVE SameOrder(p, p)
  BY Elements DEF SameOrder, Distinct

LEMMA OrderAppended ==
    ASSUME NEW p \in Seq(Rules), NEW q \in Seq(Rules), SameOrder(p, q),
           NEW x \in Rules, x \notin ToSet(p)
    PROVE  SameOrder(p, Append(q, x))
<1>1. /\ Len(q) \in Nat /\ Len(Append(q, x)) = Len(q) + 1
      /\ \A i \in 1..Len(q) : Append(q, x)[i] = q[i]
      /\ Append(q, x)[Len(q) + 1] = x
  BY Appended, Elements
<1>2. \A i \in 1..Len(p) : p[i] # x
  BY Elements
<1> DEFINE t == Append(q, x)
<1> HIDE DEF t
<1>3. SUFFICES ASSUME NEW i \in 1..Len(p), NEW j \in 1..Len(p),
                      NEW k \in 1..Len(t), NEW l \in 1..Len(t),
                      p[i] = t[k], p[j] = t[l], i < j
               PROVE  k < l
  BY DEF SameOrder, t
<1>4. k \in 1..Len(q) /\ l \in 1..Len(q)
  BY <1>1, <1>2, <1>3 DEF t
<1>5. p[i] = q[k] /\ p[j] = q[l]
  BY <1>1, <1>3, <1>4 DEF t
<1> QED BY <1>3, <1>4, <1>5 DEF SameOrder

LEMMA OrderRemoved ==
    ASSUME NEW p \in Seq(Rules), NEW q \in Seq(Rules), SameOrder(p, q), NEW i \in 1..Len(q)
    PROVE  SameOrder(p, RemoveAt(q, i))
<1> DEFINE t == RemoveAt(q, i)
<1>1. /\ Len(q) \in Nat /\ Len(t) = Len(q) - 1
      /\ \A j \in 1..Len(q) - 1 : t[j] = IF j < i THEN q[j] ELSE q[j + 1]
  BY Removed, Elements
<1> HIDE DEF t
<1>2. SUFFICES ASSUME NEW a \in 1..Len(p), NEW b \in 1..Len(p),
                      NEW k \in 1..Len(q) - 1, NEW l \in 1..Len(q) - 1,
                      p[a] = t[k], p[b] = t[l], a < b
               PROVE  k < l
  BY <1>1 DEF SameOrder, t
<1> DEFINE K == IF k < i THEN k ELSE k + 1
           L == IF l < i THEN l ELSE l + 1
<1>3. K \in 1..Len(q) /\ L \in 1..Len(q) /\ p[a] = q[K] /\ p[b] = q[L]
  BY <1>1, <1>2
<1>4. K < L
  BY <1>2, <1>3 DEF SameOrder
<1> QED BY <1>1, <1>4

(* Two sequences of the same distinct rules in the same order are equal.   *)
LEMMA SameSequence ==
    ASSUME NEW p \in Seq(Rules), NEW q \in Seq(Rules), Distinct(p), Distinct(q),
           ToSet(p) = ToSet(q), SameOrder(p, q)
    PROVE  p = q
<1>1. /\ Len(p) \in Nat /\ Len(q) \in Nat
      /\ \A i \in 1..Len(p) : p[i] \in Rules /\ \E k \in 1..Len(q) : q[k] = p[i]
      /\ \A k \in 1..Len(q) : q[k] \in Rules /\ \E i \in 1..Len(p) : q[k] = p[i]
  <2>1. ToSet(p) \subseteq Rules /\ ToSet(q) \subseteq Rules
    BY Elements
  <2> QED BY <2>1, Elements
<1>2. \A i \in 1..Len(p) : i =< Len(q) /\ p[i] = q[i]
  <2> DEFINE T == {i \in 1..Len(p) : ~ (i =< Len(q) /\ p[i] = q[i])}
  <2>1. SUFFICES ASSUME T # {} PROVE FALSE
    OBVIOUS
  <2>a. T \subseteq Nat
    BY <1>1
  <2> HIDE DEF T
  <2>2. PICK n \in T : \A m \in T : n =< m
    BY <2>1, <2>a, LeastNat
  <2>b. n \in 1..Len(p) /\ ~ (n =< Len(q) /\ p[n] = q[n])
    BY DEF T
  <2>3. \A m \in 1..n - 1 : m =< Len(q) /\ p[m] = q[m]
    <3> SUFFICES ASSUME NEW m \in 1..n - 1, ~ (m =< Len(q) /\ p[m] = q[m]) PROVE FALSE
      OBVIOUS
    <3>1. m \in T
      BY <2>b, <1>1 DEF T
    <3> QED BY <3>1, <2>2, <2>b, <1>1
  <2>4. PICK k \in 1..Len(q) : q[k] = p[n]
    BY <2>b, <1>1
  <2>5. k > n
    <3>1. k # n
      BY <2>b, <2>4, <1>1
    <3>2. ~ (k < n)
      <4>1. SUFFICES ASSUME k < n PROVE FALSE
        OBVIOUS
      <4>2. k \in 1..n - 1 /\ k \in 1..Len(p)
        BY <4>1, <2>3, <2>b, <1>1
      <4>3. p[k] = p[n]
        BY <4>2, <2>3, <2>4
      <4>4. k = n
        BY <4>2, <4>3, <2>b DEF Distinct
      <4> QED BY <4>1, <4>4, <1>1
    <3> QED BY <3>1, <3>2, <2>3, <2>b, <1>1
  <2>6. n \in 1..Len(q)
    BY <2>5, <2>3, <2>b, <1>1
  <2>7. PICK i \in 1..Len(p) : q[n] = p[i]
    BY <2>6, <1>1
  <2>8. i > n
    <3>1. i # n
      <4>1. SUFFICES ASSUME i = n PROVE FALSE
        OBVIOUS
      <4>2. q[k] = q[n]
        BY <4>1, <2>4, <2>7
      <4>3. q[k].port = q[n].port
        BY <4>2
      <4>4. k = n
        BY <4>3, <2>4, <2>6 DEF Distinct
      <4> QED BY <4>4, <2>5, <2>b, <1>1
    <3>2. ~ (i < n)
      <4>1. SUFFICES ASSUME i < n PROVE FALSE
        OBVIOUS
      <4>2. i \in 1..n - 1 /\ i \in 1..Len(q)
        BY <4>1, <2>3, <2>6, <1>1
      <4>3. q[i] = q[n]
        BY <4>2, <2>3, <2>b, <2>7
      <4>4. i = n
        BY <4>2, <4>3, <2>6 DEF Distinct
      <4> QED BY <4>1, <4>4, <1>1
    <3> QED BY <3>1, <3>2, <2>3, <2>b, <1>1
  <2>9. k < n
    BY <2>b, <2>4, <2>6, <2>7, <2>8 DEF SameOrder
  <2> QED BY <2>5, <2>9, <2>b, <1>1
<1>3. Len(p) = Len(q)
  <2>1. Len(p) =< Len(q)
    BY <1>1, <1>2
  <2>2. ~ (Len(p) < Len(q))
    <3>1. SUFFICES ASSUME Len(p) < Len(q) PROVE FALSE
      OBVIOUS
    <3>2. PICK i \in 1..Len(p) : q[Len(q)] = p[i]
      BY <3>1, <1>1
    <3>3. i \in 1..Len(q) /\ q[i] = q[Len(q)] /\ Len(q) \in 1..Len(q) /\ i # Len(q)
      BY <3>1, <3>2, <1>1, <1>2
    <3> QED BY <3>3 DEF Distinct
  <2> QED BY <2>1, <2>2, <1>1
<1> QED BY <1>1, <1>2, <1>3, SeqEqual

(* The last of the rules still to delete.                                  *)
LEMMA LastListed ==
    ASSUME NEW T, T \subseteq [id : Nat, rule : Rules], T # {},
           NEW n \in Nat, \A e \in T : e.id =< n
    PROVE  Descending(T) \in T /\ \A d \in T : d.id =< Descending(T).id
<1> DEFINE D == {n - e.id : e \in T}
<1>1. \A e \in T : e.id \in Nat /\ n - e.id \in Nat
  OBVIOUS
<1>2. D \subseteq Nat /\ D # {}
  BY <1>1
<1> HIDE DEF D
<1>3. PICK k \in D : \A m \in D : k =< m
  BY <1>2, LeastNat
<1>4. PICK e \in T : k = n - e.id
  BY DEF D
<1>5. \A d \in T : d.id =< e.id
  <2> TAKE d \in T
  <2>1. n - d.id \in D
    BY DEF D
  <2>2. n - e.id =< n - d.id
    BY <2>1, <1>3, <1>4
  <2> QED BY <2>2, <1>1
<1> QED BY <1>5 DEF Descending

(* What the restoring adds to the chain: the function exists, ...          *)
Collects(m, s, there, n) ==
    m = [i \in 0..n |-> IF i = 0 THEN <<>> ELSE
                        IF s[i] \in there THEN m[i-1] ELSE Append(m[i-1], s[i])]

LEMMA MissingExists ==
    ASSUME NEW s, NEW there, NEW n \in Nat
    PROVE  \E m : Collects(m, s, there, n)
<1> DEFINE T == {k \in 0..n : ~ \E m : Collects(m, s, there, k)}
<1>1. SUFFICES ASSUME T # {} PROVE FALSE
  <2>1. n \notin T => \E m : Collects(m, s, there, n)
    OBVIOUS
  <2> QED BY <2>1
<1>2. T \subseteq Nat
  OBVIOUS
<1>3. PICK k \in T : \A l \in T : k =< l
  BY <1>1, <1>2, LeastNat
<1>4. k \in 0..n /\ ~ \E m : Collects(m, s, there, k)
  OBVIOUS
<1>5. k # 0
  <2>1. SUFFICES ASSUME k = 0 PROVE FALSE
    OBVIOUS
  <2>2. Collects([i \in 0..0 |-> <<>>], s, there, 0)
    BY DEF Collects
  <2> QED BY <2>1, <2>2, <1>4
<1>6. k - 1 \in 0..n /\ ~ (k =< k - 1)
  BY <1>4, <1>5
<1>7. PICK f : Collects(f, s, there, k - 1)
  <2>1. k - 1 \notin T
    <3> HIDE DEF T
    <3> QED BY <1>3, <1>6
  <2> QED BY <2>1, <1>6
<1> DEFINE last == IF s[k] \in there THEN f[k-1] ELSE Append(f[k-1], s[k])
           g == [i \in 0..k |-> IF i = k THEN last ELSE f[i]]
<1>8. Collects(g, s, there, k)
  <2>1. \A i \in 0..k : i # 0 => g[i-1] = f[i-1]
    <3>1. \A i \in 0..k : i # 0 => i - 1 \in 0..k /\ i - 1 # k
      BY <1>4
    <3> QED BY <3>1
  <2> SUFFICES ASSUME NEW i \in 0..k
               PROVE  g[i] = IF i = 0 THEN <<>> ELSE
                             IF s[i] \in there THEN g[i-1] ELSE Append(g[i-1], s[i])
    BY DEF Collects
  <2>4. CASE i = k
    BY <2>1, <2>4, <1>5
  <2>5. CASE i # k
    <3>1. i \in 0..k-1 /\ g[i] = f[i]
      BY <2>5, <1>4
    <3>2. f[i] = IF i = 0 THEN <<>> ELSE
                 IF s[i] \in there THEN f[i-1] ELSE Append(f[i-1], s[i])
      BY <3>1, <1>7 DEF Collects
    <3> QED BY <3>1, <3>2, <2>1
  <2> QED BY <2>4, <2>5
<1> QED BY <1>4, <1>8

LEMMA MissingSteps ==
    ASSUME NEW s \in Seq(Rules), NEW there
    PROVE  \E m : /\ Missing(s, there) = m[Len(s)] /\ m[0] = <<>>
                  /\ \A i \in 1..Len(s) :
                       m[i] = IF s[i] \in there THEN m[i-1] ELSE Append(m[i-1], s[i])
<1> DEFINE n == Len(s)
           m == CHOOSE f : Collects(f, s, there, n)
<1>1. n \in Nat
  BY LenProperties
<1>2. Collects(m, s, there, n)
  BY <1>1, MissingExists
<1>3. Missing(s, there) = m[n]
  BY DEF Missing, Collects
<1> HIDE DEF m
<1>4. m[0] = <<>> /\ \A i \in 1..n :
        m[i] = IF s[i] \in there THEN m[i-1] ELSE Append(m[i-1], s[i])
  <2>1. 0 \in 0..n /\ \A i \in 1..n : i \in 0..n /\ i # 0
    BY <1>1
  <2> QED BY <2>1, <1>2 DEF Collects
<1> QED BY <1>3, <1>4

(* ... adds rules, none when they are all there and all when none is.      *)
LEMMA MissingRules ==
    ASSUME NEW s \in Seq(Rules), NEW there
    PROVE  /\ Missing(s, there) \in Seq(Rules)
           /\ ToSet(s) \subseteq there => Missing(s, there) = <<>>
           /\ there = {} => Missing(s, there) = s
<1>1. PICK m : /\ Missing(s, there) = m[Len(s)] /\ m[0] = <<>>
               /\ \A i \in 1..Len(s) :
                    m[i] = IF s[i] \in there THEN m[i-1] ELSE Append(m[i-1], s[i])
  BY MissingSteps
<1>2. Len(s) \in Nat /\ \A i \in 1..Len(s) : s[i] \in Rules /\ s[i] \in ToSet(s)
  BY Elements
<1> DEFINE Good(i) == /\ m[i] \in Seq(Rules)
                      /\ ToSet(s) \subseteq there => m[i] = <<>>
                      /\ there = {} => Len(m[i]) = i /\ \A j \in 1..i : m[i][j] = s[j]
           T == {i \in 0..Len(s) : ~ Good(i)}
<1>3. Good(0)
  BY <1>1
<1>4. \A i \in 1..Len(s) : Good(i-1) => Good(i)
  <2> SUFFICES ASSUME NEW i \in 1..Len(s), Good(i-1) PROVE Good(i)
    OBVIOUS
  <2>1. m[i] = IF s[i] \in there THEN m[i-1] ELSE Append(m[i-1], s[i])
    BY <1>1
  <2> DEFINE p == m[i-1]
             x == s[i]
  <2>2. p \in Seq(Rules) /\ x \in Rules /\ i \in Nat
    BY <1>2
  <2> HIDE DEF p, x
  <2>3. /\ Append(p, x) \in Seq(Rules) /\ Len(Append(p, x)) = Len(p) + 1
        /\ \A j \in 1..Len(p) : Append(p, x)[j] = p[j]
        /\ Append(p, x)[Len(p) + 1] = x
    BY <2>2, Appended
  <2>4. m[i] \in Seq(Rules)
    BY <2>1, <2>2, <2>3 DEF p, x
  <2>5. ToSet(s) \subseteq there => m[i] = <<>>
    BY <2>1, <1>2
  <2>6. ASSUME there = {} PROVE Len(m[i]) = i /\ \A j \in 1..i : m[i][j] = s[j]
    <3>1. m[i] = Append(p, x) /\ Len(p) = i - 1 /\ \A j \in 1..i - 1 : p[j] = s[j]
      BY <2>1, <2>6 DEF p, x
    <3> QED BY <3>1, <2>2, <2>3 DEF x
  <2> QED BY <2>4, <2>5, <2>6
<1>5. \A i \in 0..Len(s) : Good(i)
  <2>1. SUFFICES ASSUME T # {} PROVE FALSE
    OBVIOUS
  <2>2. T \subseteq Nat
    BY <1>2
  <2>3. PICK k \in T : \A l \in T : k =< l
    BY <2>1, <2>2, LeastNat
  <2>4. k \in 0..Len(s) /\ ~ Good(k)
    OBVIOUS
  <2> HIDE DEF Good
  <2>5. k # 0
    BY <2>4, <1>3
  <2>6. k \in 1..Len(s) /\ k - 1 \in 0..Len(s)
    BY <2>4, <2>5, <1>2
  <2>7. ~ Good(k-1)
    BY <2>4, <2>6, <1>4
  <2>8. k - 1 \in T
    BY <2>6, <2>7
  <2> QED BY <2>3, <2>8, <2>6, <1>2
<1>6. Good(Len(s))
  BY <1>5, <1>2
<1>7. there = {} => m[Len(s)] = s
  <2>1. SUFFICES ASSUME there = {} PROVE m[Len(s)] = s
    OBVIOUS
  <2>2. m[Len(s)] \in Seq(Rules) /\ Len(m[Len(s)]) = Len(s)
    BY <2>1, <1>6
  <2>3. \A j \in 1..Len(s) : m[Len(s)][j] = s[j]
    BY <2>1, <1>6
  <2> QED BY <2>2, <2>3, SeqEqual
<1> QED BY <1>1, <1>6, <1>7

-----------------------------------------------------------------------------
(* The invariant of the port forwards.                                     *)

OpStates == Operations \cup {None, Done}
Live(o) == o \notin {None, Done}

Single(held) == \A v, w \in VMs : v # w /\ held[v] = held[w] => held[v] = None

(* What a request holds at each of its steps.                              *)
OpOK(o) ==
    /\ o.pc \in {"resolve", "list", "write", "purge"} => o.done = {} /\ ~ o.back
    /\ o.pc = "resolve" => o.kind \in {"add", "update"} /\ o.vm # None
    /\ o.pc \in {"list", "write"} =>
         o.kind # "delete" /\ o.vm # None /\ (o.kind = "unbind" \/ o.ip # None)
    /\ o.pc = "write" =>
         /\ o.list # None /\ Single(o.list)
         /\ IF o.kind = "unbind" THEN o.list[o.vm] # None
                                 ELSE \A v \in VMs \ {o.vm} : o.list[v] # o.ip
    /\ o.pc = "purge" => o.kind = "unbind" /\ o.vm # None /\ o.ip # None
    /\ o.pc \in {"info", "drop"} =>
         o.kind \in {"update", "delete", "unbind"} /\ o.todo # {} /\ o.done = {} /\ ~ o.back
    /\ o.pc = "drop" => o.info # None
    /\ o.pc \in {"check", "pre", "out"} => o.kind \in {"add", "update"} /\ o.todo = {}
    /\ o.pc = "check" => o.done = {}
    /\ o.kind \in {"add", "update"} => o.keys # <<>> /\ o.vm # None
    /\ o.kind = "add" => ~ o.back
    /\ o.kind \in {"add", "bind", "unbind"} /\ o.pc \in {"resolve", "list", "write", "purge"} =>
         o.todo = {}
    /\ o.kind = "update" =>
         /\ Len(o.keys) = 1 /\ o.done = {}
         /\ o.pc \in {"resolve", "list", "write", "info", "drop"} => \E e \in o.todo : o.todo = {e}
         /\ o.pc \in {"drop", "check", "pre", "out"} => o.info # None
    /\ o.pc \in {"info", "drop", "check", "pre", "out"} /\ o.kind # "delete" => o.ip # None

OpInv == \A r \in Requests : Live(op[r]) => OpOK(op[r])

(* The rule a request makes, those it has made, and those of its in the    *)
(* first chain; none of them is one that users were told of.               *)
Its(o) == Rule(Head(o.keys), o.ip, o.vm)
Begun(o) == IF Live(o) /\ o.pc = "out" THEN {Its(o)} ELSE {}
InBoth(o) == IF Live(o) THEN o.done ELSE {}
Making(o) == InBoth(o) \cup Begun(o)

ChainInv ==
    /\ Distinct(pre)
    /\ \A x \in Rules :
         x \in ToSet(pre) <=> (x \in meant \/ \E r \in Requests : x \in Making(op[r]))
    /\ \A x \in Rules : x \in out <=> (x \in meant \/ \E r \in Requests : x \in InBoth(op[r]))

MakingInv ==
    \A r \in Requests :
      /\ \A x \in Making(op[r]) :
           x \notin meant /\ \A q \in Requests \ {r} : x \notin Making(op[q])
      /\ \A x \in Begun(op[r]) : x \notin InBoth(op[r])
      /\ \A x \in InBoth(op[r]) : x.vm = op[r].vm /\ x.ip = op[r].ip

(* The numbers a request holds are those of the rules it means.            *)
TodoOK(o) ==
    /\ \A e \in o.todo : e.id \in 1..Len(pre) /\ pre[e.id] = e.rule
    /\ o.pc = "drop" => o.info = Descending(o.todo).rule
TodoInv == \A r \in Requests : Live(op[r]) => TodoOK(op[r])

(* Each rule leads to the address of its machine, or is about to go.       *)
Purging(o, x) ==
    /\ Live(o) /\ o.kind = "unbind" /\ o.pc \in {"purge", "info", "drop"}
    /\ o.vm = x.vm /\ o.ip = x.ip
    /\ o.pc # "purge" => \E e \in o.todo : e.rule = x
LeadsHome == \A x \in meant : hosts[x.vm] = x.ip \/ \E r \in Requests : Purging(op[r], x)

(* A saver knows which others read the chains before it did.               *)
Reading(s) == saver[s] # None /\ saver[s].pc # "start"
SaverInv ==
    /\ Distinct(script.pre)
    /\ \A s \in Savers : saver[s] # None =>
         Distinct(saver[s].pre) /\ (saver[s].pc = "start" => ~ saver[s].old)
    /\ \A s, t \in Savers : saver[t] # None /\ s \in saver[t].before =>
         Reading(s) /\ s # t /\ t \notin saver[s].before

(* The script is right, or somebody will still put it right: a request     *)
(* that has yet to end, a saver that has yet to start, or the last of      *)
(* those that read the chains.                                             *)
Pending(o) ==
    /\ Live(o)
    /\ \/ o.done # {} \/ o.back
       \/ o.kind = "update" /\ o.pc = "out"
       \/ o.kind = "unbind" /\ o.pc \in {"info", "drop"}
UpToDate(p) ==
    /\ ToSet(p) \subseteq ToSet(pre) /\ SameOrder(p, pre)
    /\ \A x \in ToSet(pre) \ ToSet(p) : \E r \in Requests : x \in Begun(op[r])
Starting(s) == saver[s] # None /\ saver[s].pc = "start"
Latest(s) ==
    /\ Reading(s) /\ ~ saver[s].old
    /\ \A t \in Savers \ {s} : Reading(t) => t \in saver[s].before
    /\ UpToDate(saver[s].pre) /\ (saver[s].pc = "write" => saver[s].out = out)
AllOld ==
    /\ \A s \in Savers : saver[s] # None => saver[s].old
    /\ UpToDate(script.pre) /\ script.out = out
InSync ==
    \/ \E r \in Requests : Pending(op[r])
    \/ \E s \in Savers : Starting(s)
    \/ \E s \in Savers : Latest(s)
    \/ AllOld

Upheld == ChainInv /\ MakingInv /\ TodoInv /\ LeadsHome /\ SaverInv /\ InSync
ForwardsInv ==
    /\ ForwardsTypeOK /\ Single(hosts) /\ OpInv
    /\ windows = {} => Upheld

(* Requests.                                                               *)
LEMMA OpKinds ==
    /\ None \notin Operations /\ Done \notin Operations /\ None # Done
    /\ None \notin Savings /\ None \notin Ips /\ None \notin VMs /\ None \notin Rules
    /\ \A o \in OpStates : Live(o) <=> o \in Operations
<1>1. None \notin Operations /\ None # Done /\ None \notin Savings /\ None \notin Ips
      /\ None \notin VMs /\ None \notin Rules
  BY ForwardsAssumption
<1>2. \A o \in Operations : o.pc # "done"
  BY DEF Operations
<1>3. Done \notin Operations
  BY <1>2 DEF Done
<1> QED BY <1>1, <1>3 DEF OpStates, Live

(* A request goes on as q; the others stay as they are.                    *)
LEMMA Goes ==
    ASSUME ForwardsTypeOK, OpInv, NEW r \in Requests, NEW q \in OpStates, To(r, q),
           q \in Operations => OpOK(q)
    PROVE  /\ op' \in [Requests -> OpStates] /\ op'[r] = q
           /\ \A p \in Requests \ {r} : op'[p] = op[p]
           /\ OpInv'
<1>1. op' = [op EXCEPT ![r] = q] /\ op \in [Requests -> OpStates]
  BY DEF To, ForwardsTypeOK, OpStates
<1>2. /\ op' \in [Requests -> OpStates] /\ op'[r] = q
      /\ \A p \in Requests \ {r} : op'[p] = op[p]
  BY <1>1
<1>3. OpInv'
  BY <1>2, OpKinds DEF OpInv
<1> QED BY <1>2, <1>3

(* What is known of a request that is at a step.                           *)
LEMMA AtStep ==
    ASSUME ForwardsTypeOK, OpInv, NEW r \in Requests, NEW pc, OpAt(r, pc)
    PROVE  op[r] \in Operations /\ OpOK(op[r]) /\ op[r].pc = pc /\ Live(op[r])
<1>1. op[r] \in OpStates
  BY DEF ForwardsTypeOK, OpStates
<1>2. Live(op[r]) /\ op[r].pc = pc
  BY DEF OpAt, Busy, Live
<1> QED BY <1>1, <1>2, OpKinds DEF OpInv

LEMMA Calm ==
    ASSUME NEW o \in OpStates,
           o \in Operations => o.done = {} /\ o.pc # "out"
    PROVE  Making(o) = {} /\ Begun(o) = {} /\ InBoth(o) = {}
BY OpKinds DEF Making, Begun, InBoth

(* A step of a request that neither makes nor deletes a rule.              *)
LEMMA Quietly ==
    ASSUME NEW r \in Requests, windows = {}, Upheld,
           \A p \in Requests \ {r} : op'[p] = op[p],
           UNCHANGED <<pre, out, script, meant, saver>>,
           Making(op[r]) = {}, Making(op'[r]) = {},
           Pending(op[r]) => Pending(op'[r]),
           Live(op'[r]) => TodoOK(op'[r])
    PROVE  ChainInv' /\ MakingInv' /\ TodoInv' /\ SaverInv' /\ InSync'
<1>1. /\ Begun(op[r]) = {} /\ Begun(op'[r]) = {} /\ InBoth(op[r]) = {} /\ InBoth(op'[r]) = {}
  BY DEF Making
<1>2. /\ \A p \in Requests : Making(op'[p]) = Making(op[p])
      /\ \A p \in Requests : Begun(op'[p]) = Begun(op[p])
      /\ \A p \in Requests : InBoth(op'[p]) = InBoth(op[p])
      /\ \A p \in Requests : Pending(op[p]) => Pending(op'[p])
  BY <1>1
<1>3. ChainInv'
  BY <1>2 DEF ChainInv, Distinct, Upheld
<1>4. MakingInv'
  <2>1. \A p \in Requests : \A x \in InBoth(op'[p]) : x.vm = op'[p].vm /\ x.ip = op'[p].ip
    BY <1>1 DEF MakingInv, Upheld
  <2> QED BY <1>2, <2>1 DEF MakingInv, Upheld
<1>5. TodoInv'
  BY DEF TodoInv, TodoOK, Upheld
<1>6. SaverInv'
  BY DEF SaverInv, Reading, Distinct, Upheld
<1>7. \A p : UpToDate(p) => UpToDate(p)'
  BY <1>2 DEF UpToDate, SameOrder
<1>8. InSync'
  <2>1. CASE \E p \in Requests : Pending(op[p])
    BY <2>1, <1>2 DEF InSync
  <2>2. CASE \E s \in Savers : Starting(s)
    BY <2>2 DEF InSync, Starting
  <2>3. CASE \E s \in Savers : Latest(s)
    BY <2>3, <1>7 DEF InSync, Latest, Reading
  <2>4. CASE AllOld
    BY <2>4, <1>7 DEF InSync, AllOld
  <2> QED BY <2>1, <2>2, <2>3, <2>4 DEF Upheld, InSync
<1> QED BY <1>3, <1>4, <1>5, <1>6, <1>8

LEMMA FreshRequest ==
    ASSUME NEW what \in {"add", "update", "delete", "bind", "unbind"}, NEW vm \in VMs \cup {None},
           NEW pc \in {"resolve", "list", "info"}
    PROVE  LET q == Fresh(what, vm, pc) IN
           /\ q \in Operations /\ q.kind = what /\ q.vm = vm /\ q.pc = pc
           /\ q.done = {} /\ q.todo = {} /\ ~ q.back
<1>1. <<>> \in Seq(Ports)
  OBVIOUS
<1> QED BY <1>1 DEF Fresh, Operations

(* Such a step as a whole.                                                 *)
LEMMA QuietStep ==
    ASSUME ForwardsInv, windows = {}, NEW r \in Requests, NEW q \in OpStates, To(r, q),
           UNCHANGED <<pre, out, script, meant, saver>>,
           hosts' \in Addresses, faults' \in 0..MaxFaults, Single(hosts'),
           Making(op[r]) = {},
           q \in Operations => OpOK(q) /\ q.done = {} /\ q.pc # "out",
           windows' = {} =>
             /\ q \in Operations => TodoOK(q)
             /\ Pending(op[r]) => Pending(q)
             /\ \A x \in meant : \/ hosts'[x.vm] = x.ip \/ Purging(q, x)
                                 \/ \E p \in Requests \ {r} : Purging(op[p], x)
    PROVE  ForwardsInv'
<1>0. ForwardsTypeOK /\ OpInv /\ Single(hosts) /\ Upheld
  BY DEF ForwardsInv
<1>1. /\ op' \in [Requests -> OpStates] /\ op'[r] = q
      /\ \A p \in Requests \ {r} : op'[p] = op[p]
      /\ OpInv'
  BY <1>0, Goes
<1>2. Making(q) = {}
  BY Calm
<1>3. ASSUME windows' = {}
      PROVE  ChainInv' /\ MakingInv' /\ TodoInv' /\ SaverInv' /\ InSync'
  <2>1. Live(op'[r]) => TodoOK(op'[r])
    BY <1>1, <1>3, OpKinds
  <2> QED BY <2>1, <1>0, <1>1, <1>2, <1>3, Quietly
<1>4. windows' = {} => LeadsHome'
  BY <1>1 DEF LeadsHome
<1>5. ForwardsTypeOK'
  BY <1>0, <1>1 DEF ForwardsTypeOK, OpStates
<1> QED BY <1>1, <1>3, <1>4, <1>5 DEF ForwardsInv, Upheld, Single

LEMMA ListedRules ==
    ASSUME pre \in Seq(Rules), NEW ids \in SUBSET (1..Len(pre))
    PROVE  /\ Listed(ids) \subseteq [id : Nat, rule : Rules]
           /\ \A e \in Listed(ids) : e.id \in 1..Len(pre) /\ pre[e.id] = e.rule
           /\ ids # {} => Listed(ids) # {}
           /\ \A i \in ids : \E e \in Listed(ids) : e.rule = pre[i]
<1>1. Len(pre) \in Nat /\ \A i \in 1..Len(pre) : pre[i] \in Rules
  BY Elements
<1>2. \A i \in ids : [id |-> i, rule |-> pre[i]] \in Listed(ids)
  BY DEF Listed
<1>3. \A e \in Listed(ids) : \E i \in ids : e = [id |-> i, rule |-> pre[i]]
  BY DEF Listed
<1>4. \A e \in Listed(ids) : e \in [id : Nat, rule : Rules] /\ e.id \in ids /\ pre[e.id] = e.rule
  <2> TAKE e \in Listed(ids)
  <2>1. PICK i \in ids : e = [id |-> i, rule |-> pre[i]]
    BY <1>3
  <2> QED BY <2>1, <1>1
<1>5. \A i \in ids : [id |-> i, rule |-> pre[i]].rule = pre[i]
  OBVIOUS
<1> QED BY <1>2, <1>4, <1>5

LEMMA RequestBegins ==
    ASSUME ForwardsInv, windows = {}, NEW r \in Requests, Request(r)
    PROVE  ForwardsInv'
<1> DEFINE Good(q) ==
             q \in Operations /\ To(r, q) /\ OpOK(q) /\ TodoOK(q) /\ q.done = {} /\ q.pc # "out"
<1>0. ForwardsTypeOK /\ OpInv /\ Single(hosts) /\ Upheld
  BY DEF ForwardsInv
<1>t. pre \in Seq(Rules) /\ Len(pre) \in Nat /\ \A i \in 1..Len(pre) : pre[i] \in Rules
  BY <1>0, Elements DEF ForwardsTypeOK
<1>1. \E q : Good(q)
  <2>1. ASSUME NEW vm \in VMs, NEW keys \in {<<p>> : p \in Ports} \cup {Both},
               AddPortForward(r, vm, keys)
        PROVE  \E q : Good(q)
    <3> DEFINE f == Fresh("add", vm, "resolve")
               q == [f EXCEPT !.keys = keys]
    <3>1. f \in Operations /\ f.kind = "add" /\ f.vm = vm /\ f.pc = "resolve"
          /\ f.done = {} /\ f.todo = {} /\ ~ f.back
      BY FreshRequest
    <3>2. keys \in Seq(Ports) /\ keys # <<>>
      <4>1. Both \in Seq(Ports) /\ Len(Both) = 2
        BY ForwardsAssumption
      <4>2. Both # <<>> /\ \A p \in Ports : <<p>> \in Seq(Ports) /\ <<p>> # <<>>
        BY <4>1
      <4> QED BY <4>1, <4>2
    <3>3. To(r, q)
      BY <2>1 DEF AddPortForward
    <3> HIDE DEF f
    <3>4. q \in Operations /\ q.kind = "add" /\ q.vm = vm /\ q.pc = "resolve" /\ q.keys = keys
          /\ q.done = {} /\ q.todo = {} /\ ~ q.back
      BY <3>1, <3>2 DEF Operations
    <3> HIDE DEF q
    <3>5. OpOK(q) /\ TodoOK(q)
      BY <3>2, <3>4, OpKinds DEF OpOK, TodoOK
    <3> QED BY <3>3, <3>4, <3>5
  <2>2. ASSUME NEW id \in 1..Len(pre), NEW vm \in VMs, NEW p \in Ports,
               UpdatePortForward(r, id, vm, p)
        PROVE  \E q : Good(q)
    <3> DEFINE f == Fresh("update", vm, "resolve")
               e == [id |-> id, rule |-> pre[id]]
               q == [f EXCEPT !.keys = <<p>>, !.todo = {e}]
    <3>1. f \in Operations /\ f.kind = "update" /\ f.vm = vm /\ f.pc = "resolve"
          /\ f.done = {} /\ f.todo = {} /\ ~ f.back
      BY FreshRequest
    <3>2. <<p>> \in Seq(Ports) /\ <<p>> # <<>> /\ Len(<<p>>) = 1 /\ e \in [id : Nat, rule : Rules]
      BY <1>t
    <3>3. To(r, q)
      <4>1. Listed({id}) = {e}
        BY DEF Listed
      <4> QED BY <2>2, <4>1 DEF UpdatePortForward
    <3> HIDE DEF f
    <3>4. q \in Operations /\ q.kind = "update" /\ q.vm = vm /\ q.pc = "resolve" /\ q.keys = <<p>>
          /\ q.done = {} /\ q.todo = {e} /\ ~ q.back
      BY <3>1, <3>2 DEF Operations
    <3> HIDE DEF q
    <3>5. OpOK(q)
      <4>1. \E d \in q.todo : q.todo = {d}
        BY <3>4
      <4> HIDE DEF e
      <4> QED BY <3>2, <3>4, <4>1, OpKinds DEF OpOK
    <3>6. TodoOK(q)
      BY <3>4 DEF TodoOK
    <3> QED BY <3>3, <3>4, <3>5, <3>6
  <2>3. ASSUME NEW ids \in (SUBSET (1..Len(pre))) \ {{}}, DeletePortForwards(r, ids)
        PROVE  \E q : Good(q)
    <3> DEFINE f == Fresh("delete", None, "info")
               q == [f EXCEPT !.todo = Listed(ids)]
    <3>1. f \in Operations /\ f.kind = "delete" /\ f.vm = None /\ f.pc = "info"
          /\ f.done = {} /\ f.todo = {} /\ ~ f.back
      BY FreshRequest
    <3>2. Listed(ids) \subseteq [id : Nat, rule : Rules] /\ Listed(ids) # {}
          /\ \A e \in Listed(ids) : e.id \in 1..Len(pre) /\ pre[e.id] = e.rule
      <4>1. ids \in SUBSET (1..Len(pre)) /\ ids # {}
        OBVIOUS
      <4> QED BY <4>1, <1>t, ListedRules
    <3>3. To(r, q)
      BY <2>3 DEF DeletePortForwards
    <3> HIDE DEF f
    <3>4. q \in Operations /\ q.kind = "delete" /\ q.pc = "info"
          /\ q.done = {} /\ q.todo = Listed(ids) /\ ~ q.back
      BY <3>1, <3>2 DEF Operations
    <3> HIDE DEF q
    <3>5. OpOK(q) /\ TodoOK(q)
      BY <3>2, <3>4 DEF OpOK, TodoOK
    <3> QED BY <3>3, <3>4, <3>5
  <2>4. ASSUME NEW vm \in VMs, UnbindStaticIP(r, vm)
        PROVE  \E q : Good(q)
    <3> DEFINE q == Fresh("unbind", vm, "list")
    <3>1. q \in Operations /\ q.kind = "unbind" /\ q.vm = vm /\ q.pc = "list"
          /\ q.done = {} /\ q.todo = {} /\ ~ q.back
      BY FreshRequest
    <3>2. To(r, q)
      BY <2>4 DEF UnbindStaticIP
    <3> HIDE DEF q
    <3>3. OpOK(q) /\ TodoOK(q)
      BY <3>1, OpKinds DEF OpOK, TodoOK
    <3> QED BY <3>1, <3>2, <3>3
  <2>5. ASSUME NEW vm \in VMs, NEW ip \in Ips, BindStaticIP(r, vm, ip)
        PROVE  \E q : Good(q)
    <3> DEFINE f == Fresh("bind", vm, "list")
               q == [f EXCEPT !.ip = ip]
    <3>1. f \in Operations /\ f.kind = "bind" /\ f.vm = vm /\ f.pc = "list"
          /\ f.done = {} /\ f.todo = {} /\ ~ f.back
      BY FreshRequest
    <3>2. To(r, q)
      BY <2>5 DEF BindStaticIP
    <3> HIDE DEF f
    <3>4. q \in Operations /\ q.kind = "bind" /\ q.vm = vm /\ q.pc = "list" /\ q.ip = ip
          /\ q.done = {} /\ q.todo = {} /\ ~ q.back
      BY <3>1 DEF Operations
    <3> HIDE DEF q
    <3>5. OpOK(q) /\ TodoOK(q)
      BY <3>4, OpKinds DEF OpOK, TodoOK
    <3> QED BY <3>2, <3>4, <3>5
  <2> HIDE DEF Good
  <2> QED BY <2>1, <2>2, <2>3, <2>4, <2>5 DEF Request
<1>2. PICK q : Good(q)
  BY <1>1
<1>3. op[r] = None /\ UNCHANGED <<hosts, pre, out, script, meant, saver, faults, windows>>
  BY DEF Request
<1>4. Making(op[r]) = {} /\ ~ Pending(op[r]) /\ \A x : ~ Purging(op[r], x)
  BY <1>3 DEF Making, Begun, InBoth, Pending, Purging, Live
<1>5. hosts' \in Addresses /\ faults' \in 0..MaxFaults /\ Single(hosts')
  BY <1>0, <1>3 DEF ForwardsTypeOK
<1>6. \A x \in meant : \/ hosts'[x.vm] = x.ip
                       \/ \E p \in Requests \ {r} : Purging(op[p], x)
  BY <1>0, <1>3, <1>4 DEF LeadsHome, Upheld
<1>7. q \in OpStates
  BY <1>2 DEF OpStates
<1> QED BY <1>2, <1>3, <1>4, <1>5, <1>6, <1>7, QuietStep

LEMMA TargetIsResolved ==
    ASSUME ForwardsInv, windows = {}, NEW r \in Requests, ResolvePortForwardTargetIP(r)
    PROVE  ForwardsInv'
<1> DEFINE o == op[r]
<1>0. ForwardsTypeOK /\ OpInv /\ Single(hosts) /\ Upheld
  BY DEF ForwardsInv
<1>1. OpAt(r, "resolve") /\ UNCHANGED <<hosts, pre, out, script, meant, saver, faults, windows>>
  BY DEF ResolvePortForwardTargetIP
<1>2. o \in Operations /\ OpOK(o) /\ o.pc = "resolve" /\ Live(o)
  BY <1>0, <1>1, AtStep
<1>3. /\ o.kind \in {"add", "update"} /\ o.vm \in VMs /\ o.done = {} /\ ~ o.back
      /\ o.keys # <<>> /\ (o.kind = "add" => o.todo = {})
      /\ o.kind = "update" => Len(o.keys) = 1 /\ \E e \in o.todo : o.todo = {e}
  BY <1>2 DEF OpOK, Operations
<1>4. TodoOK(o)
  BY <1>0, <1>2 DEF Upheld, TodoInv
<1>5. Making(o) = {} /\ ~ Pending(o) /\ \A x : ~ Purging(o, x)
  BY <1>2, <1>3 DEF Making, Begun, InBoth, Pending, Purging
<1>6. \A x \in meant : hosts[x.vm] = x.ip \/ \E p \in Requests \ {r} : Purging(op[p], x)
  BY <1>0, <1>5 DEF LeadsHome, Upheld
<1>7. hosts' \in Addresses /\ faults' \in 0..MaxFaults /\ Single(hosts')
      /\ \A x \in meant : hosts'[x.vm] = x.ip \/ \E p \in Requests \ {r} : Purging(op[p], x)
  BY <1>0, <1>1, <1>6 DEF ForwardsTypeOK
<1>8. hosts \in [VMs -> Ips \cup {None}]
  BY <1>0 DEF ForwardsTypeOK, Addresses
<1>9. ASSUME NEW q \in OpStates, To(r, q),
             q \in Operations => OpOK(q) /\ TodoOK(q) /\ q.done = {} /\ q.pc # "out"
      PROVE  ForwardsInv'
  BY <1>1, <1>5, <1>7, <1>9, QuietStep
<1>10. ASSUME hosts[o.vm] # None, To(r, [o EXCEPT !.pc = Resolved(r), !.ip = hosts[o.vm]])
       PROVE  ForwardsInv'
  <2> DEFINE q == [o EXCEPT !.pc = Resolved(r), !.ip = hosts[o.vm]]
  <2>1. hosts[o.vm] \in Ips /\ Resolved(r) = IF o.kind = "update" THEN "info" ELSE "check"
    BY <1>3, <1>8, <1>10 DEF Resolved
  <2>2. /\ q \in Operations /\ q.kind = o.kind /\ q.vm = o.vm /\ q.keys = o.keys
        /\ q.done = {} /\ q.todo = o.todo /\ ~ q.back /\ q.ip # None
        /\ q.pc = IF o.kind = "update" THEN "info" ELSE "check"
    BY <2>1, <1>2, <1>3, OpKinds DEF Operations
  <2>3. To(r, q)
    BY <1>10
  <2> HIDE DEF q
  <2>4. OpOK(q) /\ TodoOK(q)
    BY <2>2, <1>3, <1>4, OpKinds DEF OpOK, TodoOK
  <2> QED BY <2>2, <2>3, <2>4, <1>9 DEF OpStates
<1>11. ASSUME NEW ip \in Ips, To(r, [o EXCEPT !.pc = "list", !.ip = ip])
       PROVE  ForwardsInv'
  <2> DEFINE q == [o EXCEPT !.pc = "list", !.ip = ip]
  <2>2. /\ q \in Operations /\ q.kind = o.kind /\ q.vm = o.vm /\ q.keys = o.keys
        /\ q.done = {} /\ q.todo = o.todo /\ ~ q.back /\ q.ip # None /\ q.pc = "list"
    BY <1>2, <1>3, OpKinds DEF Operations
  <2>3. To(r, q)
    BY <1>11
  <2> HIDE DEF q
  <2>4. OpOK(q) /\ TodoOK(q)
    BY <2>2, <1>3, <1>4, OpKinds DEF OpOK, TodoOK
  <2> QED BY <2>2, <2>3, <2>4, <1>9 DEF OpStates
<1>12. ASSUME To(r, Done) PROVE ForwardsInv'
  BY <1>9, <1>12, OpKinds DEF OpStates
<1> QED BY <1>10, <1>11, <1>12 DEF ResolvePortForwardTargetIP, End

LEMMA FileIsRead ==
    ASSUME ForwardsInv, windows = {}, NEW r \in Requests, ListVPCStaticHosts(r)
    PROVE  ForwardsInv'
<1> DEFINE o == op[r]
           q == [o EXCEPT !.pc = "write", !.list = hosts]
<1>0. ForwardsTypeOK /\ OpInv /\ Single(hosts) /\ Upheld
  BY DEF ForwardsInv
<1>1. OpAt(r, "list") /\ UNCHANGED <<hosts, pre, out, script, meant, saver, faults, windows>>
  BY DEF ListVPCStaticHosts
<1>2. o \in Operations /\ OpOK(o) /\ o.pc = "list" /\ Live(o)
  BY <1>0, <1>1, AtStep
<1>3. /\ o.kind # "delete" /\ o.vm \in VMs /\ (o.kind = "unbind" \/ o.ip # None)
      /\ o.done = {} /\ ~ o.back
      /\ o.kind \in {"add", "bind", "unbind"} => o.todo = {}
      /\ o.kind \in {"add", "update"} => o.keys # <<>>
      /\ o.kind = "update" => Len(o.keys) = 1 /\ \E e \in o.todo : o.todo = {e}
  BY <1>2 DEF OpOK, Operations
<1>4. TodoOK(o)
  BY <1>0, <1>2 DEF Upheld, TodoInv
<1>5. Making(o) = {} /\ ~ Pending(o) /\ \A x : ~ Purging(o, x)
  BY <1>2, <1>3 DEF Making, Begun, InBoth, Pending, Purging
<1>6. \A x \in meant : hosts[x.vm] = x.ip \/ \E p \in Requests \ {r} : Purging(op[p], x)
  BY <1>0, <1>5 DEF LeadsHome, Upheld
<1>7. hosts' \in Addresses /\ faults' \in 0..MaxFaults /\ Single(hosts')
      /\ \A x \in meant : hosts'[x.vm] = x.ip \/ \E p \in Requests \ {r} : Purging(op[p], x)
  BY <1>0, <1>1, <1>6 DEF ForwardsTypeOK
<1>9. ASSUME NEW t \in OpStates, To(r, t),
             t \in Operations => OpOK(t) /\ TodoOK(t) /\ t.done = {} /\ t.pc # "out"
      PROVE  ForwardsInv'
  BY <1>1, <1>5, <1>7, <1>9, QuietStep
<1>10. ASSUME To(r, Done) PROVE ForwardsInv'
  BY <1>9, <1>10, OpKinds DEF OpStates
<1>11. ASSUME To(r, q),
              ~ IF o.kind = "unbind" THEN hosts[o.vm] = None
                ELSE \E v \in VMs \ {o.vm} : hosts[v] = o.ip
       PROVE  ForwardsInv'
  <2>1. hosts \in Addresses /\ hosts # None
    BY <1>0, ForwardsAssumption DEF ForwardsTypeOK
  <2>2. /\ q \in Operations /\ q.kind = o.kind /\ q.vm = o.vm /\ q.keys = o.keys /\ q.ip = o.ip
        /\ q.done = {} /\ q.todo = o.todo /\ ~ q.back /\ q.pc = "write" /\ q.list = hosts
    BY <2>1, <1>2, <1>3 DEF Operations
  <2>3. To(r, q)
    BY <1>11
  <2> HIDE DEF q
  <2>4. OpOK(q)
    BY <2>1, <2>2, <1>0, <1>3, <1>11, OpKinds DEF OpOK
  <2>5. TodoOK(q)
    BY <2>2, <1>4 DEF TodoOK
  <2> QED BY <2>2, <2>3, <2>4, <2>5, <1>9 DEF OpStates
<1> QED BY <1>10, <1>11 DEF ListVPCStaticHosts, End

LEMMA FileIsWritten ==
    ASSUME ForwardsInv, windows = {}, NEW r \in Requests,
           UpsertVPCStaticHost(r) \/ RemoveVPCStaticHost(r)
    PROVE  ForwardsInv'
<1> DEFINE o == op[r]
           ip == IF o.kind = "unbind" THEN None ELSE o.ip
<1>0. ForwardsTypeOK /\ OpInv /\ Single(hosts) /\ Upheld
  BY DEF ForwardsInv
<1>1. /\ OpAt(r, "write") /\ UNCHANGED <<pre, out, script, meant, saver, faults>>
      /\ hosts' = [o.list EXCEPT ![o.vm] = ip]
      /\ windows' = {} => hosts = o.list
  BY DEF UpsertVPCStaticHost, RemoveVPCStaticHost, Window
<1>2. o \in Operations /\ OpOK(o) /\ o.pc = "write" /\ Live(o)
  BY <1>0, <1>1, AtStep
<1>3. /\ o.kind # "delete" /\ o.vm \in VMs /\ (o.kind = "unbind" \/ o.ip # None)
      /\ o.done = {} /\ ~ o.back
      /\ o.kind \in {"add", "bind", "unbind"} => o.todo = {}
      /\ o.kind \in {"add", "update"} => o.keys # <<>>
      /\ o.kind = "update" => Len(o.keys) = 1 /\ \E e \in o.todo : o.todo = {e}
      /\ o.list # None /\ Single(o.list)
      /\ IF o.kind = "unbind" THEN o.list[o.vm] # None
                              ELSE \A v \in VMs \ {o.vm} : o.list[v] # o.ip
  BY <1>2 DEF OpOK, Operations
<1>4. TodoOK(o)
  BY <1>0, <1>2 DEF Upheld, TodoInv
<1>5. Making(o) = {} /\ ~ Pending(o) /\ \A x : ~ Purging(o, x)
  BY <1>2, <1>3 DEF Making, Begun, InBoth, Pending, Purging
<1>6. o.list \in [VMs -> Ips \cup {None}] /\ ip \in Ips \cup {None}
  BY <1>2, <1>3 DEF Operations, Addresses
<1>7. hosts' \in Addresses /\ faults' \in 0..MaxFaults
  BY <1>0, <1>1, <1>6 DEF ForwardsTypeOK, Addresses
<1>8. Single(hosts')
  <2>1. hosts'[o.vm] = ip /\ \A v \in VMs \ {o.vm} : hosts'[v] = o.list[v]
    BY <1>1, <1>3, <1>6
  <2>2. ip # None => \A v \in VMs \ {o.vm} : o.list[v] # ip
    BY <1>3
  <2> HIDE DEF ip
  <2> QED BY <2>1, <2>2, <1>3 DEF Single
<1>9. ASSUME windows' = {}, NEW x \in meant, x.vm # o.vm
      PROVE  hosts'[x.vm] = x.ip \/ \E p \in Requests \ {r} : Purging(op[p], x)
  <2>1. hosts[x.vm] = x.ip \/ \E p \in Requests \ {r} : Purging(op[p], x)
    BY <1>0, <1>5 DEF LeadsHome, Upheld
  <2>2. x.vm \in VMs
    BY <1>0 DEF ForwardsTypeOK, Rules
  <2> QED BY <2>1, <2>2, <1>1, <1>3, <1>6, <1>9
<1>10. ASSUME UpsertVPCStaticHost(r) PROVE ForwardsInv'
  <2> DEFINE t == [o EXCEPT !.pc = Resolved(r), !.list = None]
  <2>1. /\ o.kind # "unbind" /\ (windows' = {} => ~ Used(o.vm, o.ip))
        /\ IF o.kind = "bind" THEN To(r, Done) ELSE To(r, t)
    BY <1>10 DEF UpsertVPCStaticHost, End
  <2>2. ASSUME windows' = {}, NEW x \in meant, x.vm = o.vm PROVE hosts'[x.vm] = x.ip
    <3>1. x \in ToSet(pre)
      BY <1>0 DEF ForwardsTypeOK, Upheld, ChainInv
    <3>2. PICK i \in 1..Len(pre) : pre[i] = x
      BY <3>1, <1>0, Elements DEF ForwardsTypeOK
    <3>3. x.ip = o.ip
      BY <2>1, <2>2, <3>2 DEF Used
    <3> QED BY <2>1, <2>2, <3>3, <1>1, <1>3, <1>6
  <2>3. windows' = {} => \A x \in meant :
             hosts'[x.vm] = x.ip \/ \E p \in Requests \ {r} : Purging(op[p], x)
    BY <2>2, <1>9
  <2>4. ASSUME NEW q \in OpStates, To(r, q),
               q \in Operations => OpOK(q) /\ TodoOK(q) /\ q.done = {} /\ q.pc # "out"
        PROVE  ForwardsInv'
    BY <2>3, <2>4, <1>1, <1>5, <1>7, <1>8, QuietStep
  <2>5. CASE o.kind = "bind"
    BY <2>1, <2>4, <2>5, OpKinds DEF OpStates
  <2>6. CASE o.kind # "bind"
    <3>1. /\ o.kind \in {"add", "update"}
          /\ Resolved(r) = IF o.kind = "update" THEN "info" ELSE "check"
      BY <2>1, <2>6, <1>2, <1>3 DEF Resolved, Operations
    <3>2. /\ t \in Operations /\ t.kind = o.kind /\ t.vm = o.vm /\ t.keys = o.keys
          /\ t.done = {} /\ t.todo = o.todo /\ ~ t.back /\ t.ip = o.ip
          /\ t.pc = IF o.kind = "update" THEN "info" ELSE "check"
      BY <3>1, <1>2, <1>3 DEF Operations
    <3>3. To(r, t)
      BY <2>1, <2>6
    <3> HIDE DEF t
    <3>4. OpOK(t) /\ TodoOK(t)
      BY <2>1, <3>1, <3>2, <1>3, <1>4, OpKinds DEF OpOK, TodoOK
    <3> QED BY <3>2, <3>3, <3>4, <2>4 DEF OpStates
  <2> QED BY <2>5, <2>6
<1>11. ASSUME RemoveVPCStaticHost(r) PROVE ForwardsInv'
  <2> DEFINE t == [o EXCEPT !.pc = "purge", !.ip = o.list[o.vm], !.list = None]
  <2>1. o.kind = "unbind" /\ To(r, t)
    BY <1>11 DEF RemoveVPCStaticHost
  <2>2. o.list[o.vm] \in Ips
    BY <2>1, <1>3, <1>6
  <2>3. /\ t \in Operations /\ t.kind = "unbind" /\ t.vm = o.vm /\ t.done = {} /\ t.todo = o.todo
        /\ ~ t.back /\ t.ip = o.list[o.vm] /\ t.pc = "purge"
    BY <2>1, <2>2, <1>2, <1>3 DEF Operations
  <2> HIDE DEF t
  <2>4. OpOK(t) /\ TodoOK(t) /\ Live(t)
    BY <2>1, <2>2, <2>3, <1>3, <1>4, OpKinds DEF OpOK, TodoOK, OpStates
  <2>5. ASSUME windows' = {}, NEW x \in meant
        PROVE  \/ hosts'[x.vm] = x.ip \/ Purging(t, x)
               \/ \E p \in Requests \ {r} : Purging(op[p], x)
    <3>1. CASE x.vm # o.vm
      BY <3>1, <2>5, <1>9
    <3>2. CASE x.vm = o.vm
      <4>1. hosts[x.vm] = x.ip \/ \E p \in Requests \ {r} : Purging(op[p], x)
        BY <1>0, <1>5 DEF LeadsHome, Upheld
      <4>2. hosts[x.vm] = x.ip => Purging(t, x)
        BY <3>2, <2>3, <2>4, <2>5, <1>1 DEF Purging
      <4> QED BY <4>1, <4>2
    <3> QED BY <3>1, <3>2
  <2>6. t \in OpStates
    BY <2>3 DEF OpStates
  <2> QED BY <2>1, <2>3, <2>4, <2>5, <2>6, <1>1, <1>5, <1>7, <1>8, QuietStep
<1> QED BY <1>10, <1>11

LEMMA AddressIsPurged ==
    ASSUME ForwardsInv, windows = {}, NEW r \in Requests, RemovePortForwardsForIP(r)
    PROVE  ForwardsInv'
<1> DEFINE o == op[r]
           ids == {i \in 1..Len(pre) : pre[i].ip = o.ip}
           t == [o EXCEPT !.pc = "info", !.todo = Listed(ids)]
<1>0. ForwardsTypeOK /\ OpInv /\ Single(hosts) /\ Upheld
  BY DEF ForwardsInv
<1>1. /\ OpAt(r, "purge") /\ UNCHANGED <<hosts, pre, out, script, meant, saver, faults>>
      /\ IF ids = {} THEN To(r, Done) ELSE To(r, t)
  BY DEF RemovePortForwardsForIP, End
<1>2. o \in Operations /\ OpOK(o) /\ o.pc = "purge" /\ Live(o)
  BY <1>0, <1>1, AtStep
<1>3. o.kind = "unbind" /\ o.vm # None /\ o.ip # None /\ o.done = {} /\ ~ o.back
  BY <1>2 DEF OpOK
<1>4. pre \in Seq(Rules)
  BY <1>0 DEF ForwardsTypeOK
<1> HIDE DEF ids
<1>5. ids \in SUBSET (1..Len(pre))
  BY DEF ids
<1>6. /\ Listed(ids) \subseteq [id : Nat, rule : Rules]
      /\ \A e \in Listed(ids) : e.id \in 1..Len(pre) /\ pre[e.id] = e.rule
      /\ ids # {} => Listed(ids) # {}
      /\ \A i \in ids : \E e \in Listed(ids) : e.rule = pre[i]
  BY <1>4, <1>5, ListedRules
<1>7. Making(o) = {} /\ ~ Pending(o)
  BY <1>2, <1>3 DEF Making, Begun, InBoth, Pending
<1>8. ASSUME NEW x \in meant, Purging(o, x)
      PROVE  \E e \in Listed(ids) : e.rule = x
  <2>1. x \in ToSet(pre)
    BY <1>0 DEF ForwardsTypeOK, Upheld, ChainInv
  <2>2. PICK i \in 1..Len(pre) : pre[i] = x
    BY <2>1, <1>4, Elements
  <2>3. i \in ids
    BY <2>2, <1>8 DEF Purging, ids
  <2> QED BY <2>2, <2>3, <1>6
<1>9. \A x \in meant : hosts[x.vm] = x.ip \/ Purging(o, x)
                       \/ \E p \in Requests \ {r} : Purging(op[p], x)
  BY <1>0 DEF LeadsHome, Upheld
<1>10. hosts' \in Addresses /\ faults' \in 0..MaxFaults /\ Single(hosts')
  BY <1>0, <1>1 DEF ForwardsTypeOK
<1>11. CASE ids = {}
  <2>1. \A x \in meant : ~ Purging(o, x)
    BY <1>8, <1>11 DEF Listed
  <2>2. \A x \in meant : hosts'[x.vm] = x.ip \/ \E p \in Requests \ {r} : Purging(op[p], x)
    BY <2>1, <1>1, <1>9
  <2>3. To(r, Done) /\ Done \in OpStates /\ Done \notin Operations
    BY <1>1, <1>11, OpKinds DEF OpStates
  <2> QED BY <2>2, <2>3, <1>1, <1>7, <1>10, QuietStep
<1>12. CASE ids # {}
  <2>1. /\ t \in Operations /\ t.kind = "unbind" /\ t.vm = o.vm /\ t.done = {}
        /\ t.todo = Listed(ids) /\ ~ t.back /\ t.ip = o.ip /\ t.pc = "info"
    BY <1>2, <1>3, <1>6 DEF Operations
  <2>2. To(r, t)
    BY <1>1, <1>12
  <2> HIDE DEF t
  <2>3. OpOK(t) /\ TodoOK(t)
    BY <2>1, <1>3, <1>6, <1>12 DEF OpOK, TodoOK
  <2>4. Live(t) /\ t \in OpStates
    BY <2>1, OpKinds DEF OpStates
  <2>5. \A x \in meant : Purging(o, x) => Purging(t, x)
    BY <2>1, <2>4, <1>8 DEF Purging
  <2>6. \A x \in meant : \/ hosts'[x.vm] = x.ip \/ Purging(t, x)
                         \/ \E p \in Requests \ {r} : Purging(op[p], x)
    BY <2>5, <1>1, <1>9
  <2> QED BY <2>1, <2>2, <2>3, <2>4, <2>6, <1>1, <1>7, <1>10, QuietStep
<1> QED BY <1>11, <1>12

LEMMA RuleIsRead ==
    ASSUME ForwardsInv, windows = {}, NEW r \in Requests, ReadRule(r)
    PROVE  ForwardsInv'
<1> DEFINE o == op[r]
           e == Descending(o.todo)
           t == [o EXCEPT !.pc = "drop", !.info = pre[e.id]]
<1>0. ForwardsTypeOK /\ OpInv /\ Single(hosts) /\ Upheld
  BY DEF ForwardsInv
<1>1. /\ OpAt(r, "info") /\ UNCHANGED <<hosts, pre, out, script, meant, saver, faults, windows>>
      /\ IF e.id \in 1..Len(pre) THEN To(r, t) ELSE To(r, Done)
  BY DEF ReadRule, End
<1>2. o \in Operations /\ OpOK(o) /\ o.pc = "info" /\ Live(o)
  BY <1>0, <1>1, AtStep
<1>3. /\ o.kind \in {"update", "delete", "unbind"} /\ o.todo # {} /\ o.done = {} /\ ~ o.back
      /\ o.kind = "update" =>
           Len(o.keys) = 1 /\ o.keys # <<>> /\ o.vm # None /\ \E d \in o.todo : o.todo = {d}
      /\ o.kind # "delete" => o.ip # None
      /\ o.todo \subseteq [id : Nat, rule : Rules]
  BY <1>2 DEF OpOK, Operations
<1>4. TodoOK(o)
  BY <1>0, <1>2 DEF Upheld, TodoInv
<1>5. pre \in Seq(Rules) /\ Len(pre) \in Nat
  BY <1>0, Elements DEF ForwardsTypeOK
<1>6. e \in o.todo
  <2>1. \A d \in o.todo : d.id =< Len(pre)
    BY <1>4, <1>5 DEF TodoOK
  <2> QED BY <2>1, <1>3, <1>5, LastListed
<1> HIDE DEF e
<1>7. e.id \in 1..Len(pre) /\ pre[e.id] = e.rule /\ e.rule \in Rules
  BY <1>3, <1>4, <1>6 DEF TodoOK
<1>8. /\ t \in Operations /\ t.kind = o.kind /\ t.vm = o.vm /\ t.ip = o.ip /\ t.keys = o.keys
      /\ t.done = {} /\ t.todo = o.todo /\ ~ t.back /\ t.pc = "drop" /\ t.info = e.rule
  BY <1>2, <1>3, <1>7 DEF Operations
<1>9. To(r, t)
  BY <1>1, <1>7
<1> HIDE DEF t
<1>10. OpOK(t)
  BY <1>3, <1>7, <1>8, OpKinds DEF OpOK
<1>11. TodoOK(t)
  BY <1>4, <1>8 DEF TodoOK, e
<1>12. Making(o) = {} /\ (Pending(o) => Pending(t))
  BY <1>2, <1>3, <1>8, OpKinds DEF Making, Begun, InBoth, Pending, OpStates
<1>13. \A x : Purging(o, x) => Purging(t, x)
  BY <1>2, <1>3, <1>8, OpKinds DEF Purging, OpStates
<1>14. \A x \in meant : \/ hosts'[x.vm] = x.ip \/ Purging(t, x)
                        \/ \E p \in Requests \ {r} : Purging(op[p], x)
  BY <1>0, <1>1, <1>13 DEF LeadsHome, Upheld
<1>15. hosts' \in Addresses /\ faults' \in 0..MaxFaults /\ Single(hosts') /\ t \in OpStates
  BY <1>0, <1>1, <1>8 DEF ForwardsTypeOK, OpStates
<1> QED BY <1>1, <1>8, <1>9, <1>10, <1>11, <1>12, <1>14, <1>15, QuietStep

(* A request that makes a rule and fails ends, or makes the old rule again.*)
LEMMA FailsWith ==
    ASSUME NEW r \in Requests, op[r] \in Operations, OpOK(op[r]),
           op[r].pc \in {"check", "pre", "out"}, Failed(r)
    PROVE  \E q \in OpStates :
             /\ To(r, q)
             /\ q \in Operations => OpOK(q) /\ q.done = {} /\ q.todo = {} /\ q.pc = "check"
             /\ op[r].kind = "update" /\ ~ op[r].back => Pending(q)
             /\ \A x : ~ Purging(q, x)
<1> DEFINE o == op[r]
           old == o.info
           t == [o EXCEPT !.pc = "check", !.back = TRUE, !.done = {},
                          !.vm = old.vm, !.ip = old.ip, !.keys = <<old.port>>]
<1>1. CASE o.kind = "update" /\ ~ o.back
  <2>1. old \in Rules /\ o.todo = {}
    BY <1>1 DEF OpOK, Operations
  <2>2. old.vm \in VMs /\ old.ip \in Ips /\ <<old.port>> \in Seq(Ports)
        /\ <<old.port>> # <<>> /\ Len(<<old.port>>) = 1
    BY <2>1 DEF Rules
  <2>3. /\ t \in Operations /\ t.kind = "update" /\ t.pc = "check" /\ t.back /\ t.done = {}
        /\ t.vm = old.vm /\ t.ip = old.ip /\ t.keys = <<old.port>> /\ t.todo = {} /\ t.info = old
    BY <1>1, <2>1, <2>2 DEF Operations
  <2>4. To(r, t)
    BY <1>1 DEF Failed
  <2> HIDE DEF t
  <2>5. OpOK(t)
    BY <2>1, <2>2, <2>3, OpKinds DEF OpOK
  <2>6. t \in OpStates /\ Pending(t) /\ \A x : ~ Purging(t, x)
    BY <2>3, OpKinds DEF OpStates, Pending, Purging
  <2> QED BY <2>3, <2>4, <2>5, <2>6
<1>2. CASE ~ (o.kind = "update" /\ ~ o.back)
  <2>1. To(r, Done) /\ Done \in OpStates /\ Done \notin Operations /\ \A x : ~ Purging(Done, x)
    BY <1>2, OpKinds DEF Failed, End, OpStates, Purging, Live
  <2> QED BY <2>1, <1>2
<1> QED BY <1>1, <1>2

LEMMA PortIsChecked ==
    ASSUME ForwardsInv, windows = {}, NEW r \in Requests, IsPortAvailable(r)
    PROVE  ForwardsInv'
<1> DEFINE o == op[r]
           t == [o EXCEPT !.pc = "pre"]
           taken == \E i \in 1..Len(o.keys) : Taken(o.keys[i])
<1>0. ForwardsTypeOK /\ OpInv /\ Single(hosts) /\ Upheld
  BY DEF ForwardsInv
<1>1. /\ OpAt(r, "check") /\ UNCHANGED <<hosts, pre, out, script, meant, saver, faults>>
      /\ IF taken THEN Failed(r) ELSE To(r, t)
      /\ windows' = {} => ~ (taken /\ o.back)
  BY DEF IsPortAvailable, OpGo, Window
<1> HIDE DEF taken
<1>2. o \in Operations /\ OpOK(o) /\ o.pc = "check" /\ Live(o)
  BY <1>0, <1>1, AtStep
<1>3. /\ o.kind \in {"add", "update"} /\ o.todo = {} /\ o.done = {} /\ o.ip # None
      /\ o.keys # <<>> /\ o.vm # None /\ (o.kind = "add" => ~ o.back)
      /\ o.kind = "update" => Len(o.keys) = 1 /\ o.info # None
  BY <1>2 DEF OpOK
<1>4. Making(o) = {} /\ (Pending(o) => o.back) /\ \A x : ~ Purging(o, x)
  BY <1>2, <1>3 DEF Making, Begun, InBoth, Pending, Purging
<1>5. \A x \in meant : hosts'[x.vm] = x.ip \/ \E p \in Requests \ {r} : Purging(op[p], x)
  BY <1>0, <1>1, <1>4 DEF LeadsHome, Upheld
<1>6. hosts' \in Addresses /\ faults' \in 0..MaxFaults /\ Single(hosts')
  BY <1>0, <1>1 DEF ForwardsTypeOK
<1>7. CASE taken
  <2>1. PICK q \in OpStates :
             /\ To(r, q)
             /\ q \in Operations => OpOK(q) /\ q.done = {} /\ q.todo = {} /\ q.pc = "check"
    BY <1>1, <1>2, <1>7, FailsWith
  <2>2. q \in Operations => TodoOK(q)
    BY <2>1 DEF TodoOK
  <2>3. windows' = {} => ~ Pending(o)
    BY <1>1, <1>4, <1>7
  <2> QED BY <2>1, <2>2, <2>3, <1>1, <1>4, <1>5, <1>6, QuietStep
<1>8. CASE ~ taken
  <2>1. /\ t \in Operations /\ t.kind = o.kind /\ t.vm = o.vm /\ t.ip = o.ip /\ t.keys = o.keys
        /\ t.done = {} /\ t.todo = {} /\ t.back = o.back /\ t.pc = "pre" /\ t.info = o.info
    BY <1>2, <1>3 DEF Operations
  <2>2. To(r, t)
    BY <1>1, <1>8
  <2> HIDE DEF t
  <2>3. OpOK(t) /\ TodoOK(t)
    BY <2>1, <1>3 DEF OpOK, TodoOK
  <2>4. t \in OpStates /\ (Pending(o) => Pending(t))
    BY <2>1, <1>4, OpKinds DEF OpStates, Pending
  <2> QED BY <2>1, <2>2, <2>3, <2>4, <1>1, <1>4, <1>5, <1>6, QuietStep
<1> QED BY <1>7, <1>8

(* A saver is let go: it has all of the chains still to read.              *)
LEMMA SaverStarts ==
    ASSUME ForwardsTypeOK, SavePortForwardRules
    PROVE  /\ saver' \in [Savers -> Savings \cup {None}]
           /\ SaverInv /\ UNCHANGED script => SaverInv'
           /\ InSync'
<1> DEFINE Free(x) == saver[x] = None /\ \A y \in 1..x-1 : saver[y] # None
           s == CHOOSE x \in Savers : Free(x)
           new == [pc |-> "start", pre |-> <<>>, out |-> {}, before |-> {}, old |-> FALSE]
           T == {x \in Savers : saver[x] = None}
<1>1. T \subseteq Nat /\ T # {}
  BY ForwardsAssumption DEF SavePortForwardRules
<1>2. PICK n \in T : \A m \in T : n =< m
  BY <1>1, LeastNat
<1>3. n \in Savers /\ Free(n)
  <2>1. \A y \in 1..n-1 : y \in Savers /\ y \notin T
    <3> TAKE y \in 1..n-1
    <3>1. n \in 1..Cardinality(Savers) /\ Cardinality(Savers) \in Nat
      BY ForwardsAssumption
    <3>2. y \in Savers /\ ~ (n =< y)
      BY <3>1, ForwardsAssumption
    <3> HIDE DEF T
    <3> QED BY <3>2, <1>2
  <2> QED BY <2>1
<1>4. s \in Savers /\ Free(s)
  <2> HIDE DEF Free
  <2> QED BY <1>3
<1>5. saver' = [saver EXCEPT ![s] = new]
  BY DEF SavePortForwardRules
<1> HIDE DEF s
<1>6. saver \in [Savers -> Savings \cup {None}]
  BY DEF ForwardsTypeOK
<1>7. /\ new \in Savings /\ new.pc = "start" /\ new.pre = <<>> /\ new.before = {} /\ ~ new.old
      /\ new # None
  <2>1. <<>> \in Seq(Rules)
    OBVIOUS
  <2>2. new \in Savings
    BY <2>1 DEF Savings
  <2> QED BY <2>2, OpKinds
<1> HIDE DEF new
<1>8. PICK k \in Savers :
        /\ saver' \in [Savers -> Savings \cup {None}]
        /\ saver[k] = None /\ saver'[k] = new
        /\ \A t \in Savers \ {k} : saver'[t] = saver[t]
  BY <1>4, <1>5, <1>6, <1>7
<1>9. ASSUME SaverInv, UNCHANGED script PROVE SaverInv'
  <2>1. \A t \in Savers : saver'[t] # None =>
             Distinct(saver'[t].pre) /\ (saver'[t].pc = "start" => ~ saver'[t].old)
    BY <1>7, <1>8, <1>9 DEF SaverInv, Distinct
  <2>2. ASSUME NEW t \in Savers, NEW u \in Savers, saver'[u] # None, t \in saver'[u].before
        PROVE  saver'[t] # None /\ saver'[t].pc # "start" /\ t # u /\ u \notin saver'[t].before
    <3>1. u # k
      BY <1>7, <1>8, <2>2
    <3>2. saver'[u] = saver[u]
      BY <3>1, <1>8
    <3>3. Reading(t) /\ t # u /\ u \notin saver[t].before
      BY <3>2, <2>2, <1>9 DEF SaverInv
    <3>4. t # k
      BY <3>3, <1>8 DEF Reading
    <3> QED BY <3>3, <3>4, <1>8 DEF Reading
  <2>3. Distinct(script'.pre)
    BY <1>9 DEF SaverInv
  <2> QED BY <2>1, <2>2, <2>3 DEF SaverInv, Reading
<1>10. InSync'
  <2>1. Starting(k)'
    BY <1>7, <1>8 DEF Starting
  <2> QED BY <2>1 DEF InSync
<1> QED BY <1>8, <1>9, <1>10

(* What a request does after it deleted a rule.                            *)
LEMMA RestOfRequest ==
    ASSUME NEW r \in Requests, op[r] \in Operations, OpOK(op[r]), op[r].pc = "drop",
           Descending(op[r].todo) \in op[r].todo
    PROVE  LET o == op[r]
               e == Descending(o.todo)
               q == Rest(r) IN
           /\ q \in OpStates
           /\ q \in Operations =>
                /\ OpOK(q) /\ q.done = {} /\ q.pc \in {"info", "check"}
                /\ q.todo \subseteq o.todo \ {e}
           /\ o.kind = "unbind" /\ q # Done => Pending(q)
           /\ \A x : Purging(o, x) /\ x # e.rule => Purging(q, x)
<1> DEFINE o == op[r]
           e == Descending(o.todo)
           rest == [o EXCEPT !.todo = @ \ {e}, !.info = None]
<1> HIDE DEF e
<1>1. /\ o.kind \in {"update", "delete", "unbind"} /\ o.done = {} /\ ~ o.back /\ o.info # None
      /\ o.kind = "update" =>
           /\ Len(o.keys) = 1 /\ o.keys # <<>> /\ o.vm # None
           /\ \E d \in o.todo : o.todo = {d}
      /\ o.kind # "delete" => o.ip # None
      /\ o.todo \subseteq [id : Nat, rule : Rules]
  BY DEF OpOK, Operations
<1>2. /\ rest \in Operations /\ rest.kind = o.kind /\ rest.vm = o.vm /\ rest.ip = o.ip
      /\ rest.keys = o.keys /\ rest.done = {} /\ ~ rest.back /\ rest.todo = o.todo \ {e}
      /\ rest.info = None
  BY <1>1 DEF Operations
<1> HIDE DEF rest
<1> DEFINE q1 == [rest EXCEPT !.pc = "info"]
           q2 == [rest EXCEPT !.pc = "check", !.info = o.info]
<1>3. Rest(r) = CASE rest.todo # {}     -> q1
                  [] o.kind = "update" -> q2
                  [] OTHER             -> Done
  BY DEF Rest, e, rest
<1>4. o.kind = "update" => rest.todo = {}
  BY <1>1, <1>2 DEF e
<1>5. /\ q1 \in Operations /\ q1.kind = o.kind /\ q1.vm = o.vm /\ q1.ip = o.ip
      /\ q1.keys = o.keys /\ q1.done = {} /\ ~ q1.back /\ q1.todo = o.todo \ {e} /\ q1.pc = "info"
  <2>1. q1 \in Operations
    BY <1>2 DEF Operations
  <2>2. /\ q1.kind = o.kind /\ q1.vm = o.vm /\ q1.ip = o.ip /\ q1.keys = o.keys
        /\ q1.done = {} /\ q1.todo = o.todo \ {e} /\ q1.pc = "info"
    BY <1>2 DEF Operations
  <2>3. ~ q1.back
    BY <1>2 DEF Operations
  <2> QED BY <2>1, <2>2, <2>3
<1>6. /\ q2 \in Operations /\ q2.kind = o.kind /\ q2.vm = o.vm /\ q2.ip = o.ip
      /\ q2.keys = o.keys /\ q2.done = {} /\ ~ q2.back /\ q2.todo = o.todo \ {e} /\ q2.pc = "check"
      /\ q2.info = o.info
  BY <1>1, <1>2 DEF Operations
<1> HIDE DEF q1, q2
<1>7. CASE rest.todo # {}
  <2>1. Rest(r) = q1 /\ o.kind # "update"
    BY <1>3, <1>4, <1>7
  <2>2. OpOK(q1)
    BY <2>1, <1>1, <1>2, <1>5, <1>7 DEF OpOK
  <2>3. q1 \in OpStates /\ Live(q1)
    BY <1>5, OpKinds DEF OpStates
  <2>4. o.kind = "unbind" => Pending(q1)
    BY <2>3, <1>5 DEF Pending
  <2>5. \A x : Purging(o, x) /\ x # e.rule => Purging(q1, x)
    BY <2>3, <1>5 DEF Purging
  <2> QED BY <2>1, <2>2, <2>3, <2>4, <2>5, <1>5 DEF e
<1>8. CASE rest.todo = {}
  <2>1. \A x : Purging(o, x) => x = e.rule
    BY <1>2, <1>8 DEF Purging
  <2>2. CASE o.kind = "update"
    <3>1. Rest(r) = q2
      BY <2>2, <1>3, <1>8
    <3>2. OpOK(q2)
      BY <2>2, <1>1, <1>2, <1>6, <1>8 DEF OpOK
    <3>3. q2 \in OpStates
      BY <1>6 DEF OpStates
    <3> QED BY <2>1, <2>2, <3>1, <3>2, <3>3, <1>6 DEF e
  <2>3. CASE o.kind # "update"
    <3>1. Rest(r) = Done
      BY <2>3, <1>3, <1>8
    <3> QED BY <2>1, <3>1, OpKinds DEF OpStates, e
  <2> QED BY <2>2, <2>3
<1> QED BY <1>7, <1>8

LEMMA RuleIsDeleted ==
    ASSUME ForwardsInv, windows = {}, NEW r \in Requests, deletePortForwardWithOptions(r)
    PROVE  ForwardsInv'
<1> DEFINE o == op[r]
           e == Descending(o.todo)
           q == Rest(r)
<1>0. ForwardsTypeOK /\ OpInv /\ Single(hosts) /\ Upheld
  BY DEF ForwardsInv
<1>1. /\ OpAt(r, "drop") /\ To(r, q) /\ UNCHANGED <<hosts, script, faults>>
      /\ pre' = IF e.id \in 1..Len(pre) THEN RemoveAt(pre, e.id) ELSE pre
      /\ out' = out \ {o.info} /\ meant' = meant \ {e.rule}
      /\ windows' = {} => ~ Shifts(r, e.id) /\ ~ Unfinished(r, o.info)
      /\ (o.kind = "unbind" /\ q # Done /\ UNCHANGED saver) \/ SavePortForwardRules
  BY DEF deletePortForwardWithOptions, Drop
<1>2. o \in Operations /\ OpOK(o) /\ o.pc = "drop" /\ Live(o)
  BY <1>0, <1>1, AtStep
<1>3. o.todo # {} /\ o.done = {} /\ o.todo \subseteq [id : Nat, rule : Rules]
  BY <1>2 DEF OpOK, Operations
<1>4. TodoOK(o)
  BY <1>0, <1>2 DEF Upheld, TodoInv
<1>5. pre \in Seq(Rules) /\ Len(pre) \in Nat /\ out \subseteq Rules /\ meant \subseteq Rules
      /\ \A i \in 1..Len(pre) : pre[i] \in ToSet(pre)
  BY <1>0, Elements DEF ForwardsTypeOK
<1>6. e \in o.todo /\ \A d \in o.todo : d.id =< e.id
  <2>1. \A d \in o.todo : d.id =< Len(pre)
    BY <1>4, <1>5 DEF TodoOK
  <2> QED BY <2>1, <1>3, <1>5, LastListed
<1>7. e.id \in 1..Len(pre) /\ pre[e.id] = e.rule /\ e.rule \in Rules /\ o.info = e.rule
  BY <1>2, <1>3, <1>4, <1>6 DEF TodoOK
<1>8. /\ q \in OpStates
      /\ q \in Operations =>
           /\ OpOK(q) /\ q.done = {} /\ q.pc \in {"info", "check"}
           /\ q.todo \subseteq o.todo \ {e}
      /\ o.kind = "unbind" /\ q # Done => Pending(q)
      /\ \A x : Purging(o, x) /\ x # e.rule => Purging(q, x)
  BY <1>2, <1>6, RestOfRequest
<1> HIDE DEF e, q
<1>9. PICK i \in Nat, x \in Rules, t \in OpStates : i = e.id /\ x = e.rule /\ t = q
  BY <1>5, <1>7, <1>8
<1>10. /\ i \in 1..Len(pre) /\ pre[i] = x
       /\ pre' = RemoveAt(pre, i) /\ out' = out \ {x} /\ meant' = meant \ {x}
  BY <1>1, <1>7, <1>9
<1>11. /\ pre' \in Seq(Rules) /\ Len(pre') = Len(pre) - 1
       /\ \A j \in 1..Len(pre) - 1 : pre'[j] = IF j < i THEN pre[j] ELSE pre[j + 1]
  BY <1>5, <1>10, Removed
<1>12. /\ op' \in [Requests -> OpStates] /\ op'[r] = t
       /\ \A p \in Requests \ {r} : op'[p] = op[p]
       /\ OpInv'
  BY <1>0, <1>1, <1>8, <1>9, Goes
<1>13. ForwardsTypeOK'
  <2>1. saver' \in [Savers -> Savings \cup {None}]
    BY <1>0, <1>1, SaverStarts DEF ForwardsTypeOK
  <2> QED BY <2>1, <1>0, <1>1, <1>5, <1>10, <1>11, <1>12 DEF ForwardsTypeOK, OpStates
<1>14. ASSUME windows' = {} PROVE Upheld'
  <2>1. Distinct(pre') /\ ToSet(pre') = ToSet(pre) \ {x}
    BY <1>0, <1>5, <1>10, DistinctRemoved DEF Upheld, ChainInv
  <2>2. \A p \in Requests \ {r} : x \notin Making(op[p])
    BY <1>1, <1>7, <1>9, <1>14 DEF Unfinished, Making, Begun, InBoth, Live, Busy, OpAt, This, Its
  <2>3. /\ Making(op[r]) = {} /\ Making(op'[r]) = {}
        /\ InBoth(op[r]) = {} /\ InBoth(op'[r]) = {}
        /\ Begun(op[r]) = {} /\ Begun(op'[r]) = {}
    BY <1>2, <1>3, <1>8, <1>9, <1>12, OpKinds DEF Making, Begun, InBoth
  <2>4. ChainInv'
    <3>1. \A y \in Rules : y \in ToSet(pre') <=>
            (y \in meant' \/ \E p \in Requests : y \in Making(op'[p]))
      BY <1>0, <1>10, <1>12, <2>1, <2>2, <2>3 DEF ChainInv, Upheld
    <3>2. \A p \in Requests : x \notin InBoth(op[p])
      BY <2>2, <2>3 DEF Making
    <3>3. \A y \in Rules : y \in out' <=>
            (y \in meant' \/ \E p \in Requests : y \in InBoth(op'[p]))
      BY <1>0, <1>10, <1>12, <2>3, <3>2 DEF ChainInv, Upheld
    <3> QED BY <2>1, <3>1, <3>3 DEF ChainInv, Distinct
  <2>5. MakingInv'
    BY <1>0, <1>10, <1>12, <2>3 DEF MakingInv, Upheld
  <2>6. ASSUME NEW p \in Requests, Live(op'[p]) PROVE TodoOK(op[p])'
    <3>1. CASE p = r
      <4>1. t \in Operations
        BY <2>6, <3>1, <1>12, OpKinds
      <4>2. t.pc # "drop" /\ t.todo \subseteq o.todo \ {e}
        BY <4>1, <1>8, <1>9
      <4>3. \A d \in t.todo : d.id \in 1..Len(pre) - 1 /\ pre'[d.id] = d.rule
        <5> TAKE d \in t.todo
        <5>1. d \in o.todo /\ d # e /\ d.id \in 1..Len(pre) /\ pre[d.id] = d.rule /\ d.id =< i
          BY <4>2, <1>4, <1>6, <1>9 DEF TodoOK
        <5>2. d.id # i
          BY <5>1, <1>3, <1>6, <1>7, <1>9
        <5>3. d.id < i
          BY <5>1, <5>2, <1>10
        <5> QED BY <5>1, <5>3, <1>5, <1>10, <1>11
      <4> QED BY <4>2, <4>3, <3>1, <1>11, <1>12 DEF TodoOK
    <3>2. CASE p # r
      <4>1. op'[p] = op[p] /\ TodoOK(op[p]) /\ op[p] \in Operations
        BY <3>2, <2>6, <1>0, <1>12, OpKinds DEF Upheld, TodoInv, ForwardsTypeOK, OpStates
      <4>2. \A d \in op[p].todo : ~ (d.id >= i)
        BY <4>1, <3>2, <2>6, <1>1, <1>9, <1>14 DEF Shifts, Busy, Live
      <4>3. \A d \in op[p].todo : d.id \in 1..Len(pre) - 1 /\ pre'[d.id] = d.rule
        <5> TAKE d \in op[p].todo
        <5>1. d.id \in 1..Len(pre) /\ pre[d.id] = d.rule /\ d.id < i
          BY <4>1, <4>2, <1>9 DEF TodoOK
        <5> QED BY <5>1, <1>5, <1>10, <1>11
      <4> QED BY <4>1, <4>3, <1>11 DEF TodoOK
    <3> QED BY <3>1, <3>2
  <2>7. TodoInv'
    BY <2>6 DEF TodoInv, Live
  <2>8. LeadsHome'
    <3> SUFFICES ASSUME NEW y \in meant, y # x
                 PROVE  hosts[y.vm] = y.ip \/ \E p \in Requests : Purging(op'[p], y)
      BY <1>1, <1>10 DEF LeadsHome
    <3>1. hosts[y.vm] = y.ip \/ \E p \in Requests : Purging(op[p], y)
      BY <1>0 DEF LeadsHome, Upheld
    <3>2. \A p \in Requests : Purging(op[p], y) => Purging(op'[p], y)
      BY <1>8, <1>9, <1>12
    <3> QED BY <3>1, <3>2
  <2>9. SaverInv' /\ InSync'
    <3>1. CASE SavePortForwardRules
      BY <3>1, <1>0, <1>1, SaverStarts DEF Upheld
    <3>2. CASE o.kind = "unbind" /\ q # Done /\ UNCHANGED saver
      <4>1. Pending(op'[r])
        BY <3>2, <1>8, <1>9, <1>12
      <4>2. SaverInv'
        BY <3>2, <1>0, <1>1 DEF Upheld, SaverInv, Reading, Distinct
      <4> QED BY <4>1, <4>2 DEF InSync
    <3> QED BY <3>1, <3>2, <1>1
  <2> QED BY <2>4, <2>5, <2>7, <2>8, <2>9 DEF Upheld
<1> QED BY <1>0, <1>1, <1>12, <1>13, <1>14 DEF ForwardsInv, Single

(* The rule of a request that makes one.                                   *)
LEMMA ItsRule ==
    ASSUME NEW r \in Requests, op[r] \in Operations, OpOK(op[r]), op[r].pc \in {"pre", "out"}
    PROVE  /\ This(r) \in Rules /\ This(r) = Its(op[r])
           /\ This(r).port = Head(op[r].keys) /\ This(r).ip = op[r].ip /\ This(r).vm = op[r].vm
           /\ op[r].kind \in {"add", "update"} /\ op[r].todo = {} /\ op[r].keys # <<>>
           /\ op[r].ip \in Ips /\ op[r].vm \in VMs
<1>1. /\ op[r].kind \in {"add", "update"} /\ op[r].todo = {} /\ op[r].keys # <<>>
      /\ op[r].ip \in Ips /\ op[r].vm \in VMs /\ op[r].keys \in Seq(Ports)
  BY DEF OpOK, Operations
<1>2. Head(op[r].keys) \in Ports
  BY <1>1, HeadTailProperties
<1> QED BY <1>1, <1>2 DEF This, Its, Rule, Rules

LEMMA FirstChainHasRule ==
    ASSUME ForwardsInv, windows = {}, NEW r \in Requests, OpAt(r, "pre"),
           pre' = Append(pre, This(r)), Window("taken", Taken(Head(op[r].keys))),
           OpGo(r, "out"), UNCHANGED <<hosts, out, script, meant, saver, faults>>
    PROVE  ForwardsInv'
<1> DEFINE o == op[r]
           q == [o EXCEPT !.pc = "out"]
           x == This(r)
<1>0. ForwardsTypeOK /\ OpInv /\ Single(hosts) /\ Upheld
  BY DEF ForwardsInv
<1>1. o \in Operations /\ OpOK(o) /\ o.pc = "pre" /\ Live(o)
  BY <1>0, AtStep
<1>2. /\ x \in Rules /\ x.port = Head(o.keys) /\ x.ip = o.ip /\ x.vm = o.vm
      /\ o.kind \in {"add", "update"} /\ o.todo = {} /\ o.keys # <<>>
      /\ o.ip \in Ips /\ o.vm \in VMs /\ x = Its(o)
  BY <1>1, ItsRule
<1>3. /\ q \in Operations /\ q.kind = o.kind /\ q.vm = o.vm /\ q.ip = o.ip /\ q.keys = o.keys
      /\ q.done = o.done /\ q.todo = {} /\ q.back = o.back /\ q.pc = "out" /\ q.info = o.info
  BY <1>1, <1>2 DEF Operations
<1>4. To(r, q)
  BY DEF OpGo
<1> HIDE DEF q, x
<1>5. OpOK(q) /\ q \in OpStates /\ Live(q)
  BY <1>1, <1>2, <1>3, OpKinds DEF OpOK, OpStates
<1>6. PICK y \in Rules, t \in OpStates : y = x /\ t = q
  BY <1>2, <1>5
<1>7. /\ op' \in [Requests -> OpStates] /\ op'[r] = t
      /\ \A p \in Requests \ {r} : op'[p] = op[p]
      /\ OpInv'
  BY <1>0, <1>4, <1>5, <1>6, Goes
<1>8. /\ pre \in Seq(Rules) /\ Len(pre) \in Nat /\ out \subseteq Rules /\ meant \subseteq Rules
      /\ ToSet(pre) \subseteq Rules
      /\ \A i \in 1..Len(pre) : pre[i] \in Rules /\ pre[i] \in ToSet(pre)
      /\ \A z \in ToSet(pre) : \E i \in 1..Len(pre) : pre[i] = z
  BY <1>0, Elements DEF ForwardsTypeOK
<1>9. pre' = Append(pre, y)
  BY <1>6 DEF x
<1>10. /\ pre' \in Seq(Rules) /\ Len(pre') = Len(pre) + 1
       /\ \A i \in 1..Len(pre) : pre'[i] = pre[i]
       /\ ToSet(pre') = ToSet(pre) \cup {y}
  BY <1>8, <1>9, Appended
<1>11. ForwardsTypeOK'
  BY <1>0, <1>7, <1>10 DEF ForwardsTypeOK, OpStates
<1>12. ASSUME windows' = {} PROVE Upheld'
  <2>1. \A i \in 1..Len(pre) : pre[i].port # y.port
    BY <1>2, <1>6, <1>12 DEF Window, Taken
  <2>2. Distinct(pre')
    BY <2>1, <1>0, <1>8, <1>9, DistinctAppended DEF Upheld, ChainInv
  <2>3. y \notin ToSet(pre)
    BY <2>1, <1>8
  <2>4. /\ Begun(op[r]) = {} /\ Begun(op'[r]) = {y}
        /\ InBoth(op[r]) = o.done /\ InBoth(op'[r]) = o.done
        /\ Making(op[r]) = o.done /\ Making(op'[r]) = o.done \cup {y}
    BY <1>1, <1>2, <1>3, <1>5, <1>6, <1>7 DEF Making, Begun, InBoth, Its
  <2>5. \A p \in Requests : y \notin Making(op[p])
    BY <2>3, <1>0 DEF ChainInv, Upheld
  <2>6. y \notin meant
    BY <2>3, <1>0 DEF ChainInv, Upheld
  <2>7. ChainInv'
    <3>1. \A z \in Rules : z \in ToSet(pre') <=>
            (z \in meant' \/ \E p \in Requests : z \in Making(op'[p]))
      BY <1>0, <1>7, <1>10, <2>4 DEF ChainInv, Upheld
    <3>2. \A z \in Rules : z \in out' <=>
            (z \in meant' \/ \E p \in Requests : z \in InBoth(op'[p]))
      BY <1>0, <1>7, <2>4 DEF ChainInv, Upheld
    <3> QED BY <2>2, <3>1, <3>2 DEF ChainInv, Distinct
  <2>8. MakingInv'
    <3>1. \A p \in Requests : \A z \in Making(op'[p]) :
            z \notin meant' /\ \A p2 \in Requests \ {p} : z \notin Making(op'[p2])
      BY <1>0, <1>7, <2>4, <2>5, <2>6 DEF MakingInv, Upheld
    <3>2. \A p \in Requests : \A z \in Begun(op'[p]) : z \notin InBoth(op'[p])
      <4>1. y \notin InBoth(op'[r])
        BY <2>4, <2>5
      <4> QED BY <4>1, <1>0, <1>7, <2>4 DEF MakingInv, Upheld
    <3>3. \A p \in Requests : \A z \in InBoth(op'[p]) : z.vm = op'[p].vm /\ z.ip = op'[p].ip
      BY <1>0, <1>3, <1>6, <1>7, <2>4 DEF MakingInv, Upheld
    <3> QED BY <3>1, <3>2, <3>3 DEF MakingInv
  <2>9. TodoInv'
    <3> SUFFICES ASSUME NEW p \in Requests, Live(op'[p]) PROVE TodoOK(op[p])'
      BY DEF TodoInv, Live
    <3>1. CASE p = r
      BY <3>1, <1>3, <1>6, <1>7 DEF TodoOK
    <3>2. CASE p # r
      <4>1. op'[p] = op[p] /\ TodoOK(op[p])
        BY <3>2, <1>0, <1>7 DEF Upheld, TodoInv
      <4> QED BY <4>1, <1>8, <1>10 DEF TodoOK
    <3> QED BY <3>1, <3>2
  <2>10. LeadsHome'
    <3>1. \A z : ~ Purging(op[r], z)
      BY <1>2 DEF Purging
    <3> QED BY <3>1, <1>0, <1>7 DEF LeadsHome, Upheld
  <2>11. SaverInv'
    BY <1>0 DEF Upheld, SaverInv, Reading, Distinct
  <2>12. ASSUME NEW p \in Seq(Rules), UpToDate(p) PROVE UpToDate(p)'
    <3>1. SameOrder(p, pre')
      <4>1. y \notin ToSet(p)
        BY <2>3, <2>12 DEF UpToDate
      <4> QED BY <4>1, <2>12, <1>8, <1>9, OrderAppended DEF UpToDate
    <3>2. \A z \in ToSet(pre') \ ToSet(p) : \E p2 \in Requests : z \in Begun(op'[p2])
      BY <1>7, <1>10, <2>4, <2>12 DEF UpToDate
    <3> QED BY <3>1, <3>2, <2>12, <1>10 DEF UpToDate, SameOrder
  <2>13. InSync'
    <3>1. CASE \E p \in Requests : Pending(op[p])
      <4>1. Pending(op[r]) => Pending(op'[r])
        BY <1>1, <1>3, <1>5, <1>6, <1>7 DEF Pending
      <4> QED BY <3>1, <4>1, <1>7 DEF InSync
    <3>2. CASE \E s \in Savers : Starting(s)
      BY <3>2 DEF InSync, Starting
    <3>3. CASE \E s \in Savers : Latest(s)
      <4>1. PICK s \in Savers : Latest(s)
        BY <3>3
      <4>2. saver[s].pre \in Seq(Rules)
        BY <4>1, <1>0 DEF Latest, Reading, ForwardsTypeOK, Savings
      <4>3. Latest(s)'
        BY <4>1, <4>2, <2>12 DEF Latest, Reading
      <4> QED BY <4>3 DEF InSync
    <3>4. CASE AllOld
      <4>1. script.pre \in Seq(Rules)
        BY <1>0 DEF ForwardsTypeOK
      <4> QED BY <3>4, <4>1, <2>12 DEF InSync, AllOld
    <3> QED BY <3>1, <3>2, <3>3, <3>4, <1>0 DEF Upheld, InSync
  <2> QED BY <2>7, <2>8, <2>9, <2>10, <2>11, <2>13 DEF Upheld
<1> QED BY <1>0, <1>7, <1>11, <1>12 DEF ForwardsInv, Single

(* A step that opens a window: nothing follows it.                         *)
LEMMA WindowStep ==
    ASSUME ForwardsInv, NEW r \in Requests, NEW q \in OpStates, To(r, q),
           q \in Operations => OpOK(q), windows' # {}, UNCHANGED <<hosts, script, meant, saver>>,
           pre' \in Seq(Rules), out' \subseteq Rules, faults' \in 0..MaxFaults
    PROVE  ForwardsInv'
<1>1. ForwardsTypeOK /\ OpInv /\ Single(hosts)
  BY DEF ForwardsInv
<1>2. op' \in [Requests -> OpStates] /\ OpInv'
  BY <1>1, Goes
<1> QED BY <1>1, <1>2 DEF ForwardsInv, ForwardsTypeOK, OpStates, Single

LEMMA FirstChainIsTried ==
    ASSUME ForwardsInv, windows = {}, NEW r \in Requests, AppendPrerouting(r)
    PROVE  ForwardsInv'
<1> DEFINE o == op[r]
<1>0. ForwardsTypeOK /\ OpInv /\ Single(hosts) /\ Upheld
  BY DEF ForwardsInv
<1>1. OpAt(r, "pre") /\ UNCHANGED <<hosts, out, script, meant, saver>>
  BY DEF AppendPrerouting
<1>2. o \in Operations /\ OpOK(o) /\ o.pc = "pre" /\ Live(o)
  BY <1>0, <1>1, AtStep
<1>3. ASSUME pre' = Append(pre, This(r)), Window("taken", Taken(Head(op[r].keys))),
             OpGo(r, "out"), UNCHANGED faults
      PROVE  ForwardsInv'
  BY <1>1, <1>3, FirstChainHasRule
<1>4. ASSUME Fault, UNCHANGED pre, Window("failed", HalfMade(r)), Failed(r)
      PROVE  ForwardsInv'
  <2>1. PICK q \in OpStates :
             /\ To(r, q)
             /\ q \in Operations => OpOK(q) /\ q.done = {} /\ q.todo = {} /\ q.pc = "check"
             /\ o.kind = "update" /\ ~ o.back => Pending(q)
    BY <1>2, <1>4, FailsWith
  <2>2. faults' \in 0..MaxFaults /\ hosts' \in Addresses /\ Single(hosts')
        /\ pre' \in Seq(Rules) /\ out' \subseteq Rules
    BY <1>0, <1>1, <1>4, ForwardsAssumption DEF ForwardsTypeOK, Fault
  <2>3. CASE windows' # {}
    BY <2>1, <2>2, <2>3, <1>1, WindowStep
  <2>4. CASE windows' = {}
    <3>1. o.done = {} /\ ~ o.back
      BY <2>4, <1>4 DEF Window, HalfMade
    <3>2. o.kind \in {"add", "update"}
      BY <1>2 DEF OpOK
    <3>3. Making(o) = {} /\ ~ Pending(o) /\ \A x : ~ Purging(o, x)
      BY <3>1, <3>2, <1>2 DEF Making, Begun, InBoth, Pending, Purging
    <3>4. \A x \in meant : hosts'[x.vm] = x.ip \/ \E p \in Requests \ {r} : Purging(op[p], x)
      BY <3>3, <1>0, <1>1 DEF LeadsHome, Upheld
    <3>5. q \in Operations => TodoOK(q) /\ q.pc # "out"
      BY <2>1 DEF TodoOK
    <3> QED BY <2>1, <2>2, <3>3, <3>4, <3>5, <1>1, <1>4, QuietStep
  <2> QED BY <2>3, <2>4
<1> QED BY <1>3, <1>4 DEF AppendPrerouting

LEMMA FirewallStep ==
    ASSUME ForwardsInv, windows = {}, NEW r \in Requests, FirewallFails(r)
    PROVE  ForwardsInv'
<1>1. /\ OpAt(r, "out") /\ Fault /\ out' = out \cup {This(r)}
      /\ Window("failed", TRUE) /\ Failed(r) /\ UNCHANGED <<hosts, pre, script, meant, saver>>
  BY DEF FirewallFails
<1>2. ForwardsTypeOK /\ OpInv
  BY DEF ForwardsInv
<1>3. op[r] \in Operations /\ OpOK(op[r]) /\ op[r].pc = "out"
  BY <1>1, <1>2, AtStep
<1>4. PICK q \in OpStates : To(r, q) /\ (q \in Operations => OpOK(q))
  BY <1>1, <1>3, FailsWith
<1>5. This(r) \in Rules
  BY <1>3, ItsRule
<1>6. windows' # {}
  BY <1>1 DEF Window
<1>7. pre' \in Seq(Rules) /\ out' \subseteq Rules /\ faults' \in 0..MaxFaults
  BY <1>1, <1>2, <1>5, ForwardsAssumption DEF ForwardsTypeOK, Fault
<1> QED BY <1>1, <1>4, <1>6, <1>7, WindowStep

(* A rule that is in both chains is finished, or meant with those before it.*)
LEMMA RuleIsInBoth ==
    ASSUME windows = {}, ChainInv, MakingInv, NEW r \in Requests, NEW q, NEW x \in Rules, NEW D,
           Begun(op[r]) = {x}, D = InBoth(op[r]) \cup {x}, x.vm = op[r].vm, x.ip = op[r].ip,
           op'[r] = q, \A p \in Requests \ {r} : op'[p] = op[p],
           UNCHANGED pre, out' = out \cup {x}, Begun(q) = {},
           \/ meant' = meant /\ InBoth(q) = D /\ q.vm = op[r].vm /\ q.ip = op[r].ip
           \/ meant' = meant \cup D /\ InBoth(q) = {}
    PROVE  ChainInv' /\ MakingInv'
<1>1. Making(op[r]) = D /\ Making(q) = InBoth(q)
  BY DEF Making
<1>2. /\ \A z \in D : z \notin meant /\ \A p \in Requests \ {r} : z \notin Making(op[p])
      /\ \A z \in D : z.vm = op[r].vm /\ z.ip = op[r].ip
  BY <1>1 DEF MakingInv
<1>3. ChainInv'
  <2>1. \A z \in Rules : z \in ToSet(pre') <=>
          (z \in meant' \/ \E p \in Requests : z \in Making(op'[p]))
    BY <1>1 DEF ChainInv
  <2>2. \A z \in Rules : z \in out' <=>
          (z \in meant' \/ \E p \in Requests : z \in InBoth(op'[p]))
    <3>1. \A z \in Rules : z \in out' <=>
            (z = x \/ z \in meant \/ \E p \in Requests : z \in InBoth(op[p]))
      BY DEF ChainInv
    <3> QED BY <3>1
  <2> QED BY <2>1, <2>2 DEF ChainInv, Distinct
<1>4. MakingInv'
  <2>1. \A p \in Requests : \A z \in Making(op'[p]) :
          z \notin meant' /\ \A p2 \in Requests \ {p} : z \notin Making(op'[p2])
    <3> SUFFICES ASSUME NEW p \in Requests, NEW z \in Making(op'[p])
                 PROVE  z \notin meant' /\ \A p2 \in Requests \ {p} : z \notin Making(op'[p2])
      OBVIOUS
    <3>1. CASE p = r
      BY <3>1, <1>1, <1>2
    <3>2. CASE p # r
      <4>1. /\ z \in Making(op[p]) /\ z \notin meant
            /\ \A p2 \in Requests \ {p} : z \notin Making(op[p2])
        BY <3>2 DEF MakingInv
      <4>2. z \notin D
        BY <4>1, <3>2, <1>1
      <4> QED BY <4>1, <4>2, <1>1
    <3> QED BY <3>1, <3>2
  <2>2. \A p \in Requests : \A z \in Begun(op'[p]) : z \notin InBoth(op'[p])
    BY DEF MakingInv
  <2>3. \A p \in Requests : \A z \in InBoth(op'[p]) : z.vm = op'[p].vm /\ z.ip = op'[p].ip
    BY <1>2 DEF MakingInv
  <2> QED BY <2>1, <2>2, <2>3 DEF MakingInv
<1> QED BY <1>3, <1>4

LEMMA SecondChainHasRule ==
    ASSUME ForwardsInv, windows = {}, NEW r \in Requests, AppendOutput(r)
    PROVE  ForwardsInv'
<1> DEFINE o == op[r]
           done == o.done \cup {This(r)}
           t == [o EXCEPT !.pc = "pre", !.keys = Tail(@), !.done = done]
<1>0. ForwardsTypeOK /\ OpInv /\ Single(hosts) /\ Upheld
  BY DEF ForwardsInv
<1>1. /\ OpAt(r, "out") /\ out' = out \cup {This(r)} /\ UNCHANGED <<hosts, pre, script, faults>>
      /\ windows' = {} => hosts[o.vm] = o.ip
      /\ IF Len(o.keys) > 1
         THEN To(r, t) /\ UNCHANGED <<meant, saver>>
         ELSE To(r, Done) /\ meant' = meant \cup done /\ SavePortForwardRules
  BY DEF AppendOutput, Window, End
<1>2. o \in Operations /\ OpOK(o) /\ o.pc = "out" /\ Live(o)
  BY <1>0, <1>1, AtStep
<1>3. /\ This(r) \in Rules /\ This(r) = Its(o) /\ This(r).ip = o.ip /\ This(r).vm = o.vm
      /\ o.kind \in {"add", "update"} /\ o.todo = {} /\ o.keys # <<>>
      /\ o.ip \in Ips /\ o.vm \in VMs
      /\ o.done \subseteq Rules /\ o.keys \in Seq(Ports)
  BY <1>2, ItsRule DEF Operations
<1>4. PICK x \in Rules, D \in SUBSET Rules : x = This(r) /\ D = done
  BY <1>3
<1> HIDE DEF done
<1>5. Begun(o) = {x} /\ InBoth(o) = o.done /\ D = o.done \cup {x}
  BY <1>2, <1>3, <1>4 DEF Begun, InBoth, done
<1>6. \A z : ~ Purging(o, z)
  BY <1>3 DEF Purging
<1>7. out' \subseteq Rules /\ meant \subseteq Rules
  BY <1>0, <1>1, <1>3 DEF ForwardsTypeOK
<1>9. CASE Len(o.keys) > 1
  <2>1. Tail(o.keys) \in Seq(Ports) /\ Len(Tail(o.keys)) = Len(o.keys) - 1
    BY <1>3, HeadTailProperties
  <2>2. PICK n \in Nat : n = Len(o.keys)
    BY <1>3, LenProperties
  <2>a. n # 1 /\ n - 1 # 0
    <3>1. n > 1
      BY <2>2, <1>9
    <3> QED BY <3>1
  <2>3. Tail(o.keys) # <<>>
    <3>1. Len(Tail(o.keys)) = n - 1
      BY <2>1, <2>2
    <3>2. Tail(o.keys) = <<>> => n - 1 = 0
      BY <3>1, EmptySeq, Zenon
    <3> QED BY <3>2, <2>a
  <2>4. o.kind = "add" /\ ~ o.back
    <3>1. Len(o.keys) # 1
      BY <2>2, <2>a, Zenon
    <3> QED BY <3>1, <1>2, <1>3 DEF OpOK
  <2>5. /\ t \in Operations /\ t.kind = "add" /\ t.vm = o.vm /\ t.ip = o.ip
        /\ t.keys = Tail(o.keys) /\ t.done = D /\ t.todo = {} /\ ~ t.back /\ t.pc = "pre"
    BY <2>1, <2>4, <1>2, <1>3, <1>4 DEF Operations
  <2>6. To(r, t)
    BY <1>1, <1>9
  <2> HIDE DEF t
  <2>7. OpOK(t) /\ t \in OpStates /\ Live(t)
    BY <2>3, <2>5, <1>3, OpKinds DEF OpOK, OpStates
  <2>8. PICK q \in OpStates : q = t
    BY <2>7
  <2>9. /\ op' \in [Requests -> OpStates] /\ op'[r] = q
        /\ \A p \in Requests \ {r} : op'[p] = op[p]
        /\ OpInv'
    BY <2>6, <2>7, <2>8, <1>0, Goes
  <2>10. ForwardsTypeOK'
    BY <2>9, <1>0, <1>1, <1>7, <1>9 DEF ForwardsTypeOK, OpStates
  <2>11. ChainInv' /\ MakingInv'
    <3>1. Begun(q) = {} /\ InBoth(q) = D
      BY <2>5, <2>7, <2>8 DEF Begun, InBoth
    <3>2. UNCHANGED pre /\ out' = out \cup {x} /\ UNCHANGED meant
      BY <1>1, <1>4, <1>9
    <3>3. x.vm = op[r].vm /\ x.ip = op[r].ip /\ q.vm = op[r].vm /\ q.ip = op[r].ip
      BY <1>3, <1>4, <2>5, <2>8
    <3> QED BY <3>1, <3>2, <3>3, <2>9, <1>0, <1>5, RuleIsInBoth DEF Upheld
  <2>12. TodoInv'
    <3> SUFFICES ASSUME NEW p \in Requests, Live(op'[p]) PROVE TodoOK(op[p])'
      BY DEF TodoInv, Live
    <3>1. CASE p = r
      BY <3>1, <2>5, <2>8, <2>9 DEF TodoOK
    <3>2. CASE p # r
      BY <3>2, <2>9, <1>0, <1>1 DEF TodoOK, TodoInv, Upheld
    <3> QED BY <3>1, <3>2
  <2>13. LeadsHome'
    BY <2>9, <1>0, <1>1, <1>6, <1>9 DEF LeadsHome, Upheld
  <2>14. SaverInv'
    BY <1>0, <1>1, <1>9 DEF SaverInv, Upheld, Reading, Distinct
  <2>15. InSync'
    <3>1. Pending(op'[r])
      BY <2>5, <2>7, <2>8, <2>9, <1>5 DEF Pending
    <3> QED BY <3>1 DEF InSync
  <2> QED BY <2>9, <2>10, <2>11, <2>12, <2>13, <2>14, <2>15, <1>0, <1>1
      DEF ForwardsInv, Upheld, Single
<1>10. CASE ~ (Len(o.keys) > 1)
  <2>1. To(r, Done) /\ meant' = meant \cup D /\ SavePortForwardRules
    BY <1>1, <1>4, <1>10
  <2>2. Done \in OpStates /\ Done \notin Operations /\ ~ Live(Done)
    BY OpKinds DEF OpStates, Live
  <2>3. /\ op' \in [Requests -> OpStates] /\ op'[r] = Done
        /\ \A p \in Requests \ {r} : op'[p] = op[p]
        /\ OpInv'
    BY <2>1, <2>2, <1>0, Goes
  <2>4. /\ saver' \in [Savers -> Savings \cup {None}]
        /\ SaverInv => SaverInv'
        /\ InSync'
    BY <2>1, <1>0, <1>1, SaverStarts
  <2>5. ForwardsTypeOK'
    BY <2>1, <2>3, <2>4, <1>0, <1>1, <1>7 DEF ForwardsTypeOK, OpStates
  <2>6. ChainInv' /\ MakingInv'
    <3>1. Begun(Done) = {} /\ InBoth(Done) = {}
      BY <2>2 DEF Begun, InBoth
    <3>2. UNCHANGED pre /\ out' = out \cup {x}
      BY <1>1, <1>4
    <3>3. x.vm = op[r].vm /\ x.ip = op[r].ip
      BY <1>3, <1>4
    <3> QED BY <3>1, <3>2, <3>3, <2>1, <2>3, <1>0, <1>5, RuleIsInBoth DEF Upheld
  <2>7. TodoInv'
    BY <2>2, <2>3, <1>0, <1>1 DEF TodoInv, TodoOK, Upheld, Live
  <2>8. windows' = {} => LeadsHome'
    <3> SUFFICES ASSUME windows' = {}, NEW z \in meant'
                 PROVE  hosts'[z.vm] = z.ip \/ \E p \in Requests : Purging(op'[p], z)
      BY DEF LeadsHome
    <3>1. CASE z \in meant
      BY <3>1, <2>3, <1>0, <1>1, <1>6 DEF LeadsHome, Upheld
    <3>2. CASE z \in D
      <4>1. z.vm = o.vm /\ z.ip = o.ip
        BY <3>2, <1>0, <1>3, <1>4, <1>5 DEF Upheld, MakingInv
      <4> QED BY <4>1, <1>1
    <3> QED BY <3>1, <3>2, <2>1
  <2> QED BY <2>3, <2>4, <2>5, <2>6, <2>7, <2>8, <1>0, <1>1 DEF ForwardsInv, Upheld, Single
<1> QED BY <1>9, <1>10

LEMMA FirstOf ==
    ASSUME NEW p \in Seq(Rules), p = pre, Distinct(p), NEW x \in ToSet(p)
    PROVE  First(x) \in 1..Len(p) /\ p[First(x)] = x
<1>1. PICK i \in 1..Len(p) : p[i] = x
  BY Elements
<1>2. \A j \in 1..i-1 : p[j] # x
  <2> TAKE j \in 1..i-1
  <2>1. Len(p) \in Nat
    BY LenProperties
  <2>2. j \in 1..Len(p) /\ j # i
    BY <2>1
  <2> QED BY <2>2, <1>1 DEF Distinct
<1>3. \E k \in 1..Len(pre) : pre[k] = x /\ \A j \in 1..k-1 : pre[j] # x
  BY <1>1, <1>2
<1> QED BY <1>3 DEF First

LEMMA RuleIsTakenBack ==
    ASSUME ForwardsInv, windows = {}, NEW r \in Requests, OutputFails(r)
    PROVE  ForwardsInv'
<1> DEFINE o == op[r]
<1>0. ForwardsTypeOK /\ OpInv /\ Single(hosts) /\ Upheld
  BY DEF ForwardsInv
<1>1. /\ OpAt(r, "out") /\ Fault /\ Failed(r) /\ UNCHANGED <<hosts, out, script, meant, saver>>
      /\ pre' = IF This(r) \in ToSet(pre) THEN RemoveAt(pre, First(This(r))) ELSE pre
      /\ windows' = {} =>
           /\ ~ HalfMade(r) /\ ~ Seen(r)
           /\ This(r) \in ToSet(pre) => ~ Shifts(r, First(This(r)))
  BY DEF OutputFails
<1>2. o \in Operations /\ OpOK(o) /\ o.pc = "out" /\ Live(o)
  BY <1>0, <1>1, AtStep
<1>3. /\ This(r) \in Rules /\ This(r) = Its(o) /\ o.kind \in {"add", "update"} /\ o.todo = {}
  BY <1>2, ItsRule
<1>4. PICK q \in OpStates :
           /\ To(r, q)
           /\ q \in Operations => OpOK(q) /\ q.done = {} /\ q.todo = {} /\ q.pc = "check"
           /\ o.kind = "update" /\ ~ o.back => Pending(q)
  BY <1>1, <1>2, FailsWith
<1>5. PICK x \in Rules : x = This(r)
  BY <1>3
<1>6. Begun(o) = {x} /\ InBoth(o) = o.done
  BY <1>2, <1>3, <1>5 DEF Begun, InBoth
<1>7. x \in ToSet(pre)
  BY <1>0, <1>6 DEF Upheld, ChainInv, Making
<1>8. /\ pre \in Seq(Rules) /\ Len(pre) \in Nat /\ out \subseteq Rules /\ meant \subseteq Rules
      /\ \A i \in 1..Len(pre) : pre[i] \in ToSet(pre)
  BY <1>0, Elements DEF ForwardsTypeOK
<1>9. First(x) \in 1..Len(pre) /\ pre[First(x)] = x
  BY <1>0, <1>7, <1>8, FirstOf DEF Upheld, ChainInv
<1>10. PICK i \in 1..Len(pre) : i = First(x)
  BY <1>9
<1>11. pre[i] = x /\ pre' = RemoveAt(pre, i)
  BY <1>1, <1>5, <1>7, <1>9, <1>10
<1>12. /\ pre' \in Seq(Rules) /\ Len(pre') = Len(pre) - 1
       /\ \A j \in 1..Len(pre) - 1 : pre'[j] = IF j < i THEN pre[j] ELSE pre[j + 1]
  BY <1>8, <1>11, Removed
<1>13. /\ op' \in [Requests -> OpStates] /\ op'[r] = q
       /\ \A p \in Requests \ {r} : op'[p] = op[p]
       /\ OpInv'
  BY <1>0, <1>4, Goes
<1>14. ForwardsTypeOK'
  <2>1. faults' \in 0..MaxFaults
    BY <1>0, <1>1, ForwardsAssumption DEF ForwardsTypeOK, Fault
  <2> QED BY <2>1, <1>0, <1>1, <1>12, <1>13 DEF ForwardsTypeOK, OpStates
<1>15. ASSUME windows' = {} PROVE Upheld'
  <2>1. o.done = {} /\ ~ o.back /\ ~ Seen(r) /\ ~ Shifts(r, i)
    BY <1>1, <1>5, <1>7, <1>10, <1>15 DEF HalfMade
  <2>2. Distinct(pre') /\ ToSet(pre') = ToSet(pre) \ {x}
    BY <1>0, <1>8, <1>11, DistinctRemoved DEF Upheld, ChainInv
  <2>3. /\ Making(op[r]) = {x} /\ Making(op'[r]) = {}
        /\ InBoth(op[r]) = {} /\ InBoth(op'[r]) = {}
        /\ Begun(op[r]) = {x} /\ Begun(op'[r]) = {}
    <3>1. q \in Operations => q.done = {} /\ q.pc # "out"
      BY <1>4
    <3> QED BY <3>1, <2>1, <1>6, <1>13, Calm DEF Making
  <2>4. x \notin meant /\ \A p \in Requests \ {r} : x \notin Making(op[p])
    BY <2>3, <1>0 DEF Upheld, MakingInv
  <2>5. ChainInv'
    <3>1. \A y \in Rules : y \in ToSet(pre') <=>
            (y \in meant' \/ \E p \in Requests : y \in Making(op'[p]))
      BY <1>0, <1>1, <1>13, <2>2, <2>3, <2>4 DEF ChainInv, Upheld
    <3>2. \A y \in Rules : y \in out' <=>
            (y \in meant' \/ \E p \in Requests : y \in InBoth(op'[p]))
      BY <1>0, <1>1, <1>13, <2>3 DEF ChainInv, Upheld
    <3> QED BY <2>2, <3>1, <3>2 DEF ChainInv, Distinct
  <2>6. MakingInv'
    BY <1>0, <1>1, <1>13, <2>3 DEF MakingInv, Upheld
  <2>7. TodoInv'
    <3> SUFFICES ASSUME NEW p \in Requests, Live(op'[p]) PROVE TodoOK(op[p])'
      BY DEF TodoInv, Live
    <3>1. CASE p = r
      <4>1. q \in Operations
        BY <3>1, <1>13, OpKinds
      <4> QED BY <4>1, <3>1, <1>4, <1>13 DEF TodoOK
    <3>2. CASE p # r
      <4>1. op'[p] = op[p] /\ TodoOK(op[p]) /\ op[p] \in Operations
        BY <3>2, <1>0, <1>13, OpKinds DEF Upheld, TodoInv, ForwardsTypeOK, OpStates
      <4>2. \A d \in op[p].todo : ~ (d.id >= i)
        BY <4>1, <3>2, <2>1, OpKinds DEF Shifts, Busy, OpStates, Live
      <4>3. \A d \in op[p].todo : d.id \in 1..Len(pre) - 1 /\ pre'[d.id] = d.rule
        <5> TAKE d \in op[p].todo
        <5>1. d.id \in 1..Len(pre) /\ pre[d.id] = d.rule /\ d.id < i
          BY <4>1, <4>2 DEF TodoOK
        <5> QED BY <5>1, <1>8, <1>12
      <4> QED BY <4>1, <4>3, <1>12 DEF TodoOK
    <3> QED BY <3>1, <3>2
  <2>8. LeadsHome'
    <3>1. \A z : ~ Purging(op[r], z)
      BY <1>3 DEF Purging
    <3> QED BY <3>1, <1>0, <1>1, <1>13 DEF LeadsHome, Upheld
  <2>9. SaverInv'
    BY <1>0, <1>1 DEF Upheld, SaverInv, Reading, Distinct
  <2>10. InSync'
    <3>1. CASE o.kind = "update"
      <4>1. Pending(op'[r])
        BY <3>1, <2>1, <1>4, <1>13
      <4> QED BY <4>1 DEF InSync
    <3>2. CASE o.kind = "add"
      <4>1. /\ x \notin ToSet(script.pre)
            /\ \A s \in Savers : saver[s] # None => x \notin ToSet(saver[s].pre)
        BY <3>2, <2>1, <1>5 DEF Seen
      <4>2. ~ Pending(op[r])
        BY <3>2, <2>1, <1>2 DEF Pending
      <4>3. ASSUME NEW p \in Seq(Rules), UpToDate(p), x \notin ToSet(p) PROVE UpToDate(p)'
        <5>1. SameOrder(p, pre')
          BY <4>3, <1>8, <1>11, OrderRemoved DEF UpToDate
        <5>2. \A z \in ToSet(pre') \ ToSet(p) : \E p2 \in Requests : z \in Begun(op'[p2])
          BY <4>3, <1>13, <2>2, <2>3 DEF UpToDate
        <5> QED BY <5>1, <5>2, <4>3, <2>2 DEF UpToDate, SameOrder
      <4>4. CASE \E p \in Requests : Pending(op[p])
        BY <4>2, <4>4, <1>13 DEF InSync
      <4>5. CASE \E s \in Savers : Starting(s)
        BY <4>5, <1>1 DEF InSync, Starting
      <4>6. CASE \E s \in Savers : Latest(s)
        <5>1. PICK s \in Savers : Latest(s)
          BY <4>6
        <5>2. saver[s].pre \in Seq(Rules) /\ x \notin ToSet(saver[s].pre)
          BY <4>1, <5>1, <1>0 DEF Latest, Reading, ForwardsTypeOK, Savings
        <5>3. Latest(s)'
          BY <5>1, <5>2, <4>3, <1>1 DEF Latest, Reading
        <5> QED BY <5>3 DEF InSync
      <4>7. CASE AllOld
        <5>1. script.pre \in Seq(Rules)
          BY <1>0 DEF ForwardsTypeOK
        <5> QED BY <5>1, <4>1, <4>3, <4>7, <1>1 DEF InSync, AllOld
      <4> QED BY <4>4, <4>5, <4>6, <4>7, <1>0 DEF Upheld, InSync
    <3> QED BY <3>1, <3>2, <1>3
  <2> QED BY <2>5, <2>6, <2>7, <2>8, <2>9, <2>10 DEF Upheld
<1> QED BY <1>0, <1>1, <1>13, <1>14, <1>15 DEF ForwardsInv, Single

(* Savers.                                                                 *)
LEMMA SaverReadsFirst ==
    ASSUME ForwardsInv, windows = {}, NEW s \in Savers, ReadPrerouting(s)
    PROVE  ForwardsInv'
<1> DEFINE o == saver[s]
           B == {t \in Savers : saver[t] # None /\ saver[t].pc # "start"}
           n == [o EXCEPT !.pc = "out", !.pre = pre, !.before = B]
<1>0. ForwardsTypeOK /\ OpInv /\ Single(hosts) /\ Upheld
  BY DEF ForwardsInv
<1>1. /\ saver[s] # None /\ saver[s].pc = "start" /\ saver' = [saver EXCEPT ![s] = n]
      /\ UNCHANGED <<hosts, pre, out, script, meant, op, faults, windows>>
  BY DEF ReadPrerouting
<1>2. saver \in [Savers -> Savings \cup {None}] /\ saver[s] \in Savings /\ pre \in Seq(Rules)
  BY <1>0, <1>1 DEF ForwardsTypeOK
<1>3. /\ n \in Savings /\ n.pc = "out" /\ n.pre = pre /\ n.before = B /\ n.old = o.old
  BY <1>2 DEF Savings
<1> HIDE DEF n
<1>4. n # None
  BY <1>3, OpKinds
<1>5. saver' \in [Savers -> Savings \cup {None}] /\ saver'[s] = n
      /\ \A t \in Savers \ {s} : saver'[t] = saver[t]
  BY <1>1, <1>2, <1>3
<1>6. Distinct(pre) /\ SaverInv /\ ~ o.old
  BY <1>0, <1>1 DEF Upheld, ChainInv, SaverInv
<1>7. SaverInv'
  <2>1. \A t \in Savers : saver'[t] # None =>
             Distinct(saver'[t].pre) /\ (saver'[t].pc = "start" => ~ saver'[t].old)
    BY <1>3, <1>5, <1>6 DEF SaverInv
  <2>2. ASSUME NEW t \in Savers, NEW u \in Savers, saver'[u] # None, t \in saver'[u].before
        PROVE  saver'[t] # None /\ saver'[t].pc # "start" /\ t # u /\ u \notin saver'[t].before
    <3>1. CASE u = s
      <4>1. Reading(t) /\ t # s
        BY <2>2, <3>1, <1>1, <1>3, <1>5 DEF Reading
      <4>2. saver'[t] = saver[t] /\ s \notin saver[t].before
        BY <4>1, <1>1, <1>5, <1>6 DEF SaverInv, Reading
      <4> QED BY <3>1, <4>1, <4>2 DEF Reading
    <3>2. CASE u # s
      <4>1. Reading(t) /\ t # u /\ u \notin saver[t].before
        BY <2>2, <3>2, <1>5, <1>6 DEF SaverInv
      <4>2. t # s
        BY <4>1, <1>1 DEF Reading
      <4> QED BY <4>1, <4>2, <1>5 DEF Reading
    <3> QED BY <3>1, <3>2
  <2>3. Distinct(script'.pre)
    BY <1>1, <1>6 DEF SaverInv
  <2> QED BY <2>1, <2>2, <2>3 DEF SaverInv, Reading, Distinct
<1>8. Latest(s)'
  <2>1. UpToDate(pre)
    BY <1>2, <1>6, OrderOfSelf DEF UpToDate
  <2>2. UpToDate(saver[s].pre)'
    BY <2>1, <1>1, <1>3, <1>5 DEF UpToDate, SameOrder
  <2>3. Reading(s)' /\ ~ saver'[s].old /\ saver'[s].pc = "out"
    BY <1>3, <1>4, <1>5, <1>6 DEF Reading
  <2>4. \A t \in Savers \ {s} : Reading(t)' => t \in saver'[s].before
    BY <1>3, <1>5 DEF Reading
  <2> QED BY <2>2, <2>3, <2>4 DEF Latest
<1>9. ForwardsTypeOK'
  BY <1>0, <1>1, <1>5 DEF ForwardsTypeOK
<1>10. ChainInv' /\ MakingInv' /\ TodoInv' /\ LeadsHome' /\ OpInv' /\ Single(hosts')
  BY <1>0, <1>1 DEF Upheld, ChainInv, MakingInv, TodoInv, TodoOK, LeadsHome, OpInv, Single, Distinct
<1> QED BY <1>7, <1>8, <1>9, <1>10 DEF ForwardsInv, Upheld, InSync, Single

LEMMA SaverReadsSecond ==
    ASSUME ForwardsInv, windows = {}, NEW s \in Savers, ReadOutput(s)
    PROVE  ForwardsInv'
<1> DEFINE o == saver[s]
           n == [o EXCEPT !.pc = "write", !.out = out]
<1>0. ForwardsTypeOK /\ OpInv /\ Single(hosts) /\ Upheld
  BY DEF ForwardsInv
<1>1. /\ saver[s] # None /\ saver[s].pc = "out" /\ saver' = [saver EXCEPT ![s] = n]
      /\ UNCHANGED <<hosts, pre, out, script, meant, op, faults, windows>>
  BY DEF ReadOutput
<1>2. saver \in [Savers -> Savings \cup {None}] /\ saver[s] \in Savings /\ out \subseteq Rules
  BY <1>0, <1>1 DEF ForwardsTypeOK
<1>3. /\ n \in Savings /\ n.pc = "write" /\ n.pre = o.pre /\ n.before = o.before /\ n.old = o.old
      /\ n.out = out
  BY <1>2 DEF Savings
<1> HIDE DEF n
<1>4. n # None
  BY <1>3, OpKinds
<1>5. saver' \in [Savers -> Savings \cup {None}] /\ saver'[s] = n
      /\ \A t \in Savers \ {s} : saver'[t] = saver[t]
  BY <1>1, <1>2, <1>3
<1>6. \A t \in Savers :
        /\ saver'[t] = None <=> saver[t] = None
        /\ saver'[t] # None =>
             /\ saver'[t].pre = saver[t].pre /\ saver'[t].before = saver[t].before
             /\ saver'[t].old = saver[t].old
             /\ saver'[t].pc = "start" <=> saver[t].pc = "start"
             /\ saver'[t].pc = "write" => saver'[t].out = out \/ saver'[t] = saver[t]
  BY <1>1, <1>3, <1>4, <1>5
<1>7. \A t \in Savers : Reading(t)' <=> Reading(t)
  BY <1>6 DEF Reading
<1>8. SaverInv'
  <2>1. SaverInv
    BY <1>0 DEF Upheld
  <2>2. \A t \in Savers : saver'[t] # None =>
             Distinct(saver'[t].pre) /\ (saver'[t].pc = "start" => ~ saver'[t].old)
    BY <2>1, <1>6 DEF SaverInv
  <2>3. \A t, u \in Savers : saver'[u] # None /\ t \in saver'[u].before =>
             Reading(t)' /\ t # u /\ u \notin saver'[t].before
    <3> TAKE t, u \in Savers
    <3>1. HAVE saver'[u] # None /\ t \in saver'[u].before
    <3>2. Reading(t) /\ t # u /\ u \notin saver[t].before
      BY <2>1, <3>1, <1>6 DEF SaverInv
    <3>3. Reading(t)' /\ saver'[t].before = saver[t].before
      BY <3>2, <1>6, <1>7 DEF Reading
    <3> QED BY <3>2, <3>3
  <2> QED BY <2>1, <2>2, <2>3, <1>1 DEF SaverInv, Distinct
<1>9. \A p : UpToDate(p) => UpToDate(p)'
  BY <1>1 DEF UpToDate, SameOrder
<1>10. InSync'
  <2>1. CASE \E r \in Requests : Pending(op[r])
    BY <2>1, <1>1 DEF InSync
  <2>2. CASE \E t \in Savers : Starting(t)
    BY <2>2, <1>6 DEF InSync, Starting
  <2>3. CASE \E t \in Savers : Latest(t)
    <3>1. PICK t \in Savers : Latest(t)
      BY <2>3
    <3>2. saver[t] # None /\ Reading(t)' /\ saver'[t] # None
      BY <3>1, <1>6, <1>7 DEF Latest, Reading
    <3>3. UpToDate(saver[t].pre)'
      BY <3>1, <3>2, <1>1, <1>6 DEF Latest, UpToDate, SameOrder
    <3>4. ~ saver'[t].old /\ \A u \in Savers \ {t} : Reading(u)' => u \in saver'[t].before
      BY <3>1, <3>2, <1>6, <1>7 DEF Latest
    <3>5. saver'[t].pc = "write" => saver'[t].out = out
      BY <3>1, <3>2, <1>6 DEF Latest
    <3>6. Latest(t)'
      BY <3>2, <3>3, <3>4, <3>5, <1>1 DEF Latest
    <3> QED BY <3>6 DEF InSync
  <2>4. CASE AllOld
    BY <2>4, <1>1, <1>6, <1>9 DEF InSync, AllOld
  <2> QED BY <2>1, <2>2, <2>3, <2>4, <1>0 DEF Upheld, InSync
<1>11. ForwardsTypeOK'
  BY <1>0, <1>1, <1>5 DEF ForwardsTypeOK
<1>12. ChainInv' /\ MakingInv' /\ TodoInv' /\ LeadsHome' /\ OpInv' /\ Single(hosts')
  BY <1>0, <1>1 DEF Upheld, ChainInv, MakingInv, TodoInv, TodoOK, LeadsHome, OpInv, Single, Distinct
<1> QED BY <1>8, <1>10, <1>11, <1>12 DEF ForwardsInv, Upheld, Single

LEMMA SaverWrites ==
    ASSUME ForwardsInv, windows = {}, NEW s \in Savers, WriteScript(s)
    PROVE  ForwardsInv'
<1> DEFINE N(t) == [saver[t] EXCEPT !.before = @ \ {s}, !.old = @ \/ t \in saver[s].before]
<1>0. ForwardsTypeOK /\ OpInv /\ Single(hosts) /\ Upheld
  BY DEF ForwardsInv
<1>1. /\ saver[s] # None /\ saver[s].pc = "write"
      /\ script' = [pre |-> saver[s].pre, out |-> saver[s].out]
      /\ windows' = {} => ~ saver[s].old
      /\ saver' = [t \in Savers |-> IF t = s \/ saver[t] = None THEN None ELSE N(t)]
      /\ UNCHANGED <<hosts, pre, out, meant, op, faults>>
  BY DEF WriteScript, Window
<1>2. saver \in [Savers -> Savings \cup {None}] /\ saver[s] \in Savings
  BY <1>0, <1>1 DEF ForwardsTypeOK
<1>3. \A t \in Savers : saver[t] # None =>
        /\ N(t) \in Savings /\ N(t).pc = saver[t].pc /\ N(t).pre = saver[t].pre
        /\ N(t).out = saver[t].out /\ N(t).before = saver[t].before \ {s}
        /\ N(t).old = (saver[t].old \/ t \in saver[s].before)
  BY <1>2 DEF Savings
<1> HIDE DEF N
<1>4. /\ saver' \in [Savers -> Savings \cup {None}]
      /\ \A t \in Savers : saver'[t] = IF t = s \/ saver[t] = None THEN None ELSE N(t)
  BY <1>1, <1>3
<1>5. \A t \in Savers : saver'[t] # None =>
        /\ t # s /\ saver[t] # None
        /\ saver'[t].pc = saver[t].pc /\ saver'[t].pre = saver[t].pre
        /\ saver'[t].out = saver[t].out /\ saver'[t].before = saver[t].before \ {s}
        /\ saver'[t].old = (saver[t].old \/ t \in saver[s].before)
  BY <1>3, <1>4
<1>6. \A t \in Savers : t # s /\ saver[t] # None => saver'[t] # None
  BY <1>3, <1>4, OpKinds
<1>7. \A t \in Savers : Reading(t)' <=> (t # s /\ Reading(t))
  BY <1>5, <1>6 DEF Reading
<1>8. SaverInv /\ Reading(s)
  BY <1>0, <1>1 DEF Upheld, Reading
<1>9. SaverInv'
  <2>1. \A t \in Savers : saver'[t] # None => Distinct(saver'[t].pre)
    BY <1>5, <1>8 DEF SaverInv
  <2>2. \A t \in Savers : saver'[t] # None => (saver'[t].pc = "start" => ~ saver'[t].old)
    <3> TAKE t \in Savers
    <3>1. HAVE saver'[t] # None
    <3>2. HAVE saver'[t].pc = "start"
    <3>3. saver[t] # None /\ ~ Reading(t) /\ ~ saver[t].old
      BY <3>1, <3>2, <1>5, <1>8 DEF Reading, SaverInv
    <3>4. t \notin saver[s].before
      BY <3>3, <1>1, <1>8 DEF SaverInv
    <3> QED BY <3>1, <3>3, <3>4, <1>5
  <2>3. \A t, u \in Savers : saver'[u] # None /\ t \in saver'[u].before =>
             Reading(t)' /\ t # u /\ u \notin saver'[t].before
    <3> TAKE t, u \in Savers
    <3>1. HAVE saver'[u] # None /\ t \in saver'[u].before
    <3>2. saver[u] # None /\ t \in saver[u].before /\ t # s
      BY <3>1, <1>5
    <3>3. Reading(t) /\ t # u /\ u \notin saver[t].before
      BY <3>2, <1>8 DEF SaverInv
    <3>4. Reading(t)'
      BY <3>2, <3>3, <1>7
    <3>5. u \notin saver'[t].before
      BY <3>3, <3>4, <1>5 DEF Reading
    <3> QED BY <3>3, <3>4, <3>5
  <2>4. Distinct(script'.pre)
    BY <1>1, <1>8 DEF SaverInv
  <2> QED BY <2>1, <2>2, <2>3, <2>4 DEF SaverInv, Distinct
<1>10. ASSUME windows' = {} PROVE InSync'
  <2>1. CASE \E r \in Requests : Pending(op[r])
    BY <2>1, <1>1 DEF InSync
  <2>2. CASE \E t \in Savers : Starting(t)
    <3>1. PICK t \in Savers : Starting(t)
      BY <2>2
    <3>2. t # s
      BY <3>1, <1>1 DEF Starting
    <3>3. Starting(t)'
      BY <3>1, <3>2, <1>5, <1>6 DEF Starting
    <3> QED BY <3>3 DEF InSync
  <2>3. ASSUME NEW t \in Savers, Latest(t) PROVE InSync'
    <3>1. CASE t = s
      <4>1. CASE \E u \in Savers \ {s} : Starting(u)
        <5>1. PICK u \in Savers \ {s} : Starting(u)
          BY <4>1
        <5>2. Starting(u)'
          BY <5>1, <1>5, <1>6 DEF Starting
        <5> QED BY <5>2 DEF InSync
      <4>2. CASE \A u \in Savers \ {s} : ~ Starting(u)
        <5>1. \A u \in Savers : saver'[u] # None => saver'[u].old
          <6> TAKE u \in Savers
          <6>1. HAVE saver'[u] # None
          <6>2. u # s /\ Reading(u)
            BY <6>1, <4>2, <1>5 DEF Reading, Starting
          <6>3. u \in saver[s].before
            BY <6>2, <2>3, <3>1 DEF Latest
          <6> QED BY <6>1, <6>3, <1>5
        <5>2. script'.out = out' /\ script'.pre = saver[s].pre
          BY <2>3, <3>1, <1>1 DEF Latest
        <5>3. UpToDate(script.pre)'
          BY <2>3, <3>1, <5>2, <1>1 DEF Latest, UpToDate, SameOrder
        <5> QED BY <5>1, <5>2, <5>3 DEF AllOld, InSync
      <4> QED BY <4>1, <4>2
    <3>2. CASE t # s
      <4>1. saver[t] # None /\ Reading(t)' /\ saver'[t] # None
        BY <2>3, <3>2, <1>7 DEF Latest, Reading
      <4>2. s \in saver[t].before /\ t \notin saver[s].before
        BY <2>3, <3>2, <4>1, <1>8 DEF Latest, SaverInv
      <4>3. ~ saver'[t].old
        BY <2>3, <4>1, <4>2, <1>5 DEF Latest
      <4>4. \A u \in Savers \ {t} : Reading(u)' => u \in saver'[t].before
        BY <2>3, <4>1, <1>5, <1>7 DEF Latest
      <4>5. UpToDate(saver[t].pre)'
        BY <2>3, <4>1, <1>1, <1>5 DEF Latest, UpToDate, SameOrder
      <4>6. saver'[t].pc = "write" => saver'[t].out = out'
        BY <2>3, <4>1, <1>1, <1>5 DEF Latest
      <4>7. Latest(t)'
        BY <4>1, <4>3, <4>4, <4>5, <4>6 DEF Latest
      <4> QED BY <4>7 DEF InSync
    <3> QED BY <3>1, <3>2
  <2>4. ~ AllOld
    BY <1>1, <1>10 DEF AllOld
  <2> QED BY <2>1, <2>2, <2>3, <2>4, <1>0 DEF Upheld, InSync
<1>11. ForwardsTypeOK'
  <2>1. script' \in [pre : Seq(Rules), out : SUBSET Rules]
    BY <1>1, <1>2 DEF Savings
  <2> QED BY <2>1, <1>0, <1>1, <1>4 DEF ForwardsTypeOK
<1>12. ChainInv' /\ MakingInv' /\ TodoInv' /\ LeadsHome' /\ OpInv' /\ Single(hosts')
  BY <1>0, <1>1 DEF Upheld, ChainInv, MakingInv, TodoInv, TodoOK, LeadsHome, OpInv, Single, Distinct
<1> QED BY <1>9, <1>10, <1>11, <1>12 DEF ForwardsInv, Upheld, Single

(* Between requests and savers the script is what is in force.             *)
LEMMA ScriptIsLive ==
    ASSUME ForwardsInv, windows = {}, Quiet, Saved
    PROVE  script = [pre |-> pre, out |-> out]
<1>1. ForwardsTypeOK /\ Upheld
  BY DEF ForwardsInv
<1>2. \A r \in Requests : ~ Live(op[r])
  BY DEF Quiet, Busy, Live
<1>3. \A r \in Requests : ~ Pending(op[r]) /\ Begun(op[r]) = {}
  BY <1>2 DEF Pending, Begun
<1>4. AllOld
  BY <1>1, <1>3 DEF Upheld, InSync, Saved, Starting, Latest, Reading
<1>5. ToSet(script.pre) = ToSet(pre) /\ SameOrder(script.pre, pre) /\ script.out = out
  BY <1>3, <1>4 DEF AllOld, UpToDate
<1>6. script \in [pre : Seq(Rules), out : SUBSET Rules] /\ pre \in Seq(Rules)
      /\ Distinct(script.pre) /\ Distinct(pre)
  BY <1>1 DEF ForwardsTypeOK, Upheld, SaverInv, ChainInv
<1>7. script.pre = pre
  BY <1>5, <1>6, SameSequence
<1> QED BY <1>5, <1>6, <1>7

LEMMA RulesAreRestored ==
    ASSUME ForwardsInv, windows = {}, RestorePortForwardRules
    PROVE  ForwardsInv'
<1>0. ForwardsTypeOK /\ OpInv /\ Single(hosts) /\ Upheld
  BY DEF ForwardsInv
<1>1. PICK rebooted \in BOOLEAN :
        LET kept == IF rebooted THEN <<>> ELSE pre IN
        /\ pre' = kept \o Missing(script.pre, ToSet(kept))
        /\ out' = script.out \cup (IF rebooted THEN {} ELSE out)
  BY DEF RestorePortForwardRules
<1>2. /\ script' = [pre |-> pre', out |-> out']
      /\ windows' = {} => Quiet /\ Saved
      /\ op' = [r \in Requests |-> IF Busy(r) THEN Done ELSE op[r]]
      /\ saver' = [s \in Savers |-> None]
      /\ UNCHANGED <<hosts, meant, faults>>
  BY DEF RestorePortForwardRules, Window
<1> DEFINE kept == IF rebooted THEN <<>> ELSE pre
           add == Missing(script.pre, ToSet(kept))
<1>3. kept \in Seq(Rules) /\ script.pre \in Seq(Rules) /\ pre \in Seq(Rules)
      /\ script.out \subseteq Rules /\ out \subseteq Rules
  BY <1>0 DEF ForwardsTypeOK
<1>4. pre' = kept \o add
  BY <1>1
<1> HIDE DEF kept
<1>5. /\ add \in Seq(Rules)
      /\ ToSet(script.pre) \subseteq ToSet(kept) => add = <<>>
      /\ ToSet(kept) = {} => add = script.pre
  BY <1>3, MissingRules
<1> HIDE DEF add
<1>6. pre' \in Seq(Rules)
  BY <1>3, <1>4, <1>5, ConcatProperties
<1>7. out' \subseteq Rules
  BY <1>1, <1>3
<1>8. op' \in [Requests -> OpStates] /\ OpInv'
  <2>1. op' \in [Requests -> OpStates]
    BY <1>0, <1>2 DEF ForwardsTypeOK, OpStates
  <2>2. \A r \in Requests : op'[r] = Done \/ op'[r] = op[r]
    BY <1>2
  <2> QED BY <2>1, <2>2, <1>0 DEF OpInv, Live
<1>9. ForwardsTypeOK'
  BY <1>0, <1>2, <1>6, <1>7, <1>8 DEF ForwardsTypeOK, OpStates
<1>10. ASSUME windows' = {} PROVE Upheld'
  <2>1. Quiet /\ Saved /\ script = [pre |-> pre, out |-> out]
    BY <1>2, <1>10, ScriptIsLive
  <2>2. pre' = pre
    <3>1. CASE rebooted
      <4>1. ToSet(kept) = {} /\ kept = <<>>
        <5>1. kept = <<>>
          BY <3>1 DEF kept
        <5>2. kept \in Seq(Rules) /\ Len(kept) = 0
          BY <5>1
        <5>3. ToSet(kept) = {}
          <6>1. \A x \in ToSet(kept) : \E i \in 1..Len(kept) : kept[i] = x
            BY <5>2, Elements
          <6> QED BY <6>1, <5>2
        <5> QED BY <5>1, <5>3
      <4>2. pre' = <<>> \o pre
        BY <4>1, <2>1, <1>4, <1>5
      <4> QED BY <4>2, <1>3, ConcatEmptySeq
    <3>2. CASE ~ rebooted
      <4>1. kept = pre
        BY <3>2 DEF kept
      <4>2. pre' = pre \o <<>>
        BY <4>1, <2>1, <1>4, <1>5
      <4> QED BY <4>2, <1>3, ConcatEmptySeq
    <3> QED BY <3>1, <3>2
  <2>3. out' = out
    BY <2>1, <1>1
  <2>4. script' = script
    BY <2>1, <2>2, <2>3, <1>2
  <2>5. op' = op
    <3>1. op \in [Requests -> OpStates] /\ \A r \in Requests : ~ Busy(r)
      BY <2>1, <1>0 DEF ForwardsTypeOK, OpStates, Quiet
    <3> QED BY <3>1, <1>2
  <2>6. saver' = saver
    BY <2>1, <1>0, <1>2 DEF ForwardsTypeOK, Saved
  <2> QED BY <2>2, <2>3, <2>4, <2>5, <2>6, <1>0, <1>2
      DEF Upheld, ChainInv, MakingInv, TodoInv, TodoOK, LeadsHome, SaverInv, Reading, InSync,
          Starting, Latest, AllOld, UpToDate, SameOrder, Distinct
<1> QED BY <1>0, <1>2, <1>8, <1>9, <1>10 DEF ForwardsInv, Single

LEMMA ForwardsBegin == InitForwards => ForwardsInv
<1> SUFFICES ASSUME InitForwards PROVE ForwardsInv
  OBVIOUS
<1>1. /\ out = ToSet(pre) /\ script = [pre |-> pre, out |-> out] /\ meant = out
      /\ op = [r \in Requests |-> None] /\ saver = [s \in Savers |-> None]
      /\ faults = 0 /\ windows = {}
  BY DEF InitForwards
<1>2. /\ hosts \in Addresses /\ Single(hosts) /\ pre \in Seq(Rules) /\ Distinct(pre)
      /\ \A x \in ToSet(pre) : hosts[x.vm] = x.ip
  <2>1. CASE hosts = [v \in VMs |-> None] /\ pre = <<>>
    <3>1. pre \in Seq(Rules) /\ Len(pre) = 0
      BY <2>1
    <3>2. ToSet(pre) = {} /\ Distinct(pre)
      <4>1. \A x \in ToSet(pre) : \E i \in 1..Len(pre) : pre[i] = x
        BY <3>1, Elements
      <4> QED BY <4>1, <3>1 DEF Distinct
    <3> QED BY <2>1, <3>1, <3>2 DEF Addresses, Single
  <2>2. ASSUME NEW vm \in VMs, NEW ip \in Ips, NEW n \in 1..2,
               hosts = [v \in VMs |-> IF v = vm THEN ip ELSE None],
               pre = [i \in 1..n |-> Rule(Both[i], ip, vm)]
        PROVE  /\ hosts \in Addresses /\ Single(hosts) /\ pre \in Seq(Rules) /\ Distinct(pre)
               /\ \A x \in ToSet(pre) : hosts[x.vm] = x.ip
    <3>1. Both[1] \in Ports /\ Both[2] \in Ports /\ Both[1] # Both[2]
      BY ForwardsAssumption, ElementOfSeq
    <3>2. \A i \in 1..n : /\ Rule(Both[i], ip, vm) \in Rules /\ Rule(Both[i], ip, vm).port = Both[i]
                          /\ Rule(Both[i], ip, vm).ip = ip /\ Rule(Both[i], ip, vm).vm = vm
      BY <3>1 DEF Rule, Rules
    <3>3. pre \in Seq(Rules)
      BY <2>2, <3>2, SeqDef
    <3>4. Len(pre) = n
      BY <2>2, <3>3, LenProperties
    <3>5. \A i \in 1..n : pre[i].port = Both[i] /\ pre[i].ip = ip /\ pre[i].vm = vm
      BY <2>2, <3>2
    <3>6. Distinct(pre)
      BY <3>1, <3>4, <3>5 DEF Distinct
    <3>7. \A x \in ToSet(pre) : hosts[x.vm] = x.ip
      <4> TAKE x \in ToSet(pre)
      <4>1. PICK i \in 1..n : pre[i] = x
        BY <3>3, <3>4, Elements
      <4> QED BY <4>1, <2>2, <3>5
    <3>8. hosts \in Addresses /\ Single(hosts)
      BY <2>2 DEF Addresses, Single
    <3> QED BY <3>3, <3>6, <3>7, <3>8
  <2> QED BY <2>1, <2>2 DEF InitForwards
<1>3. ToSet(pre) \subseteq Rules
  BY <1>2, Elements
<1>4. ForwardsTypeOK
  BY <1>1, <1>2, <1>3, ForwardsAssumption DEF ForwardsTypeOK
<1>5. \A r \in Requests : ~ Live(op[r]) /\ Making(op[r]) = {} /\ InBoth(op[r]) = {}
                          /\ Begun(op[r]) = {}
  BY <1>1 DEF Live, Making, InBoth, Begun
<1>6. OpInv /\ ChainInv /\ MakingInv /\ TodoInv
  BY <1>1, <1>2, <1>5 DEF OpInv, ChainInv, MakingInv, TodoInv
<1>7. LeadsHome /\ SaverInv
  BY <1>1, <1>2 DEF LeadsHome, SaverInv
<1>8. InSync
  <2>1. UpToDate(pre)
    BY <1>2, OrderOfSelf DEF UpToDate
  <2> QED BY <2>1, <1>1 DEF InSync, AllOld
<1> QED BY <1>2, <1>4, <1>6, <1>7, <1>8 DEF ForwardsInv, Upheld

(* No step breaks the invariant (port_forward.go:118-760, static_ip.go:   *)
(* 560-690, port_forward_persist.go:96-186).                               *)
THEOREM ForwardsInvariant == ForwardsSpec => []ForwardsInv
<1>1. ForwardsInv /\ [ForwardsNext]_forwardVars => ForwardsInv'
  <2> SUFFICES ASSUME ForwardsInv, [ForwardsNext]_forwardVars PROVE ForwardsInv'
    OBVIOUS
  <2>1. ASSUME NEW r \in Requests, windows = {},
               \/ Request(r)
               \/ ResolvePortForwardTargetIP(r) \/ ListVPCStaticHosts(r)
               \/ UpsertVPCStaticHost(r) \/ RemoveVPCStaticHost(r) \/ RemovePortForwardsForIP(r)
               \/ ReadRule(r) \/ deletePortForwardWithOptions(r)
               \/ IsPortAvailable(r) \/ AppendPrerouting(r) \/ AppendOutput(r)
               \/ OutputFails(r) \/ FirewallFails(r)
        PROVE  ForwardsInv'
    BY <2>1, RequestBegins, TargetIsResolved, FileIsRead, FileIsWritten, AddressIsPurged, RuleIsRead,
       RuleIsDeleted, PortIsChecked, FirstChainIsTried, SecondChainHasRule, RuleIsTakenBack,
       FirewallStep
  <2>2. ASSUME NEW s \in Savers, windows = {},
               ReadPrerouting(s) \/ ReadOutput(s) \/ WriteScript(s)
        PROVE  ForwardsInv'
    BY <2>2, SaverReadsFirst, SaverReadsSecond, SaverWrites
  <2>3. ASSUME windows = {}, RestorePortForwardRules PROVE ForwardsInv'
    BY <2>3, RulesAreRestored
  <2>4. ASSUME UNCHANGED forwardVars PROVE ForwardsInv'
    <3>1. UNCHANGED <<hosts, pre, out, script, meant, op, saver, faults, windows>>
      BY <2>4 DEF forwardVars
    <3>2. ForwardsTypeOK' /\ Single(hosts') /\ OpInv'
      BY <3>1 DEF ForwardsInv, ForwardsTypeOK, OpInv, Single
    <3>3. ASSUME Upheld PROVE ChainInv' /\ MakingInv' /\ TodoInv' /\ LeadsHome' /\ SaverInv'
      BY <3>1, <3>3 DEF Upheld, ChainInv, MakingInv, TodoInv, TodoOK, LeadsHome, SaverInv, Reading,
         Distinct
    <3>4. ASSUME Upheld PROVE InSync'
      BY <3>1, <3>4
      DEF Upheld, Reading, InSync, Starting, Latest, AllOld, UpToDate, SameOrder
    <3> QED BY <3>1, <3>2, <3>3, <3>4 DEF ForwardsInv, Upheld, Single
  <2> QED BY <2>1, <2>2, <2>3, <2>4 DEF ForwardsNext
<1> QED BY <1>1, ForwardsBegin, PTL DEF ForwardsSpec

THEOREM ForwardsTypes == ForwardsSpec => []ForwardsTypeOK
<1>1. ForwardsInv => ForwardsTypeOK
  BY DEF ForwardsInv
<1> QED BY <1>1, ForwardsInvariant, PTL

(* The addresses are each of one machine, and with no request under way    *)
(* the chains are the rules users were told of, each at its machine.       *)
THEOREM AddressesAndRulesAreMeant == ForwardsSpec => []ForwardsAreMeant
<1>1. ForwardsInv => ForwardsAreMeant
  <2> SUFFICES ASSUME ForwardsInv PROVE ForwardsAreMeant
    OBVIOUS
  <2>1. \A v, w \in VMs : v # w /\ hosts[v] = hosts[w] => hosts[v] = None
    BY DEF ForwardsInv, Single
  <2>2. ASSUME Quiet, windows = {}
        PROVE  /\ ToSet(pre) = meant /\ out = meant /\ Len(pre) = Cardinality(meant)
               /\ \A x \in meant : hosts[x.vm] = x.ip
    <3>1. ForwardsTypeOK /\ ChainInv /\ LeadsHome
      BY <2>2 DEF ForwardsInv, Upheld
    <3>2. \A r \in Requests : ~ Live(op[r])
      BY <2>2 DEF Quiet, Busy, Live
    <3>3. \A r \in Requests : Making(op[r]) = {} /\ InBoth(op[r]) = {}
                              /\ \A x : ~ Purging(op[r], x)
      BY <3>2 DEF Making, InBoth, Begun, Purging
    <3>4. pre \in Seq(Rules) /\ out \subseteq Rules /\ meant \subseteq Rules /\ ToSet(pre) \subseteq Rules
      BY <3>1, Elements DEF ForwardsTypeOK
    <3>5. ToSet(pre) = meant /\ out = meant
      BY <3>1, <3>3, <3>4 DEF ChainInv
    <3>6. Len(pre) = Cardinality(ToSet(pre))
      <4>1. Len(pre) \in Nat /\ DOMAIN pre = 1..Len(pre) /\ pre \in [1..Len(pre) -> ToSet(pre)]
        BY <3>4, LenProperties, Elements
      <4>2. IsInjective(pre)
        BY <4>1, <3>1 DEF Distinct, ChainInv, IsInjective
      <4>3. \A x \in ToSet(pre) : \E i \in 1..Len(pre) : pre[i] = x
        BY <3>4, Elements
      <4>4. pre \in Bijection(1..Len(pre), ToSet(pre))
        BY <4>1, <4>2, <4>3 DEF Bijection, Injection, Surjection
      <4> QED BY <4>1, <4>4, FS_CountingElements DEF ExistsBijection
    <3> QED BY <3>1, <3>3, <3>5, <3>6 DEF LeadsHome
  <2> QED BY <2>1, <2>2 DEF ForwardsAreMeant
<1> QED BY <1>1, ForwardsInvariant, PTL

(* When nothing is under way the script has the rules in force.            *)
THEOREM ScriptIsSaved == ForwardsSpec => []SavedIsLive
<1>1. ForwardsInv => SavedIsLive
  BY ScriptIsLive DEF SavedIsLive
<1> QED BY <1>1, ForwardsInvariant, PTL
=============================================================================
