--------------------------- MODULE DiskMigration ---------------------------
(***************************************************************************)
(* Moving the disk of one machine between storage pools of the host        *)
(* (service/vm/disk_migration.go): a cold copy when the machine is off, a  *)
(* block copy with pivot when it runs.  Requests look at the task queue    *)
(* (service/vm/migration/lock.go) before they start the machine or submit  *)
(* another migration, and act some steps later.  A file is the number of   *)
(* the last write of the guest it holds; libvirt is modelled by what the   *)
(* code expects of it.                                                     *)
(***************************************************************************)
EXTENDS Naturals, FiniteSets, QueueSlots

CONSTANTS
    Pools,       \* storage pools; the disk starts in Home
    Home,
    Names,       \* file names buildUniqueDiskMigrationTargetPath tries; a bound
    Migrations,  \* requests to migrate the disk, and their tasks
    Starters,    \* requests to start the machine
    MaxWrites,   \* bound on the writes of the guest
    Faults      \* subset of {"fail", "cancel", "crash"}

ASSUME DiskMigrationAssumption ==
    /\ Home \in Pools
    /\ Names \subseteq Nat /\ 1 \in Names
    /\ Slots \in Nat \ {0} /\ MaxWrites \in Nat
    /\ Faults \subseteq {"fail", "cancel", "crash"}
    /\ None \notin Nat /\ None \notin Pools \X Names

VARIABLES
    file,        \* what each file holds: the last write in it, or None
    xml,         \* the disk of the persistent definition
    run,         \* the disk the running machine uses, None when it is off
    latest,      \* the last write the guest made
    booting,     \* start requests that have passed their check
    asking,      \* migration requests that have passed their check
    phase,       \* the tasks, as the queue promises them
    plan,        \* vmDiskMigrationPlan of each task
    step,        \* where its handler is
    canceled,    \* tasks whose context is canceled
    windows      \* history: which of the known windows were hit

disks == <<file, xml, run, latest>>
tasks == <<phase, plan, step, canceled>>
vars == <<disks, booting, asking, tasks, windows>>

Queue == INSTANCE TaskLifecycle WITH Tasks <- Migrations

Paths == Pools \X Names
Versions == 0..MaxWrites
Plans == [source : Paths, target : Paths, mode : {"cold", "live"},
          read : Versions \cup {None}]
Steps == {"none", "plan", "copy", "copying", "rebase", "define", "remove",
          "prepare", "mirror", "pivoted", "define_live", "remove_live",
          "success", "failed"}

Init ==
    /\ file = [p \in Paths |-> IF p = <<Home, 1>> THEN 0 ELSE None]
    /\ xml = <<Home, 1>>
    /\ run \in {None, xml}
    /\ latest = 0
    /\ booting = {} /\ asking = {}
    /\ Queue!Init
    /\ plan = [m \in Migrations |-> None]
    /\ step = [m \in Migrations |-> "none"]
    /\ canceled = {}
    /\ windows = {}

Executing == {m \in Migrations : phase[m] = "executing"}
Go(m, to) == step' = [step EXCEPT ![m] = to]
MayFail == "fail" \in Faults

-----------------------------------------------------------------------------
(* The guest.  Its writes to a file that was removed under it are lost     *)
(* with the file.                                                          *)

GuestWrites ==
    /\ run # None
    /\ latest < MaxWrites
    /\ latest' = latest + 1
    /\ file' = IF file[run] = None THEN file ELSE [file EXCEPT ![run] = latest']
    /\ UNCHANGED <<xml, run, booting, asking, tasks, windows>>

GuestStops ==
    /\ run # None
    /\ run' = None
    /\ UNCHANGED <<file, xml, latest, booting, asking, tasks, windows>>

-----------------------------------------------------------------------------
(* Requests: EnsureVMNotMigrating, then quota, maintenance mode and        *)
(* network checks, then the act.                                           *)

IsVMUnderMigration == \E m \in Migrations : phase[m] \in {"waiting", "executing"}

CheckStart(s) ==
    /\ s \notin booting
    /\ ~ IsVMUnderMigration
    /\ booting' = booting \cup {s}
    /\ UNCHANGED <<disks, asking, tasks, windows>>

StartVM(s) ==
    /\ s \in booting
    /\ booting' = booting \ {s}
    /\ IF run = None /\ file[xml] # None
       THEN /\ run' = xml
            /\ windows' = IF IsVMUnderMigration THEN windows \cup {"start"} ELSE windows
       ELSE UNCHANGED <<run, windows>>
    /\ UNCHANGED <<file, xml, latest, asking, tasks>>

MigrateDisk(m) ==
    /\ phase[m] = "new" /\ m \notin asking
    /\ ~ IsVMUnderMigration
    /\ asking' = asking \cup {m}
    /\ UNCHANGED <<disks, booting, tasks, windows>>

SubmitMigration(m) ==
    /\ m \in asking
    /\ asking' = asking \ {m}
    /\ windows' = IF IsVMUnderMigration THEN windows \cup {"overlap"} ELSE windows
    /\ Queue!Accept(m)
    /\ UNCHANGED <<disks, booting, plan, step, canceled>>

CancelTask(m) ==
    /\ "cancel" \in Faults
    /\ \/ Queue!Skip(m) /\ UNCHANGED canceled
       \/ /\ phase[m] = "executing" /\ m \notin canceled
          /\ canceled' = canceled \cup {m} /\ UNCHANGED phase
    /\ UNCHANGED <<disks, booting, asking, plan, step, windows>>

-----------------------------------------------------------------------------
(* The task.                                                               *)

Execute(m) ==
    /\ Queue!Execute(m)
    /\ Go(m, "plan")
    /\ UNCHANGED <<disks, booting, asking, plan, canceled, windows>>

ActivePath == IF run = None THEN xml ELSE run

Fails(m) == Go(m, "failed")

(* The first name in the pool that is free.                                *)
buildUniqueDiskMigrationTargetPath(pool) ==
    {<<pool, n>> : n \in {k \in Names : /\ file[<<pool, k>>] = None
                                        /\ \A j \in Names : j < k => file[<<pool, j>>] # None}}

(* A disk that is in the pool already is refused, and a missing one; a     *)
(* canceled task ends after the plan.                                      *)
buildVMDiskMigrationPlan(m) ==
    /\ step[m] = "plan"
    /\ \/ UNCHANGED plan /\ Fails(m)
       \/ /\ m \notin canceled
          /\ file[ActivePath] # None
          /\ \E pool \in Pools \ {ActivePath[1]} :
             \E target \in buildUniqueDiskMigrationTargetPath(pool) :
             LET mode == IF run = None THEN "cold" ELSE "live" IN
             /\ plan' = [plan EXCEPT ![m] = [source |-> ActivePath, target |-> target,
                                             mode |-> mode, read |-> None]]
             /\ Go(m, IF mode = "cold" THEN "copy" ELSE "prepare")
    /\ UNCHANGED <<disks, booting, asking, phase, canceled, windows>>

Source(m) == plan[m].source
Target(m) == plan[m].target
Remove(path) == file' = [file EXCEPT ![path] = None]

(* cp reads the source while it runs; what it copies is what was there.    *)
CopyBegins(m) ==
    /\ step[m] = "copy"
    /\ IF file[Source(m)] = None
       THEN Fails(m) /\ Remove(Target(m)) /\ UNCHANGED plan
       ELSE /\ plan' = [plan EXCEPT ![m].read = file[Source(m)]]
            /\ file' = [file EXCEPT ![Target(m)] = 0]
            /\ Go(m, "copying")
    /\ UNCHANGED <<xml, run, latest, booting, asking, phase, canceled, windows>>

CopyEnds(m) ==
    /\ step[m] = "copying"
    /\ \/ /\ m \in canceled \/ MayFail
          /\ Fails(m) /\ Remove(Target(m))
       \/ /\ m \notin canceled
          /\ file' = [file EXCEPT ![Target(m)] = plan[m].read]
          /\ Go(m, "rebase")
    /\ UNCHANGED <<xml, run, latest, booting, asking, phase, plan, canceled, windows>>

(* The backing path is set again; no context from here on.                 *)
Rebase(m) ==
    /\ step[m] = "rebase"
    /\ \/ Go(m, "define") /\ UNCHANGED file
       \/ MayFail /\ Fails(m) /\ Remove(Target(m))
    /\ UNCHANGED <<xml, run, latest, booting, asking, phase, plan, canceled, windows>>

(* UpdateInactiveDomainDiskPath: the source's path is replaced; a          *)
(* definition that names neither path is an error.                         *)
Redefines(m) == \/ xml = Source(m) /\ xml' = Target(m)
                \/ xml = Target(m) /\ UNCHANGED xml

(* Fault: the copy is left when the definition cannot be saved.            *)
DefineColdKeeps(m) ==
    /\ step[m] = "define"
    /\ \/ Redefines(m) /\ Go(m, "remove")
       \/ /\ MayFail \/ xml \notin {Source(m), Target(m)}
          /\ Fails(m) /\ UNCHANGED xml
    /\ UNCHANGED <<file, run, latest, booting, asking, phase, plan, canceled, windows>>

(* Fault: the source is removed before the definition names the target.    *)
DefineColdLate(m) ==
    /\ step[m] = "define"
    /\ \/ Remove(Source(m)) /\ Redefines(m) /\ Go(m, "success")
       \/ Remove(Source(m)) /\ MayFail /\ Fails(m) /\ UNCHANGED xml
    /\ UNCHANGED <<run, latest, booting, asking, phase, plan, canceled, windows>>

DefineCold(m) ==
    /\ step[m] = "define"
    /\ \/ Redefines(m) /\ Go(m, "remove") /\ UNCHANGED file
       \/ /\ MayFail \/ xml \notin {Source(m), Target(m)}
          /\ Fails(m) /\ Remove(Target(m)) /\ UNCHANGED xml
    /\ UNCHANGED <<run, latest, booting, asking, phase, plan, canceled, windows>>

RemoveSource(m) ==
    /\ step[m] = "remove"
    /\ \/ Remove(Source(m)) /\ Go(m, "success")
       \/ MayFail /\ Fails(m) /\ UNCHANGED file
    /\ UNCHANGED <<xml, run, latest, booting, asking, phase, plan, canceled, windows>>

(* Live: a chained disk gets its target overlay first; a failure leaves    *)
(* what was created.                                                       *)
prepareLiveShallowDiskTarget(m) ==
    /\ step[m] = "prepare"
    /\ \/ /\ \/ UNCHANGED file
             \/ file' = [file EXCEPT ![Target(m)] = 0]
          /\ Go(m, "mirror")
       \/ /\ m \in canceled \/ MayFail
          /\ \/ UNCHANGED file
             \/ file' = [file EXCEPT ![Target(m)] = 0]
          /\ Fails(m)
    /\ UNCHANGED <<xml, run, latest, booting, asking, phase, plan, canceled, windows>>

(* virsh blockcopy --wait --pivot: when the mirror is in step libvirt      *)
(* switches the machine to the target, and virsh then exits.               *)
Pivot(m) ==
    /\ step[m] = "mirror"
    /\ run = Source(m)
    /\ file[Source(m)] # None
    /\ file' = [file EXCEPT ![Target(m)] = file[Source(m)]]
    /\ run' = Target(m)
    /\ Go(m, "pivoted")
    /\ UNCHANGED <<xml, latest, booting, asking, phase, plan, canceled, windows>>

(* The command fails, or is killed: the job is aborted and the target is   *)
(* removed, whatever libvirt has done in the meantime.                     *)
BlockcopyFails(m) ==
    /\ \/ step[m] = "mirror" /\ (MayFail \/ m \in canceled \/ run # Source(m))
       \/ step[m] = "pivoted" /\ m \in canceled
    /\ windows' = IF step[m] = "pivoted" THEN windows \cup {"pivot"} ELSE windows
    /\ Remove(Target(m))
    /\ Fails(m)
    /\ UNCHANGED <<xml, run, latest, booting, asking, phase, plan, canceled>>

BlockcopyReturns(m) ==
    /\ step[m] = "pivoted"
    /\ Go(m, "define_live")
    /\ UNCHANGED <<disks, booting, asking, phase, plan, canceled, windows>>

(* An error leaves the machine on the target and the definition on the     *)
(* source.                                                                 *)
DefineLive(m) ==
    /\ step[m] = "define_live"
    /\ \/ Redefines(m) /\ Go(m, "remove_live") /\ UNCHANGED windows
       \/ /\ MayFail \/ xml \notin {Source(m), Target(m)}
          /\ windows' = windows \cup {"define"}
          /\ Fails(m) /\ UNCHANGED xml
    /\ UNCHANGED <<file, run, latest, booting, asking, phase, plan, canceled>>

removeSourceDiskAfterPivot(m) ==
    /\ step[m] = "remove_live"
    /\ \/ ActivePath = Target(m) /\ Remove(Source(m)) /\ Go(m, "success")
       \/ /\ MayFail \/ ActivePath # Target(m)
          /\ Fails(m) /\ UNCHANGED file
    /\ UNCHANGED <<xml, run, latest, booting, asking, phase, plan, canceled, windows>>

Settle(m) ==
    /\ step[m] \in {"success", "failed"}
    /\ Queue!Settle(m)
    /\ Go(m, "none")
    /\ UNCHANGED <<disks, booting, asking, plan, canceled, windows>>

-----------------------------------------------------------------------------
(* The panel dies: its requests and tasks are gone, the machine, its       *)
(* definition and the files are as they were.                              *)
Crash ==
    /\ "crash" \in Faults
    /\ Executing # {}
    /\ windows' = IF \E m \in Executing : step[m] \in {"pivoted", "define_live"}
                  THEN windows \cup {"define"} ELSE windows
    /\ phase' = [m \in Migrations |-> IF phase[m] = "new" THEN "new" ELSE "settled"]
    /\ step' = [m \in Migrations |-> "none"]
    /\ booting' = {} /\ asking' = {} /\ canceled' = {}
    /\ UNCHANGED <<disks, plan>>

Task(m) ==
    \/ Execute(m) \/ buildVMDiskMigrationPlan(m)
    \/ CopyBegins(m) \/ CopyEnds(m) \/ Rebase(m) \/ DefineCold(m) \/ RemoveSource(m)
    \/ prepareLiveShallowDiskTarget(m) \/ Pivot(m) \/ BlockcopyFails(m)
    \/ BlockcopyReturns(m) \/ DefineLive(m) \/ removeSourceDiskAfterPivot(m)
    \/ Settle(m)

Next ==
    \/ GuestWrites \/ GuestStops \/ Crash
    \/ \E s \in Starters : CheckStart(s) \/ StartVM(s)
    \/ \E m \in Migrations : MigrateDisk(m) \/ SubmitMigration(m) \/ CancelTask(m) \/ Task(m)

Spec == Init /\ [][Next]_vars

-----------------------------------------------------------------------------
TypeOK ==
    /\ file \in [Paths -> Versions \cup {None}]
    /\ xml \in Paths /\ run \in Paths \cup {None} /\ latest \in Versions
    /\ booting \subseteq Starters /\ asking \subseteq Migrations
    /\ phase \in [Migrations -> Queue!Phases]
    /\ plan \in [Migrations -> Plans \cup {None}]
    /\ step \in [Migrations -> Steps]
    /\ canceled \subseteq Migrations
    /\ windows \subseteq {"start", "overlap", "pivot", "define"}

(* The disk the machine uses, or would boot from once the pending task is  *)
(* through, holds everything the guest wrote.                              *)
Pivoted == \E m \in Executing : step[m] \in {"pivoted", "define_live"}
Current == /\ run # None => file[run] = latest
           /\ (run = None /\ ~ Pivoted) => file[xml] = latest

(* Outside the four known windows nothing the guest wrote is lost: not by  *)
(* a failed or canceled copy, a crash, a machine that stops while its disk *)
(* is mirrored, or a migration after another.                              *)
DataKept == windows = {} => Current

(* A migration that reports success has moved the disk: the definition     *)
(* names the target, nothing uses the source and the source is gone.  A    *)
(* cold one that fails or is canceled, at any of its steps, leaves no file *)
(* behind that the machine does not use (disk_migration.go:336-446).       *)
OneDiskIsLeft ==
    windows = {} =>
        \A m \in Migrations :
            /\ step[m] = "success" =>
                 /\ xml = Target(m) /\ run \in {None, Target(m)}
                 /\ file[Source(m)] = None
            /\ (step[m] = "failed" /\ plan[m] # None /\ plan[m].mode = "cold"
                  /\ xml # Target(m)) => file[Target(m)] = None

-----------------------------------------------------------------------------
(* Claims the code does not keep.                                          *)

(* EnsureVMNotMigrating "keeps a machine under migration from being        *)
(* modified" (service/vm/migration/lock.go:56): a start that had passed    *)
(* the check starts the machine on the source that is being copied.        *)
StartIsHarmless == windows \subseteq {"start"} => Current
=============================================================================
