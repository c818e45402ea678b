----------------------------- MODULE Snapshots -----------------------------
(***************************************************************************)
(* The snapshots of one machine with one disk (service/snapshot): making   *)
(* them, going back to one, and deleting one or all of them.  Internal     *)
(* ones are kept in the file of the disk, external ones are chains of      *)
(* overlay files that the code rearranges itself.  What a file holds is    *)
(* the last write of the guest in it, None for an overlay without any.     *)
(* virsh and qemu-img are modelled by what the code expects of them.       *)
(***************************************************************************)
EXTENDS Naturals, FiniteSets, QueueSlots

CONSTANTS
    Requests,      \* numbers of the requests, which are those of their tasks
    SnapshotNames, \* names of snapshots
    Generated,     \* the names GenerateSnapshotName makes: snap_...
    MaxChanges,    \* bound: writes of the guest
    MaxFaults      \* bound: commands that fail, and crashes

VARIABLES
    files,         \* files: what they lie on, their own data, the words of their names
    lastFile,
    disk,          \* the file of the machine's disk
    power,         \* "off" or "running"
    snaps,         \* the snapshots libvirt lists
    current,       \* the one it takes for the parent of the next
    seen,          \* history: what the guest last wrote or went back to
    written,
    states,        \* the tasks, as the queue promises them
    ask,           \* what each request asks for
    job,           \* tasks at work
    faults,
    missteps       \* history: what the properties do not speak of

machine == <<files, lastFile, disk, power, snaps, current, seen>>
snapshotVars == <<machine, written, states, ask, job, faults, missteps>>

SnapshotQueue == INSTANCE TaskLifecycle WITH Tasks <- Requests, phase <- states

-----------------------------------------------------------------------------
(* Chains of files, and what is read through them: None when one is gone.  *)

ChainIn(fs, f) ==
    LET c[g \in 0..f] ==
          IF g \notin DOMAIN fs THEN {}
          ELSE {g} \cup IF fs[g].base = None THEN {} ELSE c[fs[g].base]
    IN c[f]

ReadsIn(fs, f) ==
    LET d[g \in 0..f] ==
          IF g \notin DOMAIN fs THEN None
          ELSE IF fs[g].base = None THEN fs[g].data
          ELSE IF d[fs[g].base] = None \/ fs[g].data = None THEN d[fs[g].base]
          ELSE fs[g].data
    IN d[f]

Chain(f) == ChainIn(files, f)
Reads(f) == ReadsIn(files, f)
Base(f) == IF f \in DOMAIN files THEN files[f].base ELSE None
Without(f) == [g \in DOMAIN files \ {f} |-> files[g]]
With(fs, f, r) == [g \in DOMAIN fs \cup {f} |-> IF g = f THEN r ELSE fs[g]]
External(s) == snaps[s].overlay # None

(* What going back to a snapshot gives.                                    *)
Given(s) ==
    LET t == snaps[s] IN
    IF t.overlay # None \/ t.saved # None THEN
        IF t.overlay # None THEN Reads(t.origin) ELSE t.saved
    ELSE Reads(Base(t.origin))

(* Files overlays of which other snapshots are gone back to.               *)
getProtectedExternalSnapshotRestoreFiles(list, except) ==
    {snaps[s].origin : s \in {t \in list \ {except} : External(t)}}

-----------------------------------------------------------------------------
Contents == 0..MaxChanges
Images ==
    [base : Nat \cup {None}, data : Contents \cup {None}, words : SUBSET SnapshotNames,
     managed : BOOLEAN]
Entries ==
    [origin : Nat, overlay : Nat \cup {None}, saved : Contents \cup {None},
     state : {"off", "running"}, parent : SnapshotNames \cup {None}, want : Contents,
     touched : BOOLEAN]
Lists == UNION {[names -> Entries] : names \in SUBSET SnapshotNames}
Asks ==
    [op : {"create", "revert", "delete"}, name : SnapshotNames, memory : BOOLEAN]
    \cup [op : {"delete_all"}, name : {None}, memory : {FALSE}]
Jobs ==
    [pc : {"create", "make", "revert", "switch", "overlay", "edit", "pointer", "start",
           "delete", "delete_all", "external", "internal", "files", "mismatch", "fold",
           "redefine", "metadata", "retry", "residual", "last", "cleanup", "end"},
     name : SnapshotNames \cup {None}, site : {"none", "files", "mismatch", "residual", "last"},
     disk : Nat \cup {None}, on : BOOLEAN, base : Nat \cup {None}, snaps : Lists,
     kept : SUBSET Nat, snap : Entries \cup {None}, new : Nat \cup {None}]

ASSUME SnapshotsAssumption ==
    /\ Requests \subseteq Nat /\ MaxChanges \in Nat /\ MaxFaults \in Nat
    /\ None \notin Nat \cup SnapshotNames \cup Entries \cup Asks \cup Jobs

Nothing == [n \in {} |-> None]

InitSnapshots ==
    /\ files = [f \in {0} |-> [base |-> None, data |-> 0, words |-> {}, managed |-> FALSE]]
    /\ lastFile = 0 /\ disk = 0 /\ power = "off"
    /\ snaps = Nothing /\ current = None
    /\ seen = 0 /\ written = 0
    /\ SnapshotQueue!Init
    /\ ask = [r \in Requests |-> None]
    /\ job = [r \in Requests |-> None]
    /\ faults = 0 /\ missteps = {}

-----------------------------------------------------------------------------
Running == power = "running"
Fault == faults < MaxFaults /\ faults' = faults + 1
At(r, pc) == job[r] # None /\ job[r].pc = pc
To(r, j) == job' = [job EXCEPT ![r] = j]
GoTo(r, pc) == To(r, [job[r] EXCEPT !.pc = pc])
Fresh(pc, name) ==
    [pc |-> pc, name |-> name, site |-> "none", disk |-> None, on |-> FALSE, base |-> None,
     snaps |-> Nothing, kept |-> {}, snap |-> None, new |-> None]
End(r) == To(r, Fresh("end", None))
Window(w) == missteps' = missteps \cup w

(* What a step was decided on is no longer so: another task or a start     *)
(* came in between.                                                        *)
Stale(r) ==
    \/ disk # job[r].disk \/ Running # job[r].on \/ snaps # job[r].snaps
    \/ job[r].site = "residual" /\ job[r].name \in DOMAIN snaps
    \/ job[r].site = "last" /\ DOMAIN snaps # {}
Overtaken(r) == IF Stale(r) THEN {"overtaken"} ELSE {}

(* The list changed since the task chose what to delete.                   *)
Changed(r) == IF snaps = job[r].snaps THEN {} ELSE {"overtaken"}

(* A list that cannot be read is taken for an empty one.                   *)
ListSnapshots(list, w) ==
    \/ list = DOMAIN snaps /\ UNCHANGED faults /\ Window(w)
    \/ list = {} /\ DOMAIN snaps # {} /\ Fault /\ Window({"unlisted"})

(* The disk, its state and the restore points, before an overlay is taken  *)
(* out at one of four places.                                              *)
Look(r, pc, site) ==
    \E list \in {DOMAIN snaps, {}} :
        /\ ListSnapshots(list, IF job[r].snap = None THEN {} ELSE Changed(r))
        /\ To(r, [job[r] EXCEPT !.pc = pc, !.site = site, !.disk = disk, !.on = Running,
                    !.base = Base(disk),
                    !.snaps = IF job[r].snap = None THEN snaps ELSE @,
                    !.kept = getProtectedExternalSnapshotRestoreFiles(list, job[r].name)])

Fail(r) == Fault /\ End(r) /\ UNCHANGED <<machine, missteps>>

-----------------------------------------------------------------------------
(* The guest, its users, and schedules, which do not ask for snapshots.    *)

GuestChanges ==
    /\ Running /\ written < MaxChanges /\ disk \in DOMAIN files
    /\ written' = written + 1 /\ seen' = written + 1
    /\ files' = [files EXCEPT ![disk].data = written + 1]
    /\ UNCHANGED <<lastFile, disk, power, snaps, current, states, ask, job, faults, missteps>>

GuestPowersOff ==
    /\ Running /\ power' = "off"
    /\ UNCHANGED <<files, lastFile, disk, snaps, current, seen, written, states, ask, job,
                   faults, missteps>>

(* The machine is given another disk, or started, while a task is about to *)
(* give it the disk it has committed to.                                   *)
Redefining(others) == IF \E r \in others : At(r, "redefine") THEN {"overtaken"} ELSE {}

StartMachine ==
    /\ ~ Running /\ Reads(disk) # None /\ power' = "running" /\ Window(Redefining(Requests))
    /\ UNCHANGED <<files, lastFile, disk, snaps, current, seen, written, states, ask, job, faults>>

-----------------------------------------------------------------------------
(* Requests and tasks.  A task at work is not told that it is canceled;    *)
(* one that is canceled earlier does nothing, as if not asked for.         *)

Wishes ==
    [op : {"create"}, name : SnapshotNames, memory : BOOLEAN]
    \cup [op : {"revert", "delete"}, name : DOMAIN snaps, memory : {FALSE}]
    \cup [op : {"delete_all"}, name : {None}, memory : {FALSE}]

Submit(r) ==
    /\ \A q \in Requests : q < r => states[q] # "new"
    /\ SnapshotQueue!Accept(r)
    /\ \E w \in Wishes : ask' = [ask EXCEPT ![r] = w]
    /\ UNCHANGED <<machine, written, job, faults, missteps>>

ExecuteSnapshot(r) ==
    /\ SnapshotQueue!Execute(r)
    /\ To(r, Fresh(ask[r].op, ask[r].name))
    /\ UNCHANGED <<machine, written, ask, faults, missteps>>

Return(r) ==
    /\ At(r, "end") /\ SnapshotQueue!Settle(r)
    /\ job' = [job EXCEPT ![r] = None] /\ ask' = [ask EXCEPT ![r] = None]
    /\ UNCHANGED <<machine, written, faults, missteps>>

SnapshotCrash ==
    /\ Fault
    /\ \E r \in Requests : job[r] # None
    /\ states' = [r \in Requests |-> IF states[r] = "new" THEN "new" ELSE "settled"]
    /\ job' = [r \in Requests |-> None] /\ ask' = [r \in Requests |-> None]
    /\ UNCHANGED <<machine, written, missteps>>

-----------------------------------------------------------------------------
(* CreateSnapshotWithOptions.                                              *)

CreateSnapshotWithOptions(r) ==
    /\ At(r, "create")
    /\ To(r, [job[r] EXCEPT !.pc = "make", !.on = Running])
    /\ UNCHANGED <<machine, faults, missteps>>

Snapshot(overlay, saved) ==
    [origin |-> disk, overlay |-> overlay, saved |-> saved, state |-> power,
     parent |-> current, want |-> Reads(disk), touched |-> FALSE]

(* A running machine without its memory: a new file, in which it goes on.  *)
DiskOnly(r) ==
    LET n == job[r].name IN
    /\ lastFile' = lastFile + 1 /\ disk' = lastFile + 1
    /\ files' = With(files, lastFile + 1,
                   [base |-> disk, data |-> None, words |-> files[disk].words \cup {n},
                    managed |-> files[disk].managed \/ n \in Generated])
    /\ snaps' = With(snaps, n, Snapshot(lastFile + 1, None))

Internal(r) ==
    /\ snaps' = With(snaps, job[r].name, Snapshot(None, files[disk].data))
    /\ UNCHANGED <<files, lastFile, disk>>

(* The file of the disk is the one the parent was taken of, or lies on it. *)
Under(f, p) ==
    \/ Base(f) = None
    \/ p # None /\ snaps[p].origin = f
    \/ /\ p # None /\ External(p) /\ snaps[p].origin = Base(f)
       /\ \A s \in DOMAIN snaps \ {p} : snaps[s].overlay # f

SnapshotCreateAs(r) ==
    /\ At(r, "make") /\ job[r].name \notin DOMAIN snaps /\ Reads(disk) # None
    /\ \/ job[r].on /\ ~ ask[r].memory /\ DiskOnly(r)
       \/ job[r].on /\ ask[r].memory /\ Running /\ Internal(r)
       \/ ~ job[r].on /\ Internal(r)
    /\ current' = job[r].name
    /\ Window((IF Under(disk, current) THEN {} ELSE {"adrift"})
              \cup IF disk' # disk THEN Redefining(Requests) ELSE {})
    /\ End(r) /\ UNCHANGED <<power, seen, faults>>

CreateRefused(r) ==
    /\ At(r, "make")
    /\ \/ job[r].name \in DOMAIN snaps \/ Reads(disk) = None
       \/ job[r].on /\ ask[r].memory /\ ~ Running
    /\ End(r) /\ UNCHANGED <<machine, faults, missteps>>

-----------------------------------------------------------------------------
(* RevertSnapshot.                                                         *)

Known(r) == job[r].name \in DOMAIN snaps

RevertSnapshot(r) ==
    /\ At(r, "revert")
    /\ IF ~ Known(r) THEN End(r) /\ UNCHANGED power
       ELSE LET s == snaps[job[r].name] IN
            IF s.overlay = None THEN GoTo(r, "switch") /\ UNCHANGED power
            ELSE /\ power' = "off"
                 /\ To(r, [job[r] EXCEPT
                       !.pc = IF Reads(s.origin) # None /\ s.overlay \in DOMAIN files
                              THEN "overlay" ELSE "end",
                       !.snap = s, !.disk = disk, !.on = FALSE, !.snaps = snaps])
    /\ UNCHANGED <<files, lastFile, disk, snaps, current, seen, faults, missteps>>

(* virsh snapshot-revert: the file is as it was, and is the disk again.    *)
SnapshotRevert(r) ==
    /\ At(r, "switch")
    /\ LET s == snaps[job[r].name] IN
       IF Known(r) /\ s.overlay = None /\ Reads(s.origin) # None /\ (Running => disk = s.origin)
       THEN /\ files' = [files EXCEPT ![s.origin].data = s.saved]
            /\ disk' = s.origin /\ power' = s.state /\ seen' = s.want
            /\ current' = job[r].name
            /\ Window(Redefining(Requests)
                      \cup (IF \E f \in DOMAIN files : files[f].base = s.origin
                            THEN {"shared"} ELSE {})
                      \cup (IF s.touched /\ Given(job[r].name) # s.want THEN {"halfway"} ELSE {}))
       ELSE UNCHANGED <<files, disk, power, current, seen, missteps>>
    /\ End(r) /\ UNCHANGED <<lastFile, snaps, faults>>

createExternalSnapshotRestoreOverlay(r) ==
    /\ At(r, "overlay")
    /\ LET o == job[r].snap.origin IN
       IF o \in DOMAIN files
       THEN /\ lastFile' = lastFile + 1
            /\ files' = With(files, lastFile + 1,
                  [base |-> o, data |-> None, words |-> files[o].words \cup {job[r].name},
                   managed |-> TRUE])
            /\ To(r, [job[r] EXCEPT !.pc = "edit", !.new = lastFile + 1])
       ELSE End(r) /\ UNCHANGED <<files, lastFile>>
    /\ UNCHANGED <<disk, power, snaps, current, seen, faults, missteps>>

(* Fault: the machine goes on in the file that is the restore point.       *)
EditToOrigin(r) ==
    /\ At(r, "edit")
    /\ disk' = job[r].snap.origin /\ seen' = job[r].snap.want /\ GoTo(r, "pointer")
    /\ UNCHANGED <<files, lastFile, power, snaps, current, faults, missteps>>

(* virsh edit by sed: the old file is replaced if it is there.  A snapshot *)
(* whose deletion failed halfway may no longer give what it should.        *)
EditDomain(r) ==
    /\ At(r, "edit")
    /\ \/ /\ IF disk = job[r].disk
             THEN disk' = job[r].new /\ seen' = job[r].snap.want
             ELSE UNCHANGED <<disk, seen>>
          /\ Window(Overtaken(r) \cup Redefining(Requests)
                    \cup (IF job[r].new \in DOMAIN files THEN {} ELSE {"overtaken"})
                    \cup (IF job[r].snap.touched /\ Reads(job[r].new) # job[r].snap.want
                          THEN {"halfway"} ELSE {}))
          /\ GoTo(r, "pointer") /\ UNCHANGED <<files, faults>>
       \/ /\ Fault /\ files' = Without(job[r].new) /\ End(r)
          /\ UNCHANGED <<disk, seen, missteps>>
    /\ UNCHANGED <<lastFile, power, snaps, current>>

SnapshotCurrent(r) ==
    /\ At(r, "pointer")
    /\ IF Known(r) THEN current' = job[r].name /\ To(r, Fresh("start", None))
       ELSE End(r) /\ UNCHANGED current
    /\ UNCHANGED <<files, lastFile, disk, power, snaps, seen, faults, missteps>>

StartReverted(r) ==
    /\ At(r, "start") /\ End(r)
    /\ power' = IF Reads(disk) # None THEN "running" ELSE power
    /\ Window(Redefining(Requests))
    /\ UNCHANGED <<files, lastFile, disk, snaps, current, seen, faults>>

-----------------------------------------------------------------------------
(* DeleteSnapshot and DeleteAllSnapshots.                                  *)

All(r) == ask[r].op = "delete_all"
Preserve(r) == ~ All(r)
Leaves == {n \in DOMAIN snaps : \A m \in DOMAIN snaps : snaps[m].parent # n}

Begin(r, n, doomed) ==
    /\ snaps' = [m \in DOMAIN snaps |->
                   [snaps[m] EXCEPT !.touched = @ \/ m \in doomed]]
    /\ To(r, [Fresh(IF External(n) THEN "external" ELSE "internal", n)
                EXCEPT !.snap = snaps[n], !.snaps = snaps'])

DeleteSnapshot(r) ==
    /\ At(r, "delete")
    /\ IF job[r].name \in Leaves THEN Begin(r, job[r].name, {job[r].name})
       ELSE End(r) /\ UNCHANGED snaps
    /\ UNCHANGED <<files, lastFile, disk, power, current, seen, faults, missteps>>

(* The next leaf, or none is left.                                         *)
DeleteAllSnapshots(r) ==
    /\ At(r, "delete_all")
    /\ \E list \in {DOMAIN snaps, {}} :
         /\ ListSnapshots(list, {})
         /\ \/ \E n \in list \cap Leaves : Begin(r, n, DOMAIN snaps)
            \/ list = {} /\ To(r, Fresh("last", None)) /\ UNCHANGED snaps
    /\ UNCHANGED <<files, lastFile, disk, power, current, seen>>

LookAtDisk(r) ==
    /\ \/ At(r, "external") /\ Look(r, "files", "files")
       \/ At(r, "mismatch") /\ Look(r, "fold", "mismatch")
       \/ At(r, "residual") /\ Look(r, "fold", "residual")
       \/ At(r, "last") /\ Look(r, "fold", "last")
    /\ UNCHANGED machine

(* deleteExternalSnapshot: the overlay of the machine's disk is folded; of *)
(* another one the contents go, or are written below it.                   *)
Commit(f) ==
    [Without(f) EXCEPT ![files[f].base].data = IF files[f].data = None THEN @ ELSE files[f].data]

(* qemu-img needs the lock of both files.                                  *)
Committable(f) ==
    /\ f \in DOMAIN files /\ Base(f) \in DOMAIN files
    /\ Running => Chain(f) \cap Chain(disk) \cap {f, Base(f)} = {}

deleteExternalSnapshot(r) ==
    /\ At(r, "files")
    /\ LET f == job[r].snap.overlay IN
       IF f = job[r].disk
       THEN GoTo(r, "fold") /\ UNCHANGED <<files, faults, missteps>>
       ELSE /\ To(r, Fresh("metadata", job[r].name))
            /\ \/ /\ Preserve(r) /\ files' = Without(f) /\ UNCHANGED faults
                  /\ Window(Changed(r) \cup IF f \in Chain(disk) THEN {"under"} ELSE {})
               \/ /\ All(r) /\ Committable(f) /\ files' = Commit(f) /\ UNCHANGED faults
                  /\ Window(Changed(r) \cup IF Base(f) \in Chain(disk) THEN {"below"} ELSE {})
               \/ /\ All(r) /\ UNCHANGED <<files, missteps>>
                  /\ IF Committable(f) THEN Fault ELSE UNCHANGED faults
    /\ UNCHANGED <<lastFile, disk, power, snaps, current, seen>>

(* Where it goes on when the overlay is folded.                            *)
Folded(r) ==
    CASE job[r].site = "files" -> "metadata"
      [] job[r].site = "mismatch" -> "retry"
      [] OTHER -> "cleanup"

(* isLikelyExternalSnapshotOverlay, and for the residue of a snapshot its  *)
(* name.                                                                   *)
Foldable(r) ==
    /\ job[r].base # None
    /\ job[r].site = "files" \/ (job[r].disk \in DOMAIN files => files[job[r].disk].managed)
    /\ job[r].site = "residual" /\ job[r].disk \in DOMAIN files =>
          job[r].name \in files[job[r].disk].words

NothingToFold(r) ==
    /\ At(r, "fold") /\ ~ Foldable(r)
    /\ To(r, Fresh(CASE job[r].site = "files" -> "end"
                      [] job[r].site = "mismatch" -> IF All(r) THEN "metadata" ELSE "end"
                      [] OTHER -> "cleanup", job[r].name))
    /\ UNCHANGED <<machine, faults, missteps>>

(* The file goes in which a snapshot lies that nobody deletes.             *)
Swallowed(f) ==
    IF \E s \in DOMAIN snaps : ~ snaps[s].touched /\ f \in {snaps[s].origin, snaps[s].overlay}
    THEN {"swallowed"} ELSE {}

IsKept(r) == Preserve(r) /\ job[r].base \in job[r].kept

copyActiveExternalOverlayToStandalone(r) ==
    /\ lastFile' = lastFile + 1 /\ disk' = lastFile + 1
    /\ files' = With(Without(job[r].disk), lastFile + 1,
                   [files[disk] EXCEPT !.base = None, !.data = Reads(disk)])

commitActiveExternalOverlay(r) ==
    /\ Base(disk) # None
    /\ disk' = Base(disk)
    /\ files' = Commit(disk)
    /\ UNCHANGED lastFile

(* The running machine is moved to another file by libvirt.                *)
FoldRunning(r) ==
    /\ At(r, "fold") /\ Foldable(r) /\ job[r].on
    /\ IF Running /\ Reads(disk) # None /\ (IsKept(r) \/ Base(disk) # None)
       THEN /\ IF IsKept(r) THEN copyActiveExternalOverlayToStandalone(r)
                            ELSE commitActiveExternalOverlay(r)
            /\ To(r, Fresh(IF disk' = job[r].disk THEN "end" ELSE Folded(r), job[r].name))
            /\ Window(Overtaken(r) \cup Swallowed(disk))
       ELSE End(r) /\ UNCHANGED <<files, lastFile, disk, missteps>>
    /\ UNCHANGED <<power, snaps, current, seen, faults>>

(* Of a machine that is off, an overlay on another's restore point is not  *)
(* committed: its own deletion removes it, other places give up.           *)
FoldKept(r) ==
    /\ At(r, "fold") /\ Foldable(r) /\ ~ job[r].on /\ IsKept(r)
    /\ IF job[r].site = "files"
       THEN /\ files' = Without(job[r].disk)
            /\ To(r, Fresh("metadata", job[r].name)) /\ Window({"dangling"})
       ELSE End(r) /\ UNCHANGED <<files, missteps>>
    /\ UNCHANGED <<lastFile, disk, power, snaps, current, seen, faults>>

(* Fault: an error of qemu-img commit is not heeded.                       *)
CommitIgnored(r) ==
    /\ At(r, "fold") /\ Foldable(r) /\ ~ job[r].on /\ ~ IsKept(r)
    /\ GoTo(r, "redefine") /\ Window(Overtaken(r))
    /\ UNCHANGED <<machine, faults>>

commitInactiveExternalOverlay(r) ==
    /\ At(r, "fold") /\ Foldable(r) /\ ~ job[r].on /\ ~ IsKept(r)
    /\ LET f == job[r].disk IN
       IF Committable(f)
       THEN /\ files' = With(Commit(f), f, files[f])
            /\ GoTo(r, "redefine") /\ Window(Overtaken(r))
       ELSE End(r) /\ UNCHANGED <<files, missteps>>
    /\ UNCHANGED <<lastFile, disk, power, snaps, current, seen, faults>>

replaceVMDiskSource(r) ==
    /\ At(r, "redefine")
    /\ disk' = IF disk = job[r].disk THEN job[r].base ELSE disk
    /\ files' = Without(job[r].disk)
    /\ To(r, Fresh(Folded(r), job[r].name))
    /\ Window(Overtaken(r) \cup Redefining(Requests \ {r}) \cup Swallowed(job[r].disk))
    /\ UNCHANGED <<lastFile, power, snaps, current, seen, faults>>

(* libvirt forgets a snapshot; its parent takes its place.                 *)
Forget(n) ==
    /\ snaps' = [m \in DOMAIN snaps \ {n} |->
                   [snaps[m] EXCEPT !.parent = IF @ = n THEN snaps[n].parent ELSE @]]
    /\ current' = IF current = n THEN snaps[n].parent ELSE current

(* An external snapshot of which another was taken since it was chosen     *)
(* goes all the same.                                                      *)
Forgotten(r) ==
    /\ Window(IF External(job[r].name) /\ job[r].name \notin Leaves THEN {"overtaken"} ELSE {})
    /\ Forget(job[r].name) /\ To(r, Fresh(IF All(r) THEN "cleanup" ELSE "residual", job[r].name))

deleteSnapshotMetadataOnly(r) ==
    /\ At(r, "metadata")
    /\ IF Known(r) THEN Forgotten(r) ELSE End(r) /\ UNCHANGED <<snaps, current, missteps>>
    /\ UNCHANGED <<files, lastFile, disk, power, seen, faults>>

(* virsh snapshot-delete, which refuses when the disk is another file.     *)
SnapshotDelete(r) ==
    /\ At(r, "internal") \/ At(r, "retry")
    /\ \/ /\ Known(r) /\ disk = snaps[job[r].name].origin /\ Forgotten(r)
       \/ /\ Known(r) /\ disk # snaps[job[r].name].origin
          /\ GoTo(r, IF At(r, "internal") THEN "mismatch"
                   ELSE IF All(r) THEN "metadata" ELSE "end")
          /\ UNCHANGED <<snaps, current, missteps>>
       \/ ~ Known(r) /\ End(r) /\ UNCHANGED <<snaps, current, missteps>>
    /\ UNCHANGED <<files, lastFile, disk, power, seen, faults>>

(* Every file named for a snapshot goes that nothing listed lies on.       *)
cleanupSnapshotResidualFiles(r) ==
    /\ At(r, "cleanup")
    /\ \E list \in {DOMAIN snaps, {}} :
         /\ ListSnapshots(list, {})
         /\ LET held == Chain(disk)
                        \cup (UNION {Chain(snaps[s].origin) : s \in list})
                        \cup (UNION {Chain(snaps[s].overlay) : s \in {t \in list : External(t)}})
                residual == {f \in DOMAIN files \ held :
                               /\ files[f].managed
                               /\ job[r].name = None \/ job[r].name \in files[f].words}
            IN files' = [f \in DOMAIN files \ residual |-> files[f]]
    /\ To(r, Fresh(IF All(r) /\ job[r].name # None THEN "delete_all" ELSE "end", None))
    /\ UNCHANGED <<lastFile, disk, power, snaps, current, seen>>

(* A command fails, which ends the task.                                   *)
CommandFails(r) ==
    /\ \E pc \in {"overlay", "pointer", "start", "fold", "redefine", "metadata"} : At(r, pc)
    /\ Fail(r)

-----------------------------------------------------------------------------
Step(r) ==
    /\ \/ CreateSnapshotWithOptions(r) \/ SnapshotCreateAs(r) \/ CreateRefused(r)
       \/ RevertSnapshot(r) \/ SnapshotRevert(r)
       \/ createExternalSnapshotRestoreOverlay(r) \/ EditDomain(r) \/ SnapshotCurrent(r)
       \/ StartReverted(r)
       \/ DeleteSnapshot(r) \/ DeleteAllSnapshots(r) \/ LookAtDisk(r)
       \/ deleteExternalSnapshot(r) \/ NothingToFold(r) \/ FoldRunning(r) \/ FoldKept(r)
       \/ commitInactiveExternalOverlay(r) \/ replaceVMDiskSource(r)
       \/ deleteSnapshotMetadataOnly(r) \/ SnapshotDelete(r)
       \/ cleanupSnapshotResidualFiles(r) \/ CommandFails(r)
    /\ UNCHANGED <<written, states, ask>>

(* Nothing is said of what follows a window.                               *)
SnapshotsNext ==
    /\ missteps = {}
    /\ \/ GuestChanges \/ GuestPowersOff \/ StartMachine \/ SnapshotCrash
       \/ \E r \in Requests : Submit(r) \/ ExecuteSnapshot(r) \/ Step(r) \/ Return(r)

SnapshotsSpec == InitSnapshots /\ [][SnapshotsNext]_snapshotVars

-----------------------------------------------------------------------------
SnapshotsTypeOK ==
    /\ lastFile \in Nat
    /\ files \in [DOMAIN files -> Images] /\ DOMAIN files \subseteq 0..lastFile
    /\ disk \in 0..lastFile /\ power \in {"off", "running"}
    /\ snaps \in Lists /\ current \in {None} \cup DOMAIN snaps
    /\ \A s \in DOMAIN snaps : snaps[s].parent \in {None} \cup DOMAIN snaps
    /\ seen \in Contents /\ written \in Contents /\ faults \in 0..MaxFaults
    /\ states \in [Requests -> {"new", "waiting", "executing", "settled"}]
    /\ ask \in [Requests -> Asks \cup {None}] /\ job \in [Requests -> Jobs \cup {None}]
    /\ \A r \in Requests : states[r] \in {"waiting", "executing"} => ask[r] # None
    /\ \A r \in Requests : job[r] # None => states[r] = "executing"

(* A snapshot the code would go back to: its files are there.              *)
Restorable(s) ==
    /\ Reads(snaps[s].origin) # None
    /\ External(s) => snaps[s].overlay \in DOMAIN files

(* The machine's disk reads what the guest last wrote, or what it went     *)
(* back to, whatever snapshots are made and deleted (cleanup.go:46).       *)
CurrentKept == missteps = {} => Reads(disk) = seen

(* A snapshot that nobody deletes can be gone back to, which gives what    *)
(* the disk held when it was taken (external.go:151-153, cleanup.go:14-15).*)
SnapshotKept ==
    missteps = {} =>
        \A s \in DOMAIN snaps :
            snaps[s].touched \/ (Restorable(s) /\ Given(s) = snaps[s].want)

(* Deleting all snapshots keeps what the machine's disk holds.             *)
DeletionKeepsState == missteps \subseteq {"below"} => Reads(disk) = seen
=============================================================================
