---------------------------- MODULE DisksProofs ----------------------------
(***************************************************************************)
(* Proofs about the disk of a machine: moving it between pools             *)
(* (DiskMigration), for any pools, names, requests and faults, and its     *)
(* snapshots (Snapshots), for any requests, names, writes and faults.      *)
(* Outside the named windows what the guest wrote is kept.                 *)
(***************************************************************************)
EXTENDS DiskMigration, Snapshots, FiniteSetTheorems, WellFoundedInduction, TLAPS

-----------------------------------------------------------------------------
(* The migration of a disk.                                                *)

(* Where a handler stands.                                                 *)
ColdCopy == {"copy", "copying", "rebase", "define"}
ColdSteps == ColdCopy \cup {"remove"}
LiveCopy == {"prepare", "mirror"}
Between == {"pivoted", "define_live"}
LiveSteps == LiveCopy \cup Between \cup {"remove_live"}
WithPlan == ColdSteps \cup LiveSteps \cup {"success"}

(* A handler is under way only while its task executes, and plans once.    *)
PhaseInv ==
    \A m \in Migrations :
        /\ phase[m] # "executing" => step[m] = "none"
        /\ phase[m] \in {"new", "waiting"} \/ step[m] = "plan" => plan[m] = None

(* A plan leads to another file, and a handler past it follows its mode.   *)
PlanInv ==
    \A m \in Migrations :
        /\ step[m] \in WithPlan => plan[m] \in Plans /\ Source(m) # Target(m)
        /\ step[m] \in LiveSteps => plan[m].mode = "live"

ShapeInv == TypeOK /\ PhaseInv /\ PlanInv

(* What EnsureVMNotMigrating gives when no request slips past it.          *)
Waiting(m) == phase[m] \in {"waiting", "executing"}
OneActive == \A m, n \in Migrations : Waiting(m) /\ Waiting(n) => m = n

(* Only between the pivot and the new definition does the machine use      *)
(* another disk than the defined one.                                      *)
DefinedIsUsed == run # None /\ ~ Pivoted => run = xml

(* What each step of a handler relies on.                                  *)
StepInv ==
    \A m \in Migrations :
        /\ step[m] \in ColdSteps => run = None
        /\ step[m] \in ColdCopy \cup LiveCopy \cup Between => xml = Source(m)
        /\ step[m] = "copying" => plan[m].read = latest
        /\ step[m] \in {"rebase", "define"} \cup Between => file[Target(m)] = latest
        /\ step[m] \in Between => run \in {None, Target(m)}
        /\ step[m] \in {"remove", "remove_live"} => xml = Target(m)

Sound == OneActive /\ Current /\ DefinedIsUsed /\ StepInv

DInv == ShapeInv /\ (windows = {} => Sound) /\ OneDiskIsLeft

(* The steps of a handler that is under way.                               *)
Handler(m) ==
    \/ buildVMDiskMigrationPlan(m) \/ CopyBegins(m) \/ CopyEnds(m) \/ Rebase(m)
    \/ DefineCold(m) \/ RemoveSource(m) \/ prepareLiveShallowDiskTarget(m) \/ Pivot(m)
    \/ BlockcopyFails(m) \/ BlockcopyReturns(m) \/ DefineLive(m)
    \/ removeSourceDiskAfterPivot(m)

-----------------------------------------------------------------------------
(* Types.                                                                  *)

LEMMA TypeInit == Init => TypeOK
  BY DiskMigrationAssumption DEF Init, TypeOK, Paths, Versions, Plans, Steps, Queue!Init,
     Queue!Phases

(* A plan leads from the disk the machine uses to a free file of another   *)
(* pool.                                                                   *)
LEMMA PlanMade ==
  ASSUME TypeOK, NEW m \in Migrations, buildVMDiskMigrationPlan(m)
  PROVE  /\ ActivePath \in Paths
         /\ \/ UNCHANGED plan /\ Fails(m)
            \/ /\ file[ActivePath] # None
               /\ \E target \in Paths :
                    /\ target # ActivePath /\ file[target] = None
                    /\ plan' = [plan EXCEPT ![m] =
                                   [source |-> ActivePath, target |-> target,
                                    mode |-> IF run = None THEN "cold" ELSE "live",
                                    read |-> None]]
                    /\ Go(m, IF run = None THEN "copy" ELSE "prepare")
<1>1. ActivePath \in Paths
  BY DEF TypeOK, ActivePath
<1>2. ASSUME NEW pool \in Pools \ {ActivePath[1]},
             NEW target \in buildUniqueDiskMigrationTargetPath(pool)
      PROVE  target \in Paths /\ target # ActivePath /\ file[target] = None
  <2>1. PICK n \in Names : target = <<pool, n>> /\ file[target] = None
    BY <1>2 DEF buildUniqueDiskMigrationTargetPath
  <2>2. PICK p \in Pools, k \in Names : ActivePath = <<p, k>>
    BY <1>1 DEF Paths
  <2>3. pool # p /\ pool \in Pools
    BY <2>2
  <2> QED
    BY <2>1, <2>2, <2>3 DEF Paths
<1>3. CASE UNCHANGED plan /\ Fails(m)
  BY <1>1, <1>3
<1>4. CASE ~ (UNCHANGED plan /\ Fails(m))
  <2>1. PICK pool \in Pools \ {ActivePath[1]} :
        \E target \in buildUniqueDiskMigrationTargetPath(pool) :
        LET mode == IF run = None THEN "cold" ELSE "live" IN
        /\ plan' = [plan EXCEPT ![m] = [source |-> ActivePath, target |-> target,
                                        mode |-> mode, read |-> None]]
        /\ Go(m, IF mode = "cold" THEN "copy" ELSE "prepare")
    BY <1>4 DEF buildVMDiskMigrationPlan
  <2>2. file[ActivePath] # None
    BY <1>4 DEF buildVMDiskMigrationPlan
  <2>3. ("cold" = IF run = None THEN "cold" ELSE "live") <=> run = None
    OBVIOUS
  <2> QED
    BY <1>1, <1>2, <2>1, <2>2, <2>3
<1> QED
  BY <1>3, <1>4

(* Every step of a handler keeps the types.                                *)
LEMMA TypeHandler ==
  ASSUME TypeOK, PlanInv, NEW m \in Migrations, Handler(m)
  PROVE  TypeOK'
<1>p. step[m] \in WithPlan => /\ plan[m] \in Plans /\ plan[m].read \in Versions \cup {None}
                                  /\ Source(m) \in Paths /\ Target(m) \in Paths
  BY DEF PlanInv, Plans, Source, Target
<1>v. 0 \in Versions
  BY DiskMigrationAssumption DEF Versions
<1> USE <1>p, <1>v DEF TypeOK, Steps, WithPlan, ColdSteps, ColdCopy, LiveSteps, LiveCopy,
        Between, Go, disks, tasks
<1>1. ASSUME buildVMDiskMigrationPlan(m) PROVE TypeOK'
  <2>1. plan' \in [Migrations -> Plans \cup {None}]
    BY <1>1, PlanMade DEF Fails, Plans
  <2>2. step' \in [Migrations -> Steps]
    BY <1>1, PlanMade DEF Fails
  <2> QED
    BY <1>1, <2>1, <2>2 DEF buildVMDiskMigrationPlan
<1>2. ASSUME CopyBegins(m) PROVE TypeOK'
  <2>1. plan' \in [Migrations -> Plans \cup {None}]
    BY <1>2 DEF CopyBegins, Plans
  <2>2. file' \in [Paths -> Versions \cup {None}] /\ step' \in [Migrations -> Steps]
    BY <1>2 DEF CopyBegins, Fails, Remove
  <2> QED
    BY <1>2, <2>1, <2>2 DEF CopyBegins
<1>3. ASSUME CopyEnds(m) PROVE TypeOK'
  BY <1>3 DEF CopyEnds, Fails, Remove
<1>4. ASSUME Rebase(m) PROVE TypeOK'
  BY <1>4 DEF Rebase, Fails, Remove
<1>5. ASSUME DefineCold(m) PROVE TypeOK'
  BY <1>5 DEF DefineCold, Fails, Remove, Redefines
<1>6. ASSUME RemoveSource(m) PROVE TypeOK'
  BY <1>6 DEF RemoveSource, Fails, Remove
<1>7. ASSUME prepareLiveShallowDiskTarget(m) PROVE TypeOK'
  BY <1>7 DEF prepareLiveShallowDiskTarget, Fails
<1>8. ASSUME Pivot(m) PROVE TypeOK'
  BY <1>8 DEF Pivot
<1>9. ASSUME BlockcopyFails(m) PROVE TypeOK'
  BY <1>9 DEF BlockcopyFails, Fails, Remove
<1>10. ASSUME BlockcopyReturns(m) PROVE TypeOK'
  BY <1>10 DEF BlockcopyReturns
<1>11. ASSUME DefineLive(m) PROVE TypeOK'
  BY <1>11 DEF DefineLive, Fails, Redefines
<1>12. ASSUME removeSourceDiskAfterPivot(m) PROVE TypeOK'
  BY <1>12 DEF removeSourceDiskAfterPivot, Fails, Remove, ActivePath
<1> QED
  BY <1>1, <1>2, <1>3, <1>4, <1>5, <1>6, <1>7, <1>8, <1>9, <1>10, <1>11, <1>12 DEF Handler

(* What a step of a handler leaves alone.                                  *)
LEMMA HandlerFrame ==
  ASSUME TypeOK, NEW m \in Migrations, Handler(m)
  PROVE  /\ UNCHANGED <<phase, booting, asking, canceled, latest>>
         /\ step[m] \notin {"none", "success", "failed"} /\ step'[m] # "none"
         /\ windows \subseteq windows'
         /\ \A n \in Migrations : n # m => step'[n] = step[n] /\ plan'[n] = plan[n]
<1> DEFINE Frame == /\ UNCHANGED <<phase, booting, asking, canceled, latest>>
                    /\ step[m] \notin {"none", "success", "failed"} /\ step'[m] # "none"
                    /\ windows \subseteq windows'
                    /\ \A n \in Migrations : n # m => step'[n] = step[n] /\ plan'[n] = plan[n]
<1> USE DEF TypeOK, Go, disks, tasks
<1>1. ASSUME buildVMDiskMigrationPlan(m) PROVE Frame
  BY <1>1 DEF buildVMDiskMigrationPlan, Fails
<1>2. ASSUME CopyBegins(m) PROVE Frame
  BY <1>2 DEF CopyBegins, Fails
<1>3. ASSUME CopyEnds(m) PROVE Frame
  BY <1>3 DEF CopyEnds, Fails
<1>4. ASSUME Rebase(m) PROVE Frame
  BY <1>4 DEF Rebase, Fails
<1>5. ASSUME DefineCold(m) PROVE Frame
  BY <1>5 DEF DefineCold, Fails
<1>6. ASSUME RemoveSource(m) PROVE Frame
  BY <1>6 DEF RemoveSource, Fails
<1>7. ASSUME prepareLiveShallowDiskTarget(m) PROVE Frame
  BY <1>7 DEF prepareLiveShallowDiskTarget, Fails
<1>8. ASSUME Pivot(m) PROVE Frame
  BY <1>8 DEF Pivot
<1>9. ASSUME BlockcopyFails(m) PROVE Frame
  BY <1>9 DEF BlockcopyFails, Fails
<1>10. ASSUME BlockcopyReturns(m) PROVE Frame
  BY <1>10 DEF BlockcopyReturns
<1>11. ASSUME DefineLive(m) PROVE Frame
  BY <1>11 DEF DefineLive, Fails
<1>12. ASSUME removeSourceDiskAfterPivot(m) PROVE Frame
  BY <1>12 DEF removeSourceDiskAfterPivot, Fails
<1> QED
  BY <1>1, <1>2, <1>3, <1>4, <1>5, <1>6, <1>7, <1>8, <1>9, <1>10, <1>11, <1>12 DEF Handler, Frame

(* Plans and labels keep their shape.                                      *)
LEMMA ShapeHandler ==
  ASSUME ShapeInv, NEW m \in Migrations, Handler(m)
  PROVE  (PhaseInv /\ PlanInv)'
<1> DEFINE Mine == /\ step'[m] # "plan"
                   /\ step'[m] \in WithPlan =>
                        /\ plan'[m] \in Plans
                        /\ plan'[m].source # plan'[m].target
                   /\ step'[m] \in LiveSteps => plan'[m].mode = "live"
<1> USE DiskMigrationAssumption DEF ShapeInv, TypeOK, PlanInv, WithPlan, ColdSteps, ColdCopy, LiveSteps, LiveCopy, Between,
        Go, Paths, Plans, Versions, Steps, disks, tasks, Source, Target
<1>1. ASSUME buildVMDiskMigrationPlan(m) PROVE Mine
  BY <1>1, PlanMade DEF buildVMDiskMigrationPlan, Fails
<1>2. ASSUME CopyBegins(m) PROVE Mine
  BY <1>2 DEF CopyBegins, Fails
<1>3. ASSUME CopyEnds(m) PROVE Mine
  BY <1>3 DEF CopyEnds, Fails
<1>4. ASSUME Rebase(m) PROVE Mine
  BY <1>4 DEF Rebase, Fails
<1>5. ASSUME DefineCold(m) PROVE Mine
  BY <1>5 DEF DefineCold, Fails
<1>6. ASSUME RemoveSource(m) PROVE Mine
  BY <1>6 DEF RemoveSource, Fails
<1>7. ASSUME prepareLiveShallowDiskTarget(m) PROVE Mine
  BY <1>7 DEF prepareLiveShallowDiskTarget, Fails
<1>8. ASSUME Pivot(m) PROVE Mine
  BY <1>8 DEF Pivot
<1>9. ASSUME BlockcopyFails(m) PROVE Mine
  BY <1>9 DEF BlockcopyFails, Fails
<1>10. ASSUME BlockcopyReturns(m) PROVE Mine
  BY <1>10 DEF BlockcopyReturns
<1>11. ASSUME DefineLive(m) PROVE Mine
  BY <1>11 DEF DefineLive, Fails
<1>12. ASSUME removeSourceDiskAfterPivot(m) PROVE Mine
  BY <1>12 DEF removeSourceDiskAfterPivot, Fails, ActivePath
<1>13. Mine
  BY <1>1, <1>2, <1>3, <1>4, <1>5, <1>6, <1>7, <1>8, <1>9, <1>10, <1>11, <1>12 DEF Handler
<1> QED
  BY <1>13, HandlerFrame DEF PhaseInv

LEMMA ShapeInit == Init => ShapeInv
<1> SUFFICES ASSUME Init PROVE ShapeInv
  OBVIOUS
<1>1. PhaseInv /\ PlanInv
  BY DEF Init, PhaseInv, PlanInv, WithPlan, ColdSteps, ColdCopy, LiveSteps, LiveCopy, Between,
     Queue!Init
<1> QED
  BY <1>1, TypeInit DEF ShapeInv

(* What a task has planned, and where it may stand, stays so.              *)
LEMMA ShapeStep == ShapeInv /\ [Next]_vars => ShapeInv'
<1> SUFFICES ASSUME ShapeInv, [Next]_vars PROVE ShapeInv'
  OBVIOUS
<1> USE DEF ShapeInv, TypeOK, PhaseInv, PlanInv, WithPlan, ColdSteps, ColdCopy, LiveSteps,
        LiveCopy, Between, Steps, Queue!Phases, Queue!Move, Source, Target, disks, tasks
<1>1. ASSUME GuestWrites \/ GuestStops PROVE ShapeInv'
  <2>1. latest' \in Versions /\ run' \in Paths \cup {None} /\ UNCHANGED <<xml, windows>>
    BY <1>1, DiskMigrationAssumption DEF GuestWrites, GuestStops, Versions
  <2>2. file' \in [Paths -> Versions \cup {None}]
    BY <1>1, <2>1 DEF GuestWrites, GuestStops
  <2> QED
    BY <1>1, <2>1, <2>2 DEF GuestWrites, GuestStops
<1>2. ASSUME Crash PROVE ShapeInv'
  <2>1. \A m \in Migrations : step'[m] = "none" /\ phase'[m] \in {"new", "settled"}
    BY <1>2 DEF Crash
  <2>2. windows' \in {windows, windows \cup {"define"}} /\ UNCHANGED <<disks, plan>>
    BY <1>2 DEF Crash
  <2>3. TypeOK'
    BY <1>2, <2>2 DEF Crash
  <2>4. PhaseInv' /\ PlanInv'
    BY <1>2, <2>1, <2>2 DEF Crash
  <2> QED BY <2>3, <2>4
<1>3. ASSUME NEW s \in Starters, CheckStart(s) \/ StartVM(s) PROVE ShapeInv'
  <2>1. CASE CheckStart(s)
    BY <2>1 DEF CheckStart
  <2>2. CASE StartVM(s)
    <3>1. windows' \subseteq windows \cup {"start"} /\ run' \in {run, xml} /\ booting' \subseteq booting
          /\ UNCHANGED <<file, xml, latest, asking, phase, plan, step, canceled>>
      BY <2>2 DEF StartVM
    <3>2. TypeOK'
      BY <3>1
    <3>3. PhaseInv' /\ PlanInv'
      BY <3>1
    <3> QED BY <3>2, <3>3
  <2> QED BY <1>3, <2>1, <2>2
<1>4. ASSUME NEW m \in Migrations, MigrateDisk(m) \/ SubmitMigration(m) PROVE ShapeInv'
  <2>1. CASE MigrateDisk(m)
    BY <2>1 DEF MigrateDisk
  <2>2. CASE SubmitMigration(m)
    <3>1. TypeOK'
      BY <2>2 DEF SubmitMigration, Queue!Accept
    <3>2. PhaseInv'
      BY <2>2 DEF SubmitMigration, Queue!Accept
    <3>3. PlanInv'
      BY <2>2 DEF SubmitMigration
    <3> QED BY <3>1, <3>2, <3>3
  <2> QED BY <1>4, <2>1, <2>2
<1>5. ASSUME NEW m \in Migrations, CancelTask(m) PROVE ShapeInv'
  BY <1>5 DEF CancelTask, Queue!Skip
<1>6. ASSUME NEW m \in Migrations, Execute(m) PROVE ShapeInv'
  BY <1>6 DEF Execute, Go, Queue!Execute
<1>7. ASSUME NEW m \in Migrations, Handler(m) PROVE ShapeInv'
  BY <1>7, TypeHandler, ShapeHandler
<1>8. ASSUME NEW m \in Migrations, Settle(m) PROVE ShapeInv'
  BY <1>8 DEF Settle, Go, Queue!Settle
<1>9. ASSUME UNCHANGED vars PROVE ShapeInv'
  BY <1>9 DEF vars
<1> QED
  BY <1>1, <1>2, <1>3, <1>4, <1>5, <1>6, <1>7, <1>8, <1>9 DEF Next, Task, Handler

(* Types hold in every reachable state of the migrations.                  *)
THEOREM MigrationTypes == Spec => []TypeOK
<1>1. ShapeInv => TypeOK
  BY DEF ShapeInv
<1> QED
  BY ShapeInit, ShapeStep, <1>1, PTL DEF Spec

-----------------------------------------------------------------------------
(* What a handler does to the disk when no other request is under way.     *)

(* A step of the only handler under way keeps the disk that is in use      *)
(* current.                                                                *)
LEMMA SoundHandler ==
  ASSUME ShapeInv, Sound, OneDiskIsLeft, windows = {}, windows' = {},
         NEW m \in Migrations, Handler(m)
  PROVE  (Current /\ DefinedIsUsed /\ StepInv /\ OneDiskIsLeft)'
<1> DEFINE
      Cur == /\ run' # None => file'[run'] = latest
             /\ (run' = None /\ step'[m] \notin Between) => file'[xml'] = latest
             /\ (run' # None /\ step'[m] \notin Between) => run' = xml'
      Mine == /\ step'[m] \in ColdSteps => run' = None
              /\ step'[m] \in ColdCopy \cup LiveCopy \cup Between => xml' = plan'[m].source
              /\ step'[m] = "copying" => plan'[m].read = latest
              /\ step'[m] \in {"rebase", "define"} \cup Between => file'[plan'[m].target] = latest
              /\ step'[m] \in Between => run' \in {None, plan'[m].target}
              /\ step'[m] \in {"remove", "remove_live"} => xml' = plan'[m].target
      Ended ==
          /\ step'[m] = "success" =>
                /\ xml' = plan'[m].target /\ run' \in {None, plan'[m].target}
                /\ file'[plan'[m].source] = None
          /\ (step'[m] = "failed" /\ plan'[m] # None /\ plan'[m].mode = "cold"
                /\ xml' # plan'[m].target) => file'[plan'[m].target] = None
<1>0. /\ phase[m] = "executing" /\ UNCHANGED <<phase, latest>>
      /\ \A n \in Migrations : n # m => phase[n] # "executing" /\ step'[n] = "none" /\ step[n] = "none"
  BY HandlerFrame DEF Sound, OneActive, Waiting, ShapeInv, PhaseInv
<1>c. \A n \in Migrations : n # m => plan'[n] = plan[n]
  BY HandlerFrame DEF ShapeInv
<1>a. Pivoted <=> step[m] \in Between
  BY <1>0 DEF Pivoted, Executing, Between
<1>b. Pivoted' <=> step'[m] \in Between
  BY <1>0 DEF Pivoted, Executing, Between
<1> USE <1>0, <1>a, DiskMigrationAssumption
        DEF ShapeInv, TypeOK, PhaseInv, PlanInv, Sound, Current, DefinedIsUsed, StepInv, WithPlan, ColdSteps,
            ColdCopy, LiveSteps, LiveCopy, Between, Source, Target, Go, Paths, Versions, Plans,
            disks, tasks
<1>1. ASSUME buildVMDiskMigrationPlan(m) PROVE Cur /\ Mine /\ Ended
  <2>1. step[m] = "plan" /\ plan[m] = None /\ UNCHANGED disks
    BY <1>1 DEF buildVMDiskMigrationPlan
  <2>2. ActivePath = xml
    BY <2>1 DEF ActivePath
  <2>3. CASE step'[m] = "failed"
    <3>1. plan'[m] = None
      BY <2>1, <2>3, <1>1, PlanMade DEF Fails
    <3> QED
      BY <2>1, <2>3, <3>1
  <2>4. CASE step'[m] # "failed"
    <3>1. step'[m] = (IF run = None THEN "copy" ELSE "prepare") /\ plan'[m].source = xml
      BY <2>2, <2>4, <1>1, PlanMade DEF Fails
    <3> QED
      BY <2>1, <3>1
  <2> QED
    BY <2>3, <2>4
<1>2. ASSUME CopyBegins(m) PROVE Cur /\ Mine /\ Ended
  BY <1>2 DEF CopyBegins, Fails, Remove
<1>3. ASSUME CopyEnds(m) PROVE Cur /\ Mine /\ Ended
  BY <1>3 DEF CopyEnds, Fails, Remove
<1>4. ASSUME Rebase(m) PROVE Cur /\ Mine /\ Ended
  BY <1>4 DEF Rebase, Fails, Remove
<1>5. ASSUME DefineCold(m) PROVE Cur /\ Mine /\ Ended
  BY <1>5 DEF DefineCold, Fails, Remove, Redefines
<1>6. ASSUME RemoveSource(m) PROVE Cur /\ Mine /\ Ended
  BY <1>6 DEF RemoveSource, Fails, Remove
<1>7. ASSUME prepareLiveShallowDiskTarget(m) PROVE Cur /\ Mine /\ Ended
  BY <1>7 DEF prepareLiveShallowDiskTarget, Fails
<1>8. ASSUME Pivot(m) PROVE Cur /\ Mine /\ Ended
  BY <1>8 DEF Pivot
<1>9. ASSUME BlockcopyFails(m) PROVE Cur /\ Mine /\ Ended
  BY <1>9 DEF BlockcopyFails, Fails, Remove
<1>10. ASSUME BlockcopyReturns(m) PROVE Cur /\ Mine /\ Ended
  BY <1>10 DEF BlockcopyReturns
<1>11. ASSUME DefineLive(m) PROVE Cur /\ Mine /\ Ended
  BY <1>11 DEF DefineLive, Fails, Redefines
<1>12. ASSUME removeSourceDiskAfterPivot(m) PROVE Cur /\ Mine /\ Ended
  BY <1>12 DEF removeSourceDiskAfterPivot, Fails, Remove, ActivePath
<1>13. Cur /\ Mine /\ Ended
  BY <1>1, <1>2, <1>3, <1>4, <1>5, <1>6, <1>7, <1>8, <1>9, <1>10, <1>11, <1>12 DEF Handler
<1>14. (Current /\ DefinedIsUsed)'
  BY <1>13, <1>b
<1>15. StepInv'
  BY <1>13
<1>16. OneDiskIsLeft'
  <2> HIDE DEF ShapeInv, TypeOK, PhaseInv, PlanInv, Sound, Current, DefinedIsUsed, StepInv,
           Paths, Versions, Plans, disks, tasks
  <2>1. Ended
    BY <1>13
  <2> QED BY <2>1, <1>c DEF OneDiskIsLeft
<1> QED
  BY <1>14, <1>15, <1>16

(* So does every other step, unless it enters a window.                    *)
LEMMA SoundStep ==
  ASSUME DInv, [Next]_vars
  PROVE  (windows = {} => Sound)' /\ OneDiskIsLeft'
<1> SUFFICES ASSUME windows' = {} PROVE Sound' /\ OneDiskIsLeft'
  BY DEF OneDiskIsLeft
<1>w. windows = {}
  BY HandlerFrame DEF DInv, ShapeInv, Next, Task, Handler, GuestWrites, GuestStops, Crash,
     CheckStart, StartVM, MigrateDisk, SubmitMigration, CancelTask, Execute, Settle, tasks, vars
<1> DEFINE Rest == Sound' /\ OneDiskIsLeft'
<1>i. ShapeInv /\ ShapeInv' /\ Sound /\ OneDiskIsLeft
  BY <1>w, ShapeStep DEF DInv
<1> USE <1>w, <1>i DEF ShapeInv, TypeOK, PhaseInv, PlanInv, Sound, OneActive, Waiting, Current, Pivoted, Executing, DefinedIsUsed,
        StepInv, OneDiskIsLeft, Source, Target, WithPlan, ColdSteps, ColdCopy, LiveSteps,
        LiveCopy, Between, disks, tasks
<1>1. ASSUME GuestWrites PROVE Rest
  <2>1. /\ run # None /\ latest' = latest + 1 /\ latest \in Nat
        /\ file' = [file EXCEPT ![run] = latest']
        /\ UNCHANGED <<xml, run, phase, plan, step>>
    BY <1>1, DiskMigrationAssumption DEF GuestWrites, Versions
  <2>2. /\ run \in Paths /\ file'[run] = latest'
        /\ \A p \in Paths : p # run => file'[p] = file[p]
    BY <2>1
  <2>3. (Current /\ DefinedIsUsed)'
    BY <2>1, <2>2
  <2>4. StepInv'
    BY <2>1, <2>2
  <2>5. OneDiskIsLeft'
    <3> SUFFICES ASSUME NEW m \in Migrations
                 PROVE  /\ step[m] = "success" => file'[plan[m].source] = None
                        /\ (step[m] = "failed" /\ plan[m] # None /\ plan[m].mode = "cold"
                             /\ xml # plan[m].target) => file'[plan[m].target] = None
      BY <2>1
    <3>1. CASE step[m] = "success"
      BY <2>1, <2>2, <3>1 DEF Plans
    <3>2. CASE step[m] = "failed" /\ plan[m] # None /\ plan[m].mode = "cold" /\ xml # plan[m].target
      <4>1. run = xml
        BY <2>1, <3>2
      <4> QED
        BY <2>1, <2>2, <3>2, <4>1 DEF Plans
    <3> QED
      BY <3>1, <3>2
  <2> QED
    BY <2>1, <2>3, <2>4, <2>5
<1>2. ASSUME GuestStops PROVE Rest
  BY <1>2 DEF GuestStops
<1>3. ASSUME Crash PROVE Rest
  BY <1>3 DEF Crash
<1>4. ASSUME NEW s \in Starters, CheckStart(s) PROVE Rest
  BY <1>4 DEF CheckStart
<1>5. ASSUME NEW s \in Starters, StartVM(s) PROVE Rest
  BY <1>5 DEF StartVM, IsVMUnderMigration
<1>6. ASSUME NEW m \in Migrations, MigrateDisk(m) PROVE Rest
  BY <1>6 DEF MigrateDisk
<1>7. ASSUME NEW m \in Migrations, SubmitMigration(m) PROVE Rest
  BY <1>7 DEF SubmitMigration, Queue!Accept, Queue!Move, IsVMUnderMigration
<1>8. ASSUME NEW m \in Migrations, CancelTask(m) PROVE Rest
  BY <1>8 DEF CancelTask, Queue!Skip, Queue!Move
<1>9. ASSUME NEW m \in Migrations, Execute(m) PROVE Rest
  BY <1>9 DEF Execute, Go, Queue!Execute, Queue!Move
<1>10. ASSUME NEW m \in Migrations, Handler(m) PROVE Rest
  <2>1. OneActive'
    BY <1>10, HandlerFrame
  <2> QED
    BY <1>10, <2>1, SoundHandler
<1>11. ASSUME NEW m \in Migrations, Settle(m) PROVE Rest
  BY <1>11 DEF Settle, Go, Queue!Settle, Queue!Move
<1>12. ASSUME UNCHANGED vars PROVE Rest
  BY <1>12 DEF vars
<1> QED
  BY <1>1, <1>2, <1>3, <1>4, <1>5, <1>6, <1>7, <1>8, <1>9, <1>10, <1>11, <1>12
     DEF Next, Task, Handler

(* The inductive invariant of the migrations: what each step of a handler  *)
(* relies on, as long as none of the known windows was hit                 *)
(* (vm/disk_migration.go, vm/migration/lock.go).                           *)
THEOREM MigrationInvariant == Spec => []DInv
<1>1. Init => DInv
  <2> SUFFICES ASSUME Init PROVE DInv
    OBVIOUS
  <2>1. Sound
    BY DiskMigrationAssumption DEF Init, Sound, OneActive, Waiting, Current, DefinedIsUsed,
       StepInv, Pivoted,
       Executing, ColdSteps, ColdCopy, LiveCopy, Between, Queue!Init, Paths
  <2>2. OneDiskIsLeft
    BY DEF Init, OneDiskIsLeft
  <2> QED
    BY <2>1, <2>2, ShapeInit DEF DInv
<1>2. DInv /\ [Next]_vars => DInv'
  BY ShapeStep, SoundStep DEF DInv
<1> QED
  BY <1>1, <1>2, PTL DEF Spec

(* Nothing the guest wrote is lost outside the four windows: not by errors *)
(* and cancels at any step, crashes, a guest that writes or stops while    *)
(* its disk is copied, or one migration after another (DataKept).          *)
THEOREM DataIsKept == Spec => []DataKept
<1>1. DInv => DataKept
  BY DEF DInv, DataKept, Sound
<1> QED
  BY MigrationInvariant, <1>1, PTL DEF Spec

(* A migration that reports success has left one disk, the target; a cold  *)
(* one that does not has left no copy (OneDiskIsLeft).                     *)
THEOREM OneDiskIsAlwaysLeft == Spec => []OneDiskIsLeft
<1>1. DInv => OneDiskIsLeft
  BY DEF DInv
<1> QED
  BY MigrationInvariant, <1>1, PTL DEF Spec

-----------------------------------------------------------------------------
(* Chains of files: what ChainIn and ReadsIn give, by the least file for   *)
(* which they would give something else.                                   *)

(* A set of numbers that is not empty has a least one.                     *)
LEMMA LeastNat ==
    ASSUME NEW T, T \subseteq Nat, T # {}
    PROVE  \E n \in T : \A m \in T : n =< m
<1>1. PICK x \in T : \A y \in T : ~ (<<y, x>> \in OpToRel(<, Nat))
  BY WFMin, NatLessThanWellFounded
<1>2. \A y \in T : ~ (y < x)
  BY <1>1 DEF OpToRel
<1> QED BY <1>2

(* The files of the machine: a file lies on an earlier one or on none.     *)
Forest(fs) ==
    /\ DOMAIN fs \subseteq Nat /\ fs \in [DOMAIN fs -> Images]
    /\ \A f \in DOMAIN fs : fs[f].base = None \/ fs[f].base < f

(* What a file of a forest is.                                             *)
LEMMA ForestFile ==
    ASSUME NEW fs, Forest(fs), NEW f \in DOMAIN fs
    PROVE  /\ f \in Nat /\ fs[f] \in Images
           /\ fs[f].base \in Nat \cup {None} /\ fs[f].data \in Contents \cup {None}
           /\ fs[f].base # None => fs[f].base \in 0..f - 1
<1>1. f \in Nat /\ fs[f] \in Images
  BY DEF Forest
<1>2. fs[f].base \in Nat \cup {None} /\ fs[f].data \in Contents \cup {None}
  BY <1>1 DEF Images
<1>3. fs[f].base = None \/ fs[f].base < f
  BY DEF Forest
<1> QED BY <1>1, <1>2, <1>3

(* One step of what ChainIn and ReadsIn compute, and the functions of such *)
(* steps up to a file.                                                     *)
ChainStep(fs, c, g) ==
    IF g \notin DOMAIN fs THEN {}
    ELSE {g} \cup IF fs[g].base = None THEN {} ELSE c[fs[g].base]
ReadsStep(fs, d, g) ==
    IF g \notin DOMAIN fs THEN None
    ELSE IF fs[g].base = None THEN fs[g].data
    ELSE IF d[fs[g].base] = None \/ fs[g].data = None THEN d[fs[g].base]
    ELSE fs[g].data
Chains(fs, c, n) == c = [g \in 0..n |-> ChainStep(fs, c, g)]
Readings(fs, d, n) == d = [g \in 0..n |-> ReadsStep(fs, d, g)]

(* The functions within ChainIn and ReadsIn exist, are one as far as they  *)
(* go, and are what their recursive definitions say.                       *)
LEMMA ChainsExist ==
    ASSUME NEW fs, Forest(fs), NEW n \in Nat
    PROVE  \E c : Chains(fs, c, n)
<1> DEFINE T == {k \in 0..n : ~ \E c : Chains(fs, c, k)}
<1>1. SUFFICES ASSUME T # {} PROVE FALSE
  <2>1. n \notin T => \E c : Chains(fs, c, n)
    OBVIOUS
  <2> QED BY <2>1
<1>2. T \subseteq Nat
  OBVIOUS
<1>3. PICK k \in T : \A l \in T : k =< l
  BY <1>1, <1>2, LeastNat
<1>4. k \in 0..n /\ ~ \E c : Chains(fs, c, k)
  OBVIOUS
<1>5. \A g \in DOMAIN fs : fs[g].base # None => fs[g].base \in 0..g - 1
  BY ForestFile
<1>6. k # 0
  <2>1. SUFFICES ASSUME k = 0 PROVE FALSE
    OBVIOUS
  <2> DEFINE z == [g \in 0..0 |-> IF 0 \in DOMAIN fs THEN {0} ELSE {}]
  <2>2. 0 \in DOMAIN fs => fs[0].base = None
    BY <1>5
  <2>3. Chains(fs, z, 0)
    BY <2>2 DEF Chains, ChainStep
  <2> QED BY <2>1, <2>3, <1>4
<1>7. k - 1 \in 0..n /\ ~ (k =< k - 1)
  BY <1>4, <1>6
<1>8. PICK f : Chains(fs, f, k - 1)
  <2>1. k - 1 \notin T
    <3> HIDE DEF T
    <3> QED BY <1>3, <1>7
  <2> QED BY <2>1, <1>7
<1> DEFINE h == [g \in 0..k |-> IF g = k THEN ChainStep(fs, f, k) ELSE f[g]]
<1>9. Chains(fs, h, k)
  <2>1. \A g \in DOMAIN fs : g \in 0..k /\ fs[g].base # None => h[fs[g].base] = f[fs[g].base]
    <3> SUFFICES ASSUME NEW g \in DOMAIN fs, g \in 0..k, fs[g].base # None
                 PROVE  h[fs[g].base] = f[fs[g].base]
      OBVIOUS
    <3>1. fs[g].base \in 0..g - 1
      BY <1>5
    <3>2. fs[g].base \in 0..k /\ fs[g].base # k
      BY <3>1, <1>4
    <3> QED BY <3>2
  <2> SUFFICES ASSUME NEW g \in 0..k PROVE h[g] = ChainStep(fs, h, g)
    BY DEF Chains
  <2>2. ChainStep(fs, h, g) = ChainStep(fs, f, g)
    BY <2>1 DEF ChainStep
  <2>3. CASE g = k
    BY <2>2, <2>3
  <2>4. CASE g # k
    <3>1. g \in 0..k - 1 /\ h[g] = f[g]
      BY <2>4, <1>4
    <3>2. f[g] = ChainStep(fs, f, g)
      BY <3>1, <1>8 DEF Chains
    <3> QED BY <3>1, <3>2, <2>2
  <2> QED BY <2>3, <2>4
<1> QED BY <1>4, <1>9

LEMMA ChainsAgree ==
    ASSUME NEW fs, Forest(fs), NEW n \in Nat, NEW m \in Nat, NEW c, NEW d,
           Chains(fs, c, n), Chains(fs, d, m), NEW k \in 0..n, k \in 0..m
    PROVE  c[k] = d[k]
<1> DEFINE T == {l \in 0..n : l \in 0..m /\ c[l] # d[l]}
<1>1. SUFFICES ASSUME T # {} PROVE FALSE
  OBVIOUS
<1>2. T \subseteq Nat
  OBVIOUS
<1>3. PICK l \in T : \A i \in T : l =< i
  BY <1>1, <1>2, LeastNat
<1>4. l \in 0..n /\ l \in 0..m /\ c[l] # d[l]
  OBVIOUS
<1>5. c[l] = ChainStep(fs, c, l) /\ d[l] = ChainStep(fs, d, l)
  BY <1>4 DEF Chains
<1>6. ASSUME l \in DOMAIN fs, fs[l].base # None PROVE c[fs[l].base] = d[fs[l].base]
  <2> DEFINE b == fs[l].base
  <2>1. b \in 0..l - 1
    BY <1>6, ForestFile
  <2>2. b \in 0..n /\ b \in 0..m /\ ~ (l =< b)
    BY <2>1, <1>4
  <2> HIDE DEF b
  <2>3. b \notin T
    <3> HIDE DEF T
    <3> QED BY <1>3, <2>2
  <2>4. c[b] = d[b]
    BY <2>3, <2>2
  <2> QED BY <2>4 DEF b
<1> QED BY <1>4, <1>5, <1>6 DEF ChainStep

LEMMA ChainIs ==
    ASSUME NEW fs, Forest(fs), NEW f \in Nat
    PROVE  ChainIn(fs, f) =
             IF f \notin DOMAIN fs THEN {}
             ELSE {f} \cup IF fs[f].base = None THEN {} ELSE ChainIn(fs, fs[f].base)
<1> DEFINE C(n) == CHOOSE c : Chains(fs, c, n)
<1>1. \A n \in Nat : Chains(fs, C(n), n)
  BY ChainsExist
<1>2. \A n \in Nat : ChainIn(fs, n) = C(n)[n]
  BY DEF ChainIn, Chains, ChainStep
<1> HIDE DEF C
<1>3. C(f)[f] = ChainStep(fs, C(f), f)
  <2>1. f \in 0..f
    OBVIOUS
  <2> QED BY <1>1, <2>1 DEF Chains
<1>4. ASSUME f \in DOMAIN fs, fs[f].base # None
      PROVE  C(f)[fs[f].base] = ChainIn(fs, fs[f].base)
  <2> DEFINE b == fs[f].base
  <2>1. b \in 0..f - 1
    BY <1>4, ForestFile
  <2>2. b \in 0..f /\ b \in 0..b /\ b \in Nat
    BY <2>1
  <2> HIDE DEF b
  <2>3. C(f)[b] = C(b)[b]
    <3>1. Chains(fs, C(f), f) /\ Chains(fs, C(b), b)
      BY <1>1, <2>2
    <3> QED BY <3>1, <2>2, ChainsAgree
  <2>4. C(b)[b] = ChainIn(fs, b)
    BY <1>2, <2>2
  <2> QED BY <2>3, <2>4 DEF b
<1>5. ChainIn(fs, f) = ChainStep(fs, C(f), f)
  BY <1>2, <1>3
<1> QED BY <1>4, <1>5 DEF ChainStep

LEMMA ReadingsExist ==
    ASSUME NEW fs, Forest(fs), NEW n \in Nat
    PROVE  \E c : Readings(fs, c, n)
<1> DEFINE T == {k \in 0..n : ~ \E c : Readings(fs, c, k)}
<1>1. SUFFICES ASSUME T # {} PROVE FALSE
  <2>1. n \notin T => \E c : Readings(fs, c, n)
    OBVIOUS
  <2> QED BY <2>1
<1>2. T \subseteq Nat
  OBVIOUS
<1>3. PICK k \in T : \A l \in T : k =< l
  BY <1>1, <1>2, LeastNat
<1>4. k \in 0..n /\ ~ \E c : Readings(fs, c, k)
  OBVIOUS
<1>5. \A g \in DOMAIN fs : fs[g].base # None => fs[g].base \in 0..g - 1
  BY ForestFile
<1>6. k # 0
  <2>1. SUFFICES ASSUME k = 0 PROVE FALSE
    OBVIOUS
  <2> DEFINE z == [g \in 0..0 |-> IF 0 \in DOMAIN fs THEN fs[0].data ELSE None]
  <2>2. 0 \in DOMAIN fs => fs[0].base = None
    BY <1>5
  <2>3. Readings(fs, z, 0)
    BY <2>2 DEF Readings, ReadsStep
  <2> QED BY <2>1, <2>3, <1>4
<1>7. k - 1 \in 0..n /\ ~ (k =< k - 1)
  BY <1>4, <1>6
<1>8. PICK f : Readings(fs, f, k - 1)
  <2>1. k - 1 \notin T
    <3> HIDE DEF T
    <3> QED BY <1>3, <1>7
  <2> QED BY <2>1, <1>7
<1> DEFINE h == [g \in 0..k |-> IF g = k THEN ReadsStep(fs, f, k) ELSE f[g]]
<1>9. Readings(fs, h, k)
  <2>1. \A g \in DOMAIN fs : g \in 0..k /\ fs[g].base # None => h[fs[g].base] = f[fs[g].base]
    <3> SUFFICES ASSUME NEW g \in DOMAIN fs, g \in 0..k, fs[g].base # None
                 PROVE  h[fs[g].base] = f[fs[g].base]
      OBVIOUS
    <3>1. fs[g].base \in 0..g - 1
      BY <1>5
    <3>2. fs[g].base \in 0..k /\ fs[g].base # k
      BY <3>1, <1>4
    <3> QED BY <3>2
  <2> SUFFICES ASSUME NEW g \in 0..k PROVE h[g] = ReadsStep(fs, h, g)
    BY DEF Readings
  <2>2. ReadsStep(fs, h, g) = ReadsStep(fs, f, g)
    BY <2>1 DEF ReadsStep
  <2>3. CASE g = k
    BY <2>2, <2>3
  <2>4. CASE g # k
    <3>1. g \in 0..k - 1 /\ h[g] = f[g]
      BY <2>4, <1>4
    <3>2. f[g] = ReadsStep(fs, f, g)
      BY <3>1, <1>8 DEF Readings
    <3> QED BY <3>1, <3>2, <2>2
  <2> QED BY <2>3, <2>4
<1> QED BY <1>4, <1>9

LEMMA ReadingsAgree ==
    ASSUME NEW fs, Forest(fs), NEW n \in Nat, NEW m \in Nat, NEW c, NEW d,
           Readings(fs, c, n), Readings(fs, d, m), NEW k \in 0..n, k \in 0..m
    PROVE  c[k] = d[k]
<1> DEFINE T == {l \in 0..n : l \in 0..m /\ c[l] # d[l]}
<1>1. SUFFICES ASSUME T # {} PROVE FALSE
  OBVIOUS
<1>2. T \subseteq Nat
  OBVIOUS
<1>3. PICK l \in T : \A i \in T : l =< i
  BY <1>1, <1>2, LeastNat
<1>4. l \in 0..n /\ l \in 0..m /\ c[l] # d[l]
  OBVIOUS
<1>5. c[l] = ReadsStep(fs, c, l) /\ d[l] = ReadsStep(fs, d, l)
  BY <1>4 DEF Readings
<1>6. ASSUME l \in DOMAIN fs, fs[l].base # None PROVE c[fs[l].base] = d[fs[l].base]
  <2> DEFINE b == fs[l].base
  <2>1. b \in 0..l - 1
    BY <1>6, ForestFile
  <2>2. b \in 0..n /\ b \in 0..m /\ ~ (l =< b)
    BY <2>1, <1>4
  <2> HIDE DEF b
  <2>3. b \notin T
    <3> HIDE DEF T
    <3> QED BY <1>3, <2>2
  <2>4. c[b] = d[b]
    BY <2>3, <2>2
  <2> QED BY <2>4 DEF b
<1> QED BY <1>4, <1>5, <1>6 DEF ReadsStep

LEMMA ReadsIs ==
    ASSUME NEW fs, Forest(fs), NEW f \in Nat
    PROVE  ReadsIn(fs, f) =
             IF f \notin DOMAIN fs THEN None
             ELSE IF fs[f].base = None THEN fs[f].data
             ELSE IF ReadsIn(fs, fs[f].base) = None \/ fs[f].data = None
                  THEN ReadsIn(fs, fs[f].base)
             ELSE fs[f].data
<1> DEFINE C(n) == CHOOSE c : Readings(fs, c, n)
<1>1. \A n \in Nat : Readings(fs, C(n), n)
  BY ReadingsExist
<1>2. \A n \in Nat : ReadsIn(fs, n) = C(n)[n]
  BY DEF ReadsIn, Readings, ReadsStep
<1> HIDE DEF C
<1>3. C(f)[f] = ReadsStep(fs, C(f), f)
  <2>1. f \in 0..f
    OBVIOUS
  <2> QED BY <1>1, <2>1 DEF Readings
<1>4. ASSUME f \in DOMAIN fs, fs[f].base # None
      PROVE  C(f)[fs[f].base] = ReadsIn(fs, fs[f].base)
  <2> DEFINE b == fs[f].base
  <2>1. b \in 0..f - 1
    BY <1>4, ForestFile
  <2>2. b \in 0..f /\ b \in 0..b /\ b \in Nat
    BY <2>1
  <2> HIDE DEF b
  <2>3. C(f)[b] = C(b)[b]
    <3>1. Readings(fs, C(f), f) /\ Readings(fs, C(b), b)
      BY <1>1, <2>2
    <3> QED BY <3>1, <2>2, ReadingsAgree
  <2>4. C(b)[b] = ReadsIn(fs, b)
    BY <1>2, <2>2
  <2> QED BY <2>3, <2>4 DEF b
<1>5. ReadsIn(fs, f) = ReadsStep(fs, C(f), f)
  BY <1>2, <1>3
<1> QED BY <1>4, <1>5 DEF ReadsStep

(* What is read through a file is its content, and only the files of its   *)
(* chain have a say in it.                                                 *)
LEMMA ChainIsBelow ==
    ASSUME NEW fs, Forest(fs), NEW f \in Nat
    PROVE  ChainIn(fs, f) \subseteq DOMAIN fs \cap 0..f
<1> DEFINE T == {k \in Nat : ~ (ChainIn(fs, k) \subseteq DOMAIN fs \cap 0..k)}
<1>1. SUFFICES ASSUME T # {} PROVE FALSE
  OBVIOUS
<1>2. PICK k \in T : \A l \in T : k =< l
  <2>1. T \subseteq Nat
    OBVIOUS
  <2> HIDE DEF T
  <2> QED BY <1>1, <2>1, LeastNat
<1>3. k \in Nat /\ ~ (ChainIn(fs, k) \subseteq DOMAIN fs \cap 0..k)
  OBVIOUS
<1>4. k \in DOMAIN fs
  BY <1>3, ChainIs
<1>5. CASE fs[k].base = None
  <2>1. ChainIn(fs, k) = {k}
    BY <1>3, <1>4, <1>5, ChainIs
  <2> QED BY <1>3, <1>4, <2>1
<1>6. CASE fs[k].base # None
  <2>1. PICK b \in 0..k - 1 : b = fs[k].base
    BY <1>4, <1>6, ForestFile
  <2>2. b \in Nat /\ ~ (k =< b)
    BY <1>3, <2>1
  <2>3. b \notin T
    <3> HIDE DEF T
    <3> QED BY <1>2, <2>2
  <2>4. ChainIn(fs, b) \subseteq DOMAIN fs \cap 0..b
    BY <2>2, <2>3
  <2>5. ChainIn(fs, k) = {k} \cup ChainIn(fs, b)
    BY <1>3, <1>4, <1>6, <2>1, ChainIs
  <2>6. 0..b \subseteq 0..k
    BY <2>2, <1>3
  <2> QED BY <1>3, <1>4, <2>4, <2>5, <2>6
<1> QED BY <1>5, <1>6

(* A file that can be read has all files it lies on, which can be read.    *)
LEMMA ReadableFile ==
    ASSUME NEW fs, Forest(fs), NEW f \in Nat, ReadsIn(fs, f) # None
    PROVE  /\ f \in DOMAIN fs /\ f \in ChainIn(fs, f)
           /\ fs[f].base = None =>
                 fs[f].data = ReadsIn(fs, f) /\ ChainIn(fs, f) = {f}
           /\ fs[f].base # None =>
                 /\ ReadsIn(fs, fs[f].base) # None
                 /\ ReadsIn(fs, f) = IF fs[f].data = None THEN ReadsIn(fs, fs[f].base)
                                     ELSE fs[f].data
                 /\ fs[f].base \in DOMAIN fs /\ fs[f].base \in 0..f - 1
                 /\ fs[f].base \in ChainIn(fs, f)
                 /\ ChainIn(fs, f) = {f} \cup ChainIn(fs, fs[f].base)
                 /\ ChainIn(fs, fs[f].base) = ChainIn(fs, f) \ {f}
<1>1. f \in DOMAIN fs /\ f \in ChainIn(fs, f)
  BY ReadsIs, ChainIs
<1>2. ASSUME fs[f].base = None PROVE fs[f].data = ReadsIn(fs, f) /\ ChainIn(fs, f) = {f}
  BY <1>1, <1>2, ReadsIs, ChainIs
<1>3. ASSUME fs[f].base # None
      PROVE /\ ReadsIn(fs, fs[f].base) # None
            /\ ReadsIn(fs, f) = IF fs[f].data = None THEN ReadsIn(fs, fs[f].base)
                                ELSE fs[f].data
            /\ fs[f].base \in DOMAIN fs /\ fs[f].base \in 0..f - 1
            /\ fs[f].base \in ChainIn(fs, f)
            /\ ChainIn(fs, f) = {f} \cup ChainIn(fs, fs[f].base)
            /\ ChainIn(fs, fs[f].base) = ChainIn(fs, f) \ {f}
  <2>1. PICK b \in 0..f - 1 : b = fs[f].base
    BY <1>1, <1>3, ForestFile
  <2>2. b \in Nat
    BY <2>1
  <2>3. /\ ReadsIn(fs, b) # None
        /\ ReadsIn(fs, f) = IF fs[f].data = None THEN ReadsIn(fs, b) ELSE fs[f].data
    BY <1>1, <1>3, <2>1, ReadsIs
  <2>4. b \in DOMAIN fs /\ b \in ChainIn(fs, b)
    BY <2>2, <2>3, ReadsIs, ChainIs
  <2>5. ChainIn(fs, f) = {f} \cup ChainIn(fs, b)
    BY <1>1, <1>3, <2>1, ChainIs
  <2>6. f \notin ChainIn(fs, b)
    <3>1. ChainIn(fs, b) \subseteq 0..b
      BY <2>2, ChainIsBelow
    <3>2. f \notin 0..b
      BY <2>1
    <3> QED BY <3>1, <3>2
  <2> QED BY <2>1, <2>3, <2>4, <2>5, <2>6
<1> QED BY <1>1, <1>2, <1>3

(* A file is read as before when the files of its chain are as before.     *)
LEMMA SameChain ==
    ASSUME NEW fs, Forest(fs), NEW gs, Forest(gs), NEW f \in Nat, ReadsIn(fs, f) # None,
           \A g \in ChainIn(fs, f) : g \in DOMAIN gs /\ gs[g] = fs[g]
    PROVE  ReadsIn(gs, f) = ReadsIn(fs, f) /\ ChainIn(gs, f) = ChainIn(fs, f)
<1> DEFINE Agree(k) == \A g \in ChainIn(fs, k) : g \in DOMAIN gs /\ gs[g] = fs[g]
           Equal(k) == ReadsIn(gs, k) = ReadsIn(fs, k) /\ ChainIn(gs, k) = ChainIn(fs, k)
           T == {k \in Nat : ReadsIn(fs, k) # None /\ Agree(k) /\ ~ Equal(k)}
<1>1. SUFFICES ASSUME T # {} PROVE FALSE
  OBVIOUS
<1>2. PICK k \in T : \A l \in T : k =< l
  <2>1. T \subseteq Nat
    OBVIOUS
  <2> HIDE DEF T
  <2> QED BY <1>1, <2>1, LeastNat
<1>3. k \in Nat /\ ReadsIn(fs, k) # None /\ Agree(k) /\ ~ Equal(k)
  OBVIOUS
<1>4. k \in DOMAIN fs /\ k \in ChainIn(fs, k)
  BY <1>3, ReadableFile
<1>5. k \in DOMAIN gs /\ gs[k] = fs[k]
  BY <1>3, <1>4
<1>6. CASE fs[k].base = None
  <2>1. ReadsIn(fs, k) = fs[k].data /\ ChainIn(fs, k) = {k}
    BY <1>3, <1>6, ReadableFile
  <2>2. ReadsIn(gs, k) = fs[k].data
    BY <1>3, <1>5, <1>6, ReadsIs
  <2>3. ChainIn(gs, k) = {k}
    BY <1>3, <1>5, <1>6, ChainIs
  <2> QED BY <1>3, <2>1, <2>2, <2>3
<1>7. CASE fs[k].base # None
  <2>1. PICK b \in 0..k - 1 : b = fs[k].base
    BY <1>4, <1>7, ForestFile
  <2>2. b \in Nat /\ ~ (k =< b)
    BY <1>3, <2>1
  <2>3. /\ ReadsIn(fs, b) # None
        /\ ReadsIn(fs, k) = IF fs[k].data = None THEN ReadsIn(fs, b) ELSE fs[k].data
        /\ ChainIn(fs, k) = {k} \cup ChainIn(fs, b)
    BY <1>3, <1>7, <2>1, ReadableFile
  <2>4. b \notin T
    <3> HIDE DEF T
    <3> QED BY <1>2, <2>2
  <2>5. Agree(b)
    BY <1>3, <2>3
  <2>6. Equal(b)
    <3> HIDE DEF Agree, Equal
    <3> QED BY <2>2, <2>3, <2>4, <2>5
  <2>7. ReadsIn(gs, b) = ReadsIn(fs, b) /\ ChainIn(gs, b) = ChainIn(fs, b)
    BY <2>6
  <2>8. ReadsIn(gs, k) = IF fs[k].data = None THEN ReadsIn(fs, b) ELSE fs[k].data
    BY <1>3, <1>5, <1>7, <2>1, <2>3, <2>7, ReadsIs
  <2>9. ChainIn(gs, k) = {k} \cup ChainIn(fs, b)
    BY <1>3, <1>5, <1>7, <2>1, <2>7, ChainIs
  <2> QED BY <1>3, <2>3, <2>8, <2>9
<1> QED BY <1>6, <1>7

(* A file of a chain other than its first has one that lies on it there.   *)
LEMMA ChainLinks ==
    ASSUME NEW fs, Forest(fs), NEW f \in Nat, NEW x \in ChainIn(fs, f), x # f
    PROVE  \E y \in ChainIn(fs, f) : fs[y].base = x
<1> DEFINE Linked(k) == \A z \in ChainIn(fs, k) \ {k} : \E y \in ChainIn(fs, k) : fs[y].base = z
           T == {k \in Nat : ~ Linked(k)}
<1>1. SUFFICES ASSUME T # {} PROVE FALSE
  OBVIOUS
<1>2. PICK k \in T : \A l \in T : k =< l
  <2>1. T \subseteq Nat
    OBVIOUS
  <2> HIDE DEF T
  <2> QED BY <1>1, <2>1, LeastNat
<1>3. k \in Nat /\ ~ Linked(k)
  OBVIOUS
<1>4. PICK z \in ChainIn(fs, k) \ {k} : ~ \E y \in ChainIn(fs, k) : fs[y].base = z
  BY <1>3
<1>5. k \in DOMAIN fs /\ fs[k].base # None
  BY <1>3, <1>4, ChainIs
<1>6. PICK b \in 0..k - 1 : b = fs[k].base
  BY <1>5, ForestFile
<1>7. b \in Nat /\ ~ (k =< b)
  BY <1>3, <1>6
<1>8. ChainIn(fs, k) = {k} \cup ChainIn(fs, b)
  BY <1>3, <1>5, <1>6, ChainIs
<1>9. b \notin T
  <2> HIDE DEF T
  <2> QED BY <1>2, <1>7
<1>10. Linked(b)
  BY <1>7, <1>9
<1>11. z \in ChainIn(fs, b) /\ z # b
  BY <1>4, <1>6, <1>8
<1> QED BY <1>4, <1>8, <1>10, <1>11

(* A chain holds the file each of its files lies on.                       *)
LEMMA ChainCloses ==
    ASSUME NEW fs, Forest(fs), NEW f \in Nat, NEW x \in ChainIn(fs, f),
           fs[x].base # None, fs[x].base \in DOMAIN fs
    PROVE  fs[x].base \in ChainIn(fs, f)
<1> DEFINE Closed(k) == \A z \in ChainIn(fs, k) :
                          fs[z].base # None /\ fs[z].base \in DOMAIN fs => fs[z].base \in ChainIn(fs, k)
           T == {k \in Nat : ~ Closed(k)}
<1>1. SUFFICES ASSUME T # {} PROVE FALSE
  OBVIOUS
<1>2. PICK k \in T : \A l \in T : k =< l
  <2>1. T \subseteq Nat
    OBVIOUS
  <2> HIDE DEF T
  <2> QED BY <1>1, <2>1, LeastNat
<1>3. k \in Nat /\ ~ Closed(k)
  OBVIOUS
<1>4. k \in DOMAIN fs /\ fs[k].base # None
  BY <1>3, ChainIs
<1>5. PICK b \in 0..k - 1 : b = fs[k].base
  BY <1>4, ForestFile
<1>6. b \in Nat /\ ~ (k =< b)
  BY <1>3, <1>5
<1>7. ChainIn(fs, k) = {k} \cup ChainIn(fs, b)
  BY <1>3, <1>4, <1>5, ChainIs
<1>8. b \notin T
  <2> HIDE DEF T
  <2> QED BY <1>2, <1>6
<1>9. Closed(b)
  BY <1>6, <1>8
<1>10. b \in DOMAIN fs => b \in ChainIn(fs, b)
  BY <1>6, ChainIs
<1> QED BY <1>3, <1>5, <1>7, <1>9, <1>10
-----------------------------------------------------------------------------
(* A snapshot nobody deletes keeps the files through which it is gone back *)
(* to as they are, and the machine does not write in them.                 *)
FixedIn(fs, e) ==
    IF e.overlay # None THEN ChainIn(fs, e.origin) ELSE ChainIn(fs, e.origin) \ {e.origin}
GivenIn(fs, e) ==
    IF e.overlay # None THEN ReadsIn(fs, e.origin)
    ELSE IF e.saved # None THEN e.saved ELSE ReadsIn(fs, fs[e.origin].base)
(* What a snapshot gives, and that it gives what it should from files that *)
(* stay.                                                                   *)
Survives(fs, d, e) ==
    /\ ReadsIn(fs, e.origin) # None
    /\ e.overlay # None => e.overlay \in DOMAIN fs
    /\ GivenIn(fs, e) = e.want
    /\ d \notin FixedIn(fs, e)
EntryGood(fs, d, last, e) ==
    /\ e.origin =< last
    /\ e.overlay # None =>
          /\ e.origin < e.overlay /\ e.overlay =< last
          /\ e.overlay \in DOMAIN fs => fs[e.overlay].base = e.origin
    /\ e.overlay = None /\ e.saved = None /\ e.origin \in DOMAIN fs => fs[e.origin].base # None
    /\ ~ e.touched => Survives(fs, d, e)

(* Two snapshots have their own overlays, and each was taken of the file   *)
(* its parent was taken of, or of one that lies on it.                     *)
Apart(sn) ==
    \A s, t \in DOMAIN sn : sn[s].overlay # None /\ sn[s].overlay = sn[t].overlay => s = t
Lineage == \A s \in DOMAIN snaps : Under(snaps[s].origin, snaps[s].parent)
Acyclic(sn) ==
    \A names \in SUBSET DOMAIN sn : names # {} => \E s \in names : sn[s].parent \notin names

(* What holds of the disk and of all snapshots.                            *)
MachineGood ==
    /\ Forest(files) /\ Reads(disk) = seen
    /\ \A s \in DOMAIN snaps : EntryGood(files, disk, lastFile, snaps[s])
    /\ Apart(snaps) /\ Lineage /\ Acyclic(snaps)

(* A file that only the task knows that has made it.                       *)
Spare(n) ==
    /\ n \in 0..lastFile /\ n # disk
    /\ \A s \in DOMAIN snaps : n # snaps[s].origin /\ n # snaps[s].overlay
    /\ \A f \in DOMAIN files : files[f].base # n
(* A revert under way goes to an external snapshot of the list it has      *)
(* read, and its new file is spare.                                        *)
EditGood(r) ==
    LET j == job[r] IN
    /\ At(r, "overlay") \/ At(r, "edit") =>
          /\ ~ j.on /\ j.name \in DOMAIN j.snaps /\ j.snap = j.snaps[j.name]
          /\ j.snap.overlay # None /\ j.snap.origin =< lastFile
    /\ At(r, "edit") =>
          /\ Spare(j.new)
          /\ j.new \in DOMAIN files =>
                files[j.new].data = None /\ files[j.new].base = j.snap.origin
EditsApart(q, r) ==
    At(q, "edit") =>
       /\ At(r, "edit") => job[r].new # job[q].new
       /\ At(r, "overlay") => job[r].snap.origin # job[q].new

(* What a deletion was decided on: a leaf that is marked, of the list as   *)
(* it was then, whose restore points it keeps.                             *)
Chosen(r) ==
    LET j == job[r] IN
    /\ j.name \in DOMAIN j.snaps /\ j.snaps[j.name].touched
    /\ All(r) => \A s \in DOMAIN j.snaps : j.snaps[s].touched
    /\ \A s \in DOMAIN j.snaps : j.snaps[s].parent # j.name
Folding(j) == j.pc \in {"fold", "redefine"}
(* Places at which a task deletes what it has chosen.                      *)
Deleting(j) ==
    \/ j.pc \in {"external", "files", "internal", "mismatch"}
    \/ Folding(j) /\ j.site \in {"files", "mismatch"}
(* The restore points of the other snapshots in the list a task has read.  *)
KeptBy(j) ==
    {j.snaps[s].origin : s \in {t \in DOMAIN j.snaps \ {j.name} : j.snaps[t].overlay # None}}
(* What a deletion relies on at each of its places.                        *)
ChoiceGood(r) ==
    LET j == job[r] IN
    j # None =>
       /\ j.pc \in {"create", "make"} => j.name \in SnapshotNames
       /\ j.pc = "delete" => ~ All(r)
       /\ Deleting(j) => Chosen(r) /\ j.snap # None
       /\ j.pc \in {"external", "files"} =>
             j.snap.overlay # None /\ j.snaps[j.name].overlay = j.snap.overlay
       /\ Folding(j) => j.site # "none"
       /\ j.pc = "files" => j.site = "files"
       /\ j.pc = "residual" \/ (Folding(j) /\ j.site = "residual") => ~ All(r)
       /\ j.pc = "files" \/ Folding(j) =>
             /\ j.disk \in 0..lastFile /\ j.kept = KeptBy(j)
             /\ j.disk \in DOMAIN files => files[j.disk].base = j.base
       /\ j.pc = "redefine" =>
             /\ ~ Running /\ ~ j.on /\ ~ IsKept(r) /\ j.base # None
             /\ disk = j.disk /\ Reads(j.base) = Reads(disk)

JobsGood ==
    /\ \A r \in Requests : EditGood(r) /\ ChoiceGood(r)
    /\ \A q, r \in Requests : q # r => EditsApart(q, r)

-----------------------------------------------------------------------------
(* One snapshot, when files change.                                        *)

LEMMA NoneIsNoNumber == None \notin Nat
BY SnapshotsAssumption

LEMMA EntryType ==
    ASSUME NEW e \in Entries
    PROVE  /\ e.origin \in Nat /\ e.overlay \in Nat \cup {None}
           /\ e.saved \in Contents \cup {None} /\ e.state \in {"off", "running"}
           /\ e.parent \in SnapshotNames \cup {None} /\ e.want \in Contents
           /\ e.touched \in BOOLEAN
BY DEF Entries

LEMMA FixedIsInChain ==
    ASSUME NEW fs, NEW e
    PROVE  FixedIn(fs, e) \subseteq ChainIn(fs, e.origin)
BY DEF FixedIn

(* A snapshot gives what it gave when the files it depends on stay and its *)
(* own file can still be read.                                             *)
LEMMA SurvivesStays ==
    ASSUME NEW fs, Forest(fs), NEW gs, Forest(gs), NEW e \in Entries, NEW d, NEW d2,
           Survives(fs, d, e),
           \A g \in FixedIn(fs, e) : g \in DOMAIN gs /\ gs[g] = fs[g],
           e.overlay # None => e.overlay \in DOMAIN gs,
           e.origin \in DOMAIN gs, gs[e.origin].base = fs[e.origin].base,
           ReadsIn(gs, e.origin) # None,
           e.overlay = None /\ e.saved = None => fs[e.origin].base # None,
           d2 \notin FixedIn(fs, e)
    PROVE  Survives(gs, d2, e)
<1>1. e.origin \in Nat /\ ReadsIn(fs, e.origin) # None
  BY EntryType DEF Survives
<1>2. CASE e.overlay # None
  <2>1. FixedIn(fs, e) = ChainIn(fs, e.origin)
    BY <1>2 DEF FixedIn
  <2>2. ReadsIn(gs, e.origin) = ReadsIn(fs, e.origin) /\ ChainIn(gs, e.origin) = ChainIn(fs, e.origin)
    BY <1>1, <2>1, SameChain
  <2>3. FixedIn(gs, e) = FixedIn(fs, e) /\ GivenIn(gs, e) = GivenIn(fs, e)
    BY <1>2, <2>2 DEF FixedIn, GivenIn
  <2> QED BY <1>1, <2>2, <2>3 DEF Survives
<1>3. CASE e.overlay = None
  <2>1. FixedIn(fs, e) = ChainIn(fs, e.origin) \ {e.origin}
        /\ FixedIn(gs, e) = ChainIn(gs, e.origin) \ {e.origin}
    BY <1>3 DEF FixedIn
  <2>2. CASE fs[e.origin].base = None
    <3>1. ChainIn(gs, e.origin) = {e.origin}
      BY <1>1, <2>2, ReadableFile
    <3>2. GivenIn(gs, e) = GivenIn(fs, e)
      BY <1>3, <2>2 DEF GivenIn
    <3>3. d2 \notin FixedIn(gs, e)
      BY <2>1, <3>1
    <3> QED BY <1>3, <3>2, <3>3 DEF Survives
  <2>3. CASE fs[e.origin].base # None
    <3>1. PICK b \in Nat : b = fs[e.origin].base
      <4>1. fs[e.origin].base \in 0..e.origin - 1
        BY <1>1, <2>3, ReadableFile
      <4> QED BY <4>1
    <3>2. ReadsIn(fs, b) # None /\ ChainIn(fs, b) = ChainIn(fs, e.origin) \ {e.origin}
      BY <1>1, <2>3, <3>1, ReadableFile
    <3>3. ReadsIn(gs, b) = ReadsIn(fs, b) /\ ChainIn(gs, b) = ChainIn(fs, b)
      BY <2>1, <3>2, SameChain
    <3>4. ChainIn(gs, b) = ChainIn(gs, e.origin) \ {e.origin}
      BY <1>1, <2>3, <3>1, ReadableFile
    <3>5. FixedIn(gs, e) = FixedIn(fs, e)
      BY <2>1, <3>2, <3>3, <3>4
    <3>6. GivenIn(gs, e) = GivenIn(fs, e)
      BY <1>3, <3>1, <3>3 DEF GivenIn
    <3> QED BY <1>3, <3>5, <3>6 DEF Survives
  <2> QED BY <2>2, <2>3
<1> QED BY <1>2, <1>3

(* The same, when its own file stays as well.                              *)
LEMMA SurvivesSame ==
    ASSUME NEW fs, Forest(fs), NEW gs, Forest(gs), NEW e \in Entries, NEW d, NEW d2,
           Survives(fs, d, e),
           \A g \in ChainIn(fs, e.origin) : g \in DOMAIN gs /\ gs[g] = fs[g],
           e.overlay # None => e.overlay \in DOMAIN gs,
           e.overlay = None /\ e.saved = None => fs[e.origin].base # None,
           d2 \notin FixedIn(fs, e)
    PROVE  Survives(gs, d2, e)
<1>1. e.origin \in Nat /\ ReadsIn(fs, e.origin) # None
  BY EntryType DEF Survives
<1>2. ReadsIn(gs, e.origin) # None
  BY <1>1, SameChain
<1>3. e.origin \in DOMAIN gs /\ gs[e.origin].base = fs[e.origin].base
  BY <1>1, ReadableFile
<1>4. \A g \in FixedIn(fs, e) : g \in DOMAIN gs /\ gs[g] = fs[g]
  BY FixedIsInChain
<1> QED BY <1>2, <1>3, <1>4, SurvivesStays

(* No operation lays a file on another one, and files do not come back.    *)
BasesStay(fs, last, gs) ==
    \A f \in DOMAIN gs : f =< last => f \in DOMAIN fs /\ gs[f].base = fs[f].base

(* An entry stays good when bases stay and its snapshot still gives what   *)
(* it should.                                                              *)
LEMMA EntryStays ==
    ASSUME NEW fs, NEW gs, NEW last \in Nat, NEW last2 \in Nat, last =< last2,
           BasesStay(fs, last, gs), NEW e \in Entries, NEW d, NEW d2,
           EntryGood(fs, d, last, e), e.touched \/ Survives(gs, d2, e)
    PROVE  EntryGood(gs, d2, last2, e)
<1>1. e.origin \in Nat /\ e.overlay \in Nat \cup {None} /\ None \notin Nat
  BY EntryType, NoneIsNoNumber
<1>2. e.origin =< last /\ e.origin =< last2
  BY <1>1 DEF EntryGood
<1>3. ASSUME e.overlay # None
      PROVE  /\ e.origin < e.overlay /\ e.overlay =< last2
             /\ e.overlay \in DOMAIN gs => gs[e.overlay].base = e.origin
  <2>1. e.overlay \in Nat /\ e.origin < e.overlay /\ e.overlay =< last
    BY <1>1, <1>3 DEF EntryGood
  <2>2. e.overlay =< last2
    BY <2>1
  <2>3. e.overlay \in DOMAIN gs => e.overlay \in DOMAIN fs /\ gs[e.overlay].base = fs[e.overlay].base
    BY <2>1 DEF BasesStay
  <2> QED BY <1>3, <2>1, <2>2, <2>3 DEF EntryGood
<1>4. ASSUME e.overlay = None, e.saved = None, e.origin \in DOMAIN gs
      PROVE  gs[e.origin].base # None
  <2>1. e.origin \in DOMAIN fs /\ gs[e.origin].base = fs[e.origin].base
    BY <1>2, <1>4 DEF BasesStay
  <2> QED BY <1>4, <2>1 DEF EntryGood
<1> QED BY <1>2, <1>3, <1>4 DEF EntryGood

-----------------------------------------------------------------------------
(* The snapshots and their files.                                          *)

(* What the types of the machine say of its parts.                         *)
LEMMA MachineTypes ==
    ASSUME SnapshotsTypeOK
    PROVE  /\ lastFile \in Nat /\ disk \in Nat /\ disk =< lastFile
           /\ DOMAIN files \subseteq 0..lastFile /\ files \in [DOMAIN files -> Images]
           /\ DOMAIN snaps \subseteq SnapshotNames
           /\ snaps \in [DOMAIN snaps -> Entries]
           /\ \A s \in DOMAIN snaps : snaps[s] \in Entries
           /\ \A s \in DOMAIN snaps : snaps[s].parent \in {None} \cup DOMAIN snaps
           /\ seen \in Contents /\ seen # None /\ None \notin SnapshotNames
           /\ None \notin DOMAIN snaps
<1>1. /\ DOMAIN snaps \subseteq SnapshotNames
      /\ snaps \in [DOMAIN snaps -> Entries]
  BY DEF SnapshotsTypeOK, Lists
<1>2. None \notin SnapshotNames /\ None \notin Nat /\ MaxChanges \in Nat
  BY SnapshotsAssumption
<1>3. seen \in Contents /\ Contents \subseteq Nat
  BY <1>2 DEF SnapshotsTypeOK, Contents
<1>4. lastFile \in Nat /\ disk \in 0..lastFile
  BY DEF SnapshotsTypeOK
<1>5. disk \in Nat /\ disk =< lastFile
  BY <1>4
<1> QED BY <1>1, <1>2, <1>3, <1>4, <1>5 DEF SnapshotsTypeOK

(* Every file below a snapshot was taken a snapshot of, and every file     *)
(* another one there lies on an external one with children.                *)
LEMMA OriginLiesOnOrigin ==
    ASSUME SnapshotsTypeOK, Forest(files), Lineage, Acyclic(snaps),
           NEW s \in DOMAIN snaps, snaps[s].origin \in DOMAIN files,
           files[snaps[s].origin].base # None
    PROVE  \E u \in DOMAIN snaps :
              /\ snaps[u].overlay # None /\ snaps[u].origin = files[snaps[s].origin].base
              /\ \E t \in DOMAIN snaps :
                    /\ snaps[t].parent = u /\ snaps[t].origin = snaps[s].origin
                    /\ \A v \in DOMAIN snaps \ {u} : snaps[v].overlay # snaps[s].origin
<1> DEFINE x == snaps[s].origin
           S == {t \in DOMAIN snaps : snaps[t].origin = x}
<1>1. PICK t \in S : snaps[t].parent \notin S
  BY DEF Acyclic
<1>2. Under(x, snaps[t].parent)
  BY DEF Lineage
<1>3. Base(x) = files[x].base /\ Base(x) # None
  BY DEF Base
<1> DEFINE p == snaps[t].parent
<1>4. p # None => p \in DOMAIN snaps
  BY MachineTypes
<1>5. p # None /\ External(p) /\ snaps[p].origin = Base(x)
      /\ \A v \in DOMAIN snaps \ {p} : snaps[v].overlay # x
  BY <1>1, <1>2, <1>3, <1>4 DEF Under
<1> QED BY <1>1, <1>3, <1>4, <1>5 DEF External

(* Every file below that of a snapshot is the file of some snapshot.       *)
LEMMA ChainOfOrigins ==
    ASSUME SnapshotsTypeOK, Forest(files), Lineage, Acyclic(snaps),
           NEW s \in DOMAIN snaps, NEW x \in ChainIn(files, snaps[s].origin)
    PROVE  \E t \in DOMAIN snaps : snaps[t].origin = x
<1>1. PICK o \in Nat : o = snaps[s].origin
  BY MachineTypes, EntryType
<1>2. ChainIn(files, o) \subseteq DOMAIN files \cap 0..o
  BY ChainIsBelow
<1> DEFINE Named(y) == \E t \in DOMAIN snaps : snaps[t].origin = y
           T == {k \in Nat : k =< o /\ o - k \in ChainIn(files, o) /\ ~ Named(o - k)}
<1>3. SUFFICES ASSUME ~ Named(x) PROVE FALSE
  OBVIOUS
<1>4. T # {}
  <2>1. x \in Nat /\ x =< o /\ x \in ChainIn(files, o)
    BY <1>1, <1>2
  <2>2. o - x \in Nat /\ o - x =< o /\ o - (o - x) = x
    BY <2>1
  <2>3. o - x \in T
    BY <1>3, <2>1, <2>2
  <2> QED BY <2>3
<1>5. PICK k \in T : \A l \in T : k =< l
  <2>1. T \subseteq Nat
    OBVIOUS
  <2> HIDE DEF T
  <2> QED BY <1>4, <2>1, LeastNat
<1>6. k \in Nat /\ k =< o /\ o - k \in ChainIn(files, o) /\ ~ Named(o - k)
  OBVIOUS
<1>7. o - k # o
  BY <1>1, <1>6
<1>8. PICK y \in ChainIn(files, o) : files[y].base = o - k
  BY <1>6, <1>7, ChainLinks
<1>9. y \in DOMAIN files /\ y \in Nat /\ y =< o /\ o - k < y /\ o - k # None
  <2>1. y \in DOMAIN files /\ y \in 0..o /\ o - k \in Nat
    BY <1>2, <1>6
  <2>2. o - k # None
    BY <2>1, NoneIsNoNumber
  <2>3. files[y].base \in 0..y - 1
    BY <1>8, <2>1, <2>2, ForestFile
  <2> QED BY <1>8, <2>1, <2>2, <2>3
<1>10. Named(y)
  <2>1. o - y \in Nat /\ o - y =< o /\ o - (o - y) = y /\ ~ (k =< o - y)
    BY <1>6, <1>9
  <2>2. o - y \notin T
    <3> HIDE DEF T
    <3> QED BY <1>5, <2>1
  <2>3. o - (o - y) \in ChainIn(files, o)
    BY <2>1
  <2> HIDE DEF Named
  <2> QED BY <2>1, <2>2, <2>3
<1>11. PICK t \in DOMAIN snaps : snaps[t].origin = y
  BY <1>10
<1>12. files[snaps[t].origin].base # None /\ snaps[t].origin \in DOMAIN files
  BY <1>8, <1>9, <1>11
<1>13. \E u \in DOMAIN snaps : snaps[u].origin = files[snaps[t].origin].base
  BY <1>12, OriginLiesOnOrigin
<1> QED BY <1>6, <1>8, <1>11, <1>13

(* Every other file of its chain is the restore point of an external       *)
(* snapshot with children.                                                 *)
LEMMA LowerFilesAreRestorePoints ==
    ASSUME SnapshotsTypeOK, Forest(files), Lineage, Acyclic(snaps),
           NEW s \in DOMAIN snaps, NEW x \in ChainIn(files, snaps[s].origin), x # snaps[s].origin
    PROVE  \E u \in DOMAIN snaps :
              /\ snaps[u].overlay # None /\ snaps[u].origin = x
              /\ \E t \in DOMAIN snaps : snaps[t].parent = u
<1>1. snaps[s].origin \in Nat
  BY MachineTypes, EntryType
<1>2. PICK y \in ChainIn(files, snaps[s].origin) : files[y].base = x
  BY <1>1, ChainLinks
<1>3. PICK t \in DOMAIN snaps : snaps[t].origin = y
  BY ChainOfOrigins
<1>4. y \in DOMAIN files /\ x # None
  BY <1>1, ChainIsBelow, NoneIsNoNumber
<1> QED BY <1>2, <1>3, <1>4, OriginLiesOnOrigin

(* The overlay of an external snapshot without children is of no use to    *)
(* another one.                                                            *)
LEMMA LeafOverlayIsFree ==
    ASSUME SnapshotsTypeOK, Forest(files), Lineage, Acyclic(snaps), Apart(snaps),
           NEW n \in Leaves, snaps[n].overlay \in DOMAIN files,
           files[snaps[n].overlay].base # None, NEW s \in DOMAIN snaps
    PROVE  snaps[n].overlay \notin ChainIn(files, snaps[s].origin)
<1> DEFINE f == snaps[n].overlay
<1>1. n \in DOMAIN snaps /\ \A t \in DOMAIN snaps : snaps[t].parent # n
  BY DEF Leaves
<1>2. SUFFICES ASSUME f \in ChainIn(files, snaps[s].origin) PROVE FALSE
  OBVIOUS
<1>3. PICK t \in DOMAIN snaps : snaps[t].origin = f
  BY <1>2, ChainOfOrigins
<1>4. PICK u \in DOMAIN snaps :
        /\ \E v \in DOMAIN snaps : snaps[v].parent = u
        /\ \A v \in DOMAIN snaps \ {u} : snaps[v].overlay # f
  <2>1. snaps[t].origin \in DOMAIN files /\ files[snaps[t].origin].base # None
    BY <1>3
  <2> QED BY <1>3, <2>1, OriginLiesOnOrigin
<1> QED BY <1>1, <1>4

-----------------------------------------------------------------------------
(* What a step leaves true of the machine, and of the tasks it is not of.  *)

(* Under and Lineage, of given files and snapshots.                        *)
UnderIn(fs, sn, f, p) ==
    \/ f \notin DOMAIN fs \/ fs[f].base = None
    \/ p # None /\ sn[p].origin = f
    \/ /\ p # None /\ sn[p].overlay # None /\ sn[p].origin = fs[f].base
       /\ \A s \in DOMAIN sn \ {p} : sn[s].overlay # f
LineageIn(fs, sn) == \A s \in DOMAIN sn : UnderIn(fs, sn, sn[s].origin, sn[s].parent)

LEMMA LineageIsLineageIn == Lineage <=> LineageIn(files, snaps)
<1>1. \A f, p : Under(f, p) <=> UnderIn(files, snaps, f, p)
  BY DEF Under, UnderIn, Base, External
<1> QED BY <1>1 DEF Lineage, LineageIn

(* Snapshots lie where their parents do as long as bases stay.             *)
LEMMA LineageStays ==
    ASSUME NEW fs, NEW gs, NEW last, BasesStay(fs, last, gs), NEW sn, LineageIn(fs, sn),
           \A s \in DOMAIN sn : sn[s].origin =< last
    PROVE  LineageIn(gs, sn)
<1> SUFFICES ASSUME NEW s \in DOMAIN sn
             PROVE  UnderIn(gs, sn, sn[s].origin, sn[s].parent)
  BY DEF LineageIn
<1>1. UnderIn(fs, sn, sn[s].origin, sn[s].parent)
  BY DEF LineageIn
<1>2. sn[s].origin \in DOMAIN gs =>
        sn[s].origin \in DOMAIN fs /\ gs[sn[s].origin].base = fs[sn[s].origin].base
  BY DEF BasesStay
<1> QED BY <1>1, <1>2 DEF UnderIn

(* The machine stays good in a step that lists the same snapshots.         *)
LEMMA MachineStays ==
    ASSUME SnapshotsTypeOK, MachineGood, snaps' = snaps,
           lastFile' \in Nat, lastFile =< lastFile',
           Forest(files'), BasesStay(files, lastFile, files'), ReadsIn(files', disk') = seen',
           \A s \in DOMAIN snaps : snaps[s].touched \/ Survives(files', disk', snaps[s])
    PROVE  MachineGood'
<1>1. \A s \in DOMAIN snaps : EntryGood(files', disk', lastFile', snaps[s])
  BY MachineTypes, EntryStays DEF MachineGood
<1>2. LineageIn(files', snaps)
  <2>1. \A s \in DOMAIN snaps : snaps[s].origin =< lastFile
    BY DEF MachineGood, EntryGood
  <2>2. LineageIn(files, snaps)
    BY LineageIsLineageIn DEF MachineGood
  <2> QED BY <2>1, <2>2, LineageStays
<1>3. Lineage'
  <2>1. (Lineage <=> LineageIn(files, snaps))'
    BY LineageIsLineageIn, PTL
  <2> QED BY <1>2, <2>1
<1>4. Reads(disk)' = seen'
  BY DEF Reads
<1> QED BY <1>1, <1>3, <1>4 DEF MachineGood

(* A file that is spare stays so.                                          *)
StaySpare(n) ==
    /\ disk' # n
    /\ \A s \in DOMAIN snaps' : n # snaps'[s].origin /\ n # snaps'[s].overlay
    /\ \A f \in DOMAIN files' : f > lastFile => files'[f].base # n
    /\ n \in DOMAIN files' => files'[n].data = files[n].data

(* What the tasks that do not move rely on stays so.                       *)
LEMMA JobsStay ==
    ASSUME SnapshotsTypeOK, JobsGood, NEW movers, DOMAIN files' \subseteq Nat,
           \A q \in Requests \ movers : job'[q] = job[q] /\ ask'[q] = ask[q],
           lastFile' \in Nat, lastFile =< lastFile', BasesStay(files, lastFile, files'),
           \A q \in Requests \ movers : At(q, "edit") => StaySpare(job[q].new),
           \A q \in Requests \ movers : At(q, "redefine") =>
              power' = power /\ disk' = disk /\ ReadsIn(files', job[q].base) = ReadsIn(files', disk),
           \A r \in Requests \cap movers :
              /\ EditGood(r)' /\ ChoiceGood(r)'
              /\ \A q \in Requests \ {r} : EditsApart(q, r)' /\ EditsApart(r, q)'
    PROVE  JobsGood'
<1>1. ASSUME NEW q \in Requests \ movers PROVE EditGood(q)'
  <2>1. EditGood(q) /\ job'[q] = job[q]
    BY DEF JobsGood
  <2>2. ASSUME At(q, "overlay") \/ At(q, "edit")
        PROVE  /\ ~ job[q].on /\ job[q].name \in DOMAIN job[q].snaps
               /\ job[q].snap = job[q].snaps[job[q].name]
               /\ job[q].snap.overlay # None /\ job[q].snap.origin =< lastFile
               /\ job[q].snap.origin =< lastFile'
    <3>1. /\ ~ job[q].on /\ job[q].name \in DOMAIN job[q].snaps
          /\ job[q].snap = job[q].snaps[job[q].name]
          /\ job[q].snap.overlay # None /\ job[q].snap.origin =< lastFile
      BY <2>1, <2>2 DEF EditGood
    <3>2. job[q].snap \in Entries
      <4>1. job[q] \in Jobs
        BY <2>2 DEF SnapshotsTypeOK, At
      <4>2. job[q].snaps \in Lists
        BY <4>1 DEF Jobs
      <4> QED BY <3>1, <4>2 DEF Lists
    <3>3. job[q].snap.origin \in Nat
      BY <3>2, EntryType
    <3> QED BY <3>1, <3>3, MachineTypes
  <2>3. ASSUME At(q, "edit")
        PROVE  /\ Spare(job[q].new)'
               /\ job[q].new \in DOMAIN files' =>
                     files'[job[q].new].data = None
                     /\ files'[job[q].new].base = job[q].snap.origin
    <3>1. PICK n : n = job[q].new
      OBVIOUS
    <3>2. Spare(n) /\ (n \in DOMAIN files => files[n].data = None /\ files[n].base = job[q].snap.origin)
      BY <2>1, <2>3, <3>1 DEF EditGood
    <3>3. StaySpare(n)
      BY <2>3, <3>1
    <3>4. n \in 0..lastFile /\ n \in 0..lastFile' /\ n =< lastFile
      BY <3>2, MachineTypes DEF Spare
    <3>5. \A f \in DOMAIN files' : files'[f].base # n
      <4> SUFFICES ASSUME NEW f \in DOMAIN files' PROVE files'[f].base # n
        OBVIOUS
      <4>1. CASE f =< lastFile
        BY <3>2, <4>1 DEF BasesStay, Spare
      <4>2. CASE ~ (f =< lastFile)
        <5>1. f > lastFile
          BY <4>2, MachineTypes
        <5> QED BY <3>3, <5>1 DEF StaySpare
      <4> QED BY <4>1, <4>2
    <3>6. Spare(n)'
      BY <3>3, <3>4, <3>5 DEF Spare, StaySpare
    <3>7. n \in DOMAIN files' => files'[n].data = None /\ files'[n].base = job[q].snap.origin
      BY <3>2, <3>3, <3>4 DEF StaySpare, BasesStay
    <3> QED BY <2>1, <3>1, <3>6, <3>7 DEF Spare
  <2> QED BY <2>1, <2>2, <2>3 DEF EditGood, At
<1>2. ASSUME NEW q \in Requests \ movers PROVE ChoiceGood(q)'
  <2>1. ChoiceGood(q) /\ job'[q] = job[q] /\ ask'[q] = ask[q]
    BY DEF JobsGood
  <2>2. SUFFICES ASSUME job[q] # None PROVE ChoiceGood(q)'
    BY <2>1 DEF ChoiceGood
  <2>3. (All(q)' <=> All(q)) /\ (Chosen(q)' <=> Chosen(q)) /\ (IsKept(q)' <=> IsKept(q))
    BY <2>1 DEF All, Chosen, IsKept, Preserve
  <2>4. ASSUME job[q].pc = "files" \/ Folding(job[q])
        PROVE  /\ job[q].disk \in 0..lastFile' /\ job[q].kept = KeptBy(job[q])
               /\ job[q].disk \in DOMAIN files' => files'[job[q].disk].base = job[q].base
    <3>1. /\ job[q].disk \in 0..lastFile /\ job[q].kept = KeptBy(job[q])
          /\ job[q].disk \in DOMAIN files => files[job[q].disk].base = job[q].base
      BY <2>1, <2>2, <2>4 DEF ChoiceGood
    <3>2. job[q].disk =< lastFile /\ job[q].disk \in 0..lastFile'
      BY <3>1, MachineTypes
    <3> QED BY <3>1, <3>2 DEF BasesStay
  <2>5. ASSUME job[q].pc = "redefine"
        PROVE  /\ (~ Running)' /\ ~ job[q].on /\ ~ IsKept(q) /\ job[q].base # None
               /\ disk' = job[q].disk /\ ReadsIn(files', job[q].base) = ReadsIn(files', disk')
    <3>1. /\ ~ Running /\ ~ job[q].on /\ ~ IsKept(q) /\ job[q].base # None
          /\ disk = job[q].disk
      BY <2>1, <2>2, <2>5 DEF ChoiceGood
    <3>2. power' = power /\ disk' = disk /\ ReadsIn(files', job[q].base) = ReadsIn(files', disk)
      BY <2>2, <2>5 DEF At
    <3> QED BY <3>1, <3>2 DEF Running
  <2>6. /\ job[q].pc \in {"create", "make"} => job[q].name \in SnapshotNames
        /\ job[q].pc = "delete" => ~ All(q)
        /\ Deleting(job[q]) => Chosen(q) /\ job[q].snap # None
        /\ job[q].pc \in {"external", "files"} =>
             job[q].snap.overlay # None /\ job[q].snaps[job[q].name].overlay = job[q].snap.overlay
        /\ Folding(job[q]) => job[q].site # "none"
        /\ job[q].pc = "residual" \/ (Folding(job[q]) /\ job[q].site = "residual") => ~ All(q)
    BY <2>1, <2>2 DEF ChoiceGood
  <2> HIDE DEF Folding, KeptBy, Deleting
  <2> QED BY <2>1, <2>3, <2>4, <2>5, <2>6 DEF ChoiceGood, Reads
<1>3. ASSUME NEW q \in Requests \ movers, NEW r \in Requests \ movers, q # r
      PROVE  EditsApart(q, r)'
  BY <1>3 DEF JobsGood, EditsApart, At
<1> QED BY <1>1, <1>2, <1>3 DEF JobsGood

(* A task at any other place relies on nothing.                            *)
Quiet(j) ==
    j # None =>
       /\ j.pc \in {"create", "make"} => j.name \in SnapshotNames
       /\ j.pc \in {"create", "make", "revert", "switch", "pointer", "start", "delete_all",
                    "metadata", "retry", "last", "cleanup", "end"}

(* A quiet task relies on nothing.                                         *)
LEMMA QuietJob ==
    ASSUME NEW r \in Requests, Quiet(job'[r])
    PROVE  /\ EditGood(r)' /\ ChoiceGood(r)'
           /\ \A q \in Requests \ {r} : EditsApart(q, r)' /\ EditsApart(r, q)'
<1>1. ~ At(r, "overlay")' /\ ~ At(r, "edit")'
  BY DEF At, Quiet
<1>2. ChoiceGood(r)'
  BY DEF ChoiceGood, Quiet, Deleting, Folding
<1> QED BY <1>1, <1>2 DEF EditGood, EditsApart

-----------------------------------------------------------------------------
(* The steps of a task.                                                    *)

SnapshotsInv == SnapshotsTypeOK /\ (missteps = {} => MachineGood /\ JobsGood)

(* The types of the machine, and the places of a task.                     *)
MachineTyped ==
    /\ lastFile \in Nat
    /\ files \in [DOMAIN files -> Images] /\ DOMAIN files \subseteq 0..lastFile
    /\ disk \in 0..lastFile /\ power \in {"off", "running"}
    /\ snaps \in Lists /\ current \in {None} \cup DOMAIN snaps
    /\ \A s \in DOMAIN snaps : snaps[s].parent \in {None} \cup DOMAIN snaps
    /\ seen \in Contents

Places ==
    {"create", "make", "revert", "switch", "overlay", "edit", "pointer", "start",
     "delete", "delete_all", "external", "internal", "files", "mismatch", "fold",
     "redefine", "metadata", "retry", "residual", "last", "cleanup", "end"}

LEMMA JobType ==
    ASSUME NEW j \in Jobs
    PROVE  /\ j.pc \in Places /\ j.name \in SnapshotNames \cup {None}
           /\ j.site \in {"none", "files", "mismatch", "residual", "last"}
           /\ j.disk \in Nat \cup {None} /\ j.on \in BOOLEAN /\ j.base \in Nat \cup {None}
           /\ j.snaps \in Lists /\ j.kept \in SUBSET Nat /\ j.snap \in Entries \cup {None}
           /\ j.new \in Nat \cup {None} /\ j # None
BY SnapshotsAssumption DEF Jobs, Places

LEMMA FreshType ==
    ASSUME NEW pc \in Places, NEW n \in SnapshotNames \cup {None}
    PROVE  /\ Fresh(pc, n) \in Jobs /\ Fresh(pc, n).pc = pc /\ Fresh(pc, n).name = n
           /\ Fresh(pc, n).snap = None
<1>1. Nothing \in Lists
  <2>1. Nothing \in [{} -> Entries]
    BY DEF Nothing
  <2>2. {} \in SUBSET SnapshotNames
    OBVIOUS
  <2> QED BY <2>1, <2>2 DEF Lists
<1> QED BY <1>1 DEF Fresh, Jobs, Places

LEMMA GoToType ==
    ASSUME NEW j \in Jobs, NEW pc \in Places
    PROVE  /\ [j EXCEPT !.pc = pc] \in Jobs /\ [j EXCEPT !.pc = pc].pc = pc
           /\ [j EXCEPT !.pc = pc].name = j.name /\ [j EXCEPT !.pc = pc].site = j.site
           /\ [j EXCEPT !.pc = pc].disk = j.disk /\ [j EXCEPT !.pc = pc].on = j.on
           /\ [j EXCEPT !.pc = pc].base = j.base /\ [j EXCEPT !.pc = pc].snaps = j.snaps
           /\ [j EXCEPT !.pc = pc].kept = j.kept /\ [j EXCEPT !.pc = pc].snap = j.snap
           /\ [j EXCEPT !.pc = pc].new = j.new
BY DEF Jobs, Places

LEMMA JobAt ==
    ASSUME SnapshotsTypeOK, NEW r \in Requests, NEW pc, At(r, pc)
    PROVE  job[r] # None /\ job[r] \in Jobs /\ job[r].pc = pc
BY DEF SnapshotsTypeOK, At

(* A step of one task keeps the types.                                     *)
LEMMA TypesStep ==
    ASSUME SnapshotsTypeOK, NEW r \in Requests, job[r] # None, NEW j \in Jobs, To(r, j),
           UNCHANGED <<written, states, ask>>, faults' \in 0..MaxFaults, MachineTyped'
    PROVE  SnapshotsTypeOK' /\ job'[r] = j /\ \A q \in Requests \ {r} : job'[q] = job[q]
<1>1. job' \in [Requests -> Jobs \cup {None}]
      /\ job'[r] = j /\ \A q \in Requests \ {r} : job'[q] = job[q]
  BY DEF To, SnapshotsTypeOK
<1>2. \A q \in Requests : job'[q] # None => states'[q] = "executing"
  BY <1>1 DEF SnapshotsTypeOK
<1> QED BY <1>1, <1>2 DEF SnapshotsTypeOK, MachineTyped

LEMMA FaultType ==
    ASSUME SnapshotsTypeOK, Fault \/ UNCHANGED faults
    PROVE  faults' \in 0..MaxFaults
BY SnapshotsAssumption DEF SnapshotsTypeOK, Fault

LEMMA SpareSame ==
    ASSUME SnapshotsTypeOK, NEW n, Spare(n), UNCHANGED <<files, disk, snaps>>
    PROVE  StaySpare(n)
<1>1. \A f \in DOMAIN files : ~ (f > lastFile)
  BY MachineTypes
<1> QED BY <1>1 DEF Spare, StaySpare

LEMMA MachineSame ==
    ASSUME MachineGood, UNCHANGED <<files, lastFile, disk, snaps, seen>>
    PROVE  MachineGood'
<1>1. Lineage'
  BY DEF MachineGood, Lineage, Under, Base, External
<1> QED BY <1>1 DEF MachineGood, Reads

(* A task makes a step, after which it relies on nothing new, or on what   *)
(* is shown.                                                               *)
LEMMA TaskStep ==
    ASSUME SnapshotsTypeOK, JobsGood,
           NEW r \in Requests, job[r] # None, NEW j \in Jobs, To(r, j),
           UNCHANGED <<written, states, ask>>, faults' \in 0..MaxFaults, MachineTyped',
           missteps' = {} =>
              /\ MachineGood'
              /\ lastFile =< lastFile' /\ BasesStay(files, lastFile, files')
              /\ \A q \in Requests \ {r} : At(q, "edit") => StaySpare(job[q].new)
              /\ \A q \in Requests \ {r} : At(q, "redefine") =>
                    /\ power' = power /\ disk' = disk
                    /\ ReadsIn(files', job[q].base) = ReadsIn(files', disk)
              /\ \/ Quiet(j)
                 \/ /\ EditGood(r)' /\ ChoiceGood(r)'
                    /\ \A q \in Requests \ {r} : EditsApart(q, r)' /\ EditsApart(r, q)'
    PROVE  SnapshotsInv'
<1>1. SnapshotsTypeOK' /\ job'[r] = j /\ \A q \in Requests \ {r} : job'[q] = job[q]
  BY TypesStep
<1>2. ASSUME missteps' = {} PROVE JobsGood'
  <2>1. /\ EditGood(r)' /\ ChoiceGood(r)'
        /\ \A q \in Requests \ {r} : EditsApart(q, r)' /\ EditsApart(r, q)'
    <3>1. Quiet(j) => Quiet(job'[r])
      BY <1>1
    <3> QED BY <1>2, <3>1, QuietJob
  <2>2. lastFile' \in Nat /\ DOMAIN files' \subseteq Nat
    BY DEF MachineTyped
  <2>3. \A q \in Requests \ {r} : job'[q] = job[q] /\ ask'[q] = ask[q]
    BY <1>1
  <2>4. \A q \in Requests \cap {r} :
           /\ EditGood(q)' /\ ChoiceGood(q)'
           /\ \A p \in Requests \ {q} : EditsApart(p, q)' /\ EditsApart(q, p)'
    <3> SUFFICES ASSUME NEW q \in Requests \cap {r}
                 PROVE  /\ EditGood(q)' /\ ChoiceGood(q)'
                        /\ \A p \in Requests \ {q} : EditsApart(p, q)' /\ EditsApart(q, p)'
      OBVIOUS
    <3>1. q = r
      OBVIOUS
    <3> QED BY <2>1, <3>1
  <2> QED BY <1>2, <2>2, <2>3, <2>4, JobsStay
<1> QED BY <1>1, <1>2 DEF SnapshotsInv

LEMMA FilesSame ==
    ASSUME SnapshotsTypeOK, JobsGood, UNCHANGED <<files, lastFile, disk, snaps>>
    PROVE  /\ lastFile =< lastFile' /\ BasesStay(files, lastFile, files')
           /\ \A q \in Requests : At(q, "edit") => StaySpare(job[q].new)
           /\ \A q \in Requests : At(q, "redefine") =>
                 disk' = disk /\ ReadsIn(files', job[q].base) = ReadsIn(files', disk)
<1>1. lastFile =< lastFile'
  BY MachineTypes
<1>2. BasesStay(files, lastFile, files')
  BY DEF BasesStay
<1>3. ASSUME NEW q \in Requests, At(q, "edit") PROVE StaySpare(job[q].new)
  <2>1. Spare(job[q].new)
    BY <1>3 DEF JobsGood, EditGood
  <2> QED BY <2>1, SpareSame
<1>4. ASSUME NEW q \in Requests, At(q, "redefine")
      PROVE  disk' = disk /\ ReadsIn(files', job[q].base) = ReadsIn(files', disk)
  <2>1. job[q] # None /\ job[q].pc = "redefine" /\ ChoiceGood(q)
    BY <1>4 DEF At, JobsGood
  <2> QED BY <2>1 DEF ChoiceGood, Reads
<1> QED BY <1>1, <1>2, <1>3, <1>4

(* A task becomes quiet and changes nothing else.                          *)
LEMMA QuietStep ==
    ASSUME SnapshotsTypeOK, MachineGood, JobsGood,
           NEW r \in Requests, job[r] # None, NEW j \in Jobs, Quiet(j), To(r, j),
           UNCHANGED <<written, states, ask>>, Fault \/ UNCHANGED faults, UNCHANGED machine
    PROVE  SnapshotsInv'
<1>1. faults' \in 0..MaxFaults
  BY FaultType
<1>2. MachineTyped'
  BY DEF SnapshotsTypeOK, MachineTyped, machine
<1>3. MachineGood'
  BY MachineSame DEF machine
<1>4. /\ lastFile =< lastFile' /\ BasesStay(files, lastFile, files')
      /\ \A q \in Requests : At(q, "edit") => StaySpare(job[q].new)
      /\ \A q \in Requests : At(q, "redefine") =>
            disk' = disk /\ ReadsIn(files', job[q].base) = ReadsIn(files', disk)
  BY FilesSame DEF machine
<1>5. power' = power
  BY DEF machine
<1> QED BY <1>1, <1>2, <1>3, <1>4, <1>5, TaskStep

LEMMA Ends ==
    ASSUME SnapshotsTypeOK, MachineGood, JobsGood,
           NEW r \in Requests, job[r] # None, End(r),
           UNCHANGED <<written, states, ask>>, Fault \/ UNCHANGED faults, UNCHANGED machine
    PROVE  SnapshotsInv'
<1>1. Fresh("end", None) \in Jobs /\ Fresh("end", None).pc = "end"
  BY FreshType DEF Places
<1>2. Quiet(Fresh("end", None))
  BY <1>1 DEF Quiet
<1> QED BY <1>1, <1>2, QuietStep DEF End

-----------------------------------------------------------------------------
(* The files, when one is added, and when some go or get other contents.   *)

(* A file is added.                                                        *)
LEMMA NewFile ==
    ASSUME SnapshotsTypeOK, Forest(files), NEW gs, NEW image \in Images,
           gs = With(files, lastFile + 1, image),
           image.base # None => image.base =< lastFile
    PROVE  /\ Forest(gs) /\ BasesStay(files, lastFile, gs)
           /\ DOMAIN gs = DOMAIN files \cup {lastFile + 1} /\ DOMAIN gs \subseteq 0..lastFile + 1
           /\ gs \in [DOMAIN gs -> Images] /\ gs[lastFile + 1] = image
           /\ \A g \in DOMAIN files : gs[g] = files[g]
           /\ lastFile + 1 \notin DOMAIN files
<1>1. lastFile \in Nat /\ DOMAIN files \subseteq 0..lastFile /\ lastFile + 1 \notin DOMAIN files
  BY MachineTypes
<1>2. /\ DOMAIN gs = DOMAIN files \cup {lastFile + 1}
      /\ gs[lastFile + 1] = image /\ \A g \in DOMAIN files : gs[g] = files[g]
  BY <1>1 DEF With
<1>3. DOMAIN gs \subseteq 0..lastFile + 1 /\ DOMAIN gs \subseteq Nat
  BY <1>1, <1>2
<1>4. gs \in [DOMAIN gs -> Images]
  <2>1. \A g \in DOMAIN files : files[g] \in Images
    BY MachineTypes
  <2>2. \A g \in DOMAIN gs : gs[g] \in Images
    BY <1>2, <2>1
  <2>3. gs = [g \in DOMAIN gs |-> gs[g]]
    BY DEF With
  <2> HIDE DEF With
  <2> QED BY <2>2, <2>3
<1>5. \A f \in DOMAIN gs : gs[f].base = None \/ gs[f].base < f
  <2> SUFFICES ASSUME NEW f \in DOMAIN gs PROVE gs[f].base = None \/ gs[f].base < f
    OBVIOUS
  <2>1. CASE f \in DOMAIN files
    BY <1>2, <2>1 DEF Forest
  <2>2. CASE f = lastFile + 1
    <3>1. image.base \in Nat \cup {None}
      BY DEF Images
    <3> QED BY <1>1, <1>2, <2>2, <3>1
  <2> QED BY <1>2, <2>1, <2>2
<1>6. BasesStay(files, lastFile, gs)
  <2>1. ~ (lastFile + 1 =< lastFile)
    BY <1>1
  <2> QED BY <1>2, <2>1 DEF BasesStay
<1> QED BY <1>1, <1>2, <1>3, <1>4, <1>5, <1>6 DEF Forest

(* Files go or get other contents.                                         *)
LEMMA FilesChange ==
    ASSUME SnapshotsTypeOK, Forest(files), NEW gs, gs \in [DOMAIN gs -> Images],
           DOMAIN gs \subseteq DOMAIN files, \A g \in DOMAIN gs : gs[g].base = files[g].base
    PROVE  /\ Forest(gs) /\ BasesStay(files, lastFile, gs) /\ DOMAIN gs \subseteq 0..lastFile
<1>1. DOMAIN gs \subseteq 0..lastFile /\ DOMAIN gs \subseteq Nat
  BY MachineTypes
<1> QED BY <1>1 DEF Forest, BasesStay

-----------------------------------------------------------------------------
(* Taking a snapshot.                                                      *)

LEMMA CreateBegins ==
    ASSUME SnapshotsTypeOK, MachineGood, JobsGood, NEW r \in Requests,
           CreateSnapshotWithOptions(r), UNCHANGED <<written, states, ask>>
    PROVE  SnapshotsInv'
<1>1. job[r] # None /\ job[r] \in Jobs /\ job[r].pc = "create"
  BY JobAt DEF CreateSnapshotWithOptions
<1> DEFINE j == [job[r] EXCEPT !.pc = "make", !.on = Running]
<1>2. j \in Jobs /\ j.pc = "make" /\ j.name = job[r].name
  BY <1>1 DEF Jobs, Running
<1>3. job[r].name \in SnapshotNames
  BY <1>1 DEF JobsGood, ChoiceGood
<1>4. To(r, j) /\ UNCHANGED faults /\ UNCHANGED machine
  BY DEF CreateSnapshotWithOptions
<1> HIDE DEF j
<1>5. Quiet(j)
  BY <1>2, <1>3 DEF Quiet
<1> QED BY <1>1, <1>2, <1>4, <1>5, QuietStep

LEMMA CreateIsRefused ==
    ASSUME SnapshotsTypeOK, MachineGood, JobsGood, NEW r \in Requests,
           CreateRefused(r), UNCHANGED <<written, states, ask>>
    PROVE  SnapshotsInv'
<1>1. job[r] # None
  BY DEF CreateRefused, At
<1> QED BY <1>1, Ends DEF CreateRefused

(* A snapshot is listed that lies where its parent does.                   *)
LEMMA LineageGrows ==
    ASSUME NEW fs, NEW sn, NEW n, n \notin DOMAIN sn, n # None, NEW e, None \notin DOMAIN sn,
           LineageIn(fs, sn), Acyclic(sn),
           \A s \in DOMAIN sn : sn[s].parent \in {None} \cup DOMAIN sn,
           \A s \in DOMAIN sn : sn[s].origin # e.overlay,
           e.origin # e.overlay, e.parent \in {None} \cup DOMAIN sn,
           UnderIn(fs, sn, e.origin, e.parent)
    PROVE  LineageIn(fs, With(sn, n, e)) /\ Acyclic(With(sn, n, e))
<1> DEFINE tn == With(sn, n, e)
<1>1. /\ DOMAIN tn = DOMAIN sn \cup {n} /\ tn[n] = e
      /\ \A s \in DOMAIN sn : tn[s] = sn[s]
  BY DEF With
<1> HIDE DEF tn
<1>2. ASSUME NEW f, NEW p \in {None} \cup DOMAIN sn, f # e.overlay, UnderIn(fs, sn, f, p)
      PROVE  UnderIn(fs, tn, f, p)
  <2>1. p # None => tn[p] = sn[p]
    BY <1>1
  <2>2. ASSUME \A s \in DOMAIN sn \ {p} : sn[s].overlay # f
        PROVE  \A s \in DOMAIN tn \ {p} : tn[s].overlay # f
    BY <1>1, <1>2, <2>2
  <2> QED BY <1>2, <2>1, <2>2 DEF UnderIn
<1>3. LineageIn(fs, tn)
  <2> SUFFICES ASSUME NEW s \in DOMAIN tn PROVE UnderIn(fs, tn, tn[s].origin, tn[s].parent)
    BY DEF LineageIn
  <2>1. CASE s = n
    BY <1>1, <1>2, <2>1
  <2>2. CASE s \in DOMAIN sn
    <3>1. UnderIn(fs, sn, sn[s].origin, sn[s].parent)
      BY <2>2 DEF LineageIn
    <3> QED BY <1>1, <1>2, <2>2, <3>1
  <2> QED BY <1>1, <2>1, <2>2
<1>4. Acyclic(tn)
  <2> SUFFICES ASSUME NEW names \in SUBSET DOMAIN tn, names # {}
               PROVE  \E s \in names : tn[s].parent \notin names
    BY DEF Acyclic
  <2>1. CASE names = {n}
    BY <1>1, <2>1
  <2>2. CASE names # {n}
    <3> DEFINE old == names \ {n}
    <3>1. old \in SUBSET DOMAIN sn /\ old # {}
      BY <1>1, <2>2
    <3>2. PICK s \in old : sn[s].parent \notin old
      BY <3>1 DEF Acyclic
    <3>3. sn[s].parent # n
      BY <3>1
    <3> QED BY <1>1, <3>1, <3>2, <3>3
  <2> QED BY <2>1, <2>2
<1> QED BY <1>3, <1>4 DEF tn

(* SnapshotCreateAs: an internal snapshot leaves the files as they are, an *)
(* external one puts a new file on the one of the disk.                    *)
LEMMA Created ==
    ASSUME SnapshotsTypeOK, MachineGood, JobsGood, NEW r \in Requests,
           SnapshotCreateAs(r), UNCHANGED <<written, states, ask>>
    PROVE  SnapshotsInv'
<1>1. job[r] # None /\ job[r] \in Jobs /\ job[r].pc = "make"
  BY JobAt DEF SnapshotCreateAs
<1> DEFINE n == job[r].name
<1>2. n \in SnapshotNames /\ n \notin DOMAIN snaps /\ n # None
  <2>1. n \in SnapshotNames
    BY <1>1 DEF JobsGood, ChoiceGood
  <2> QED BY <2>1, MachineTypes DEF SnapshotCreateAs
<1>3. disk \in Nat /\ Reads(disk) # None /\ disk \in DOMAIN files /\ ReadsIn(files, disk) = seen
  <2>1. ReadsIn(files, disk) # None /\ ReadsIn(files, disk) = seen
    BY DEF SnapshotCreateAs, Reads, MachineGood
  <2> QED BY <2>1, MachineTypes, ReadableFile DEF MachineGood, Reads
<1>4. files[disk] \in Images /\ lastFile \in Nat /\ disk =< lastFile
  BY <1>3, MachineTypes
<1> DEFINE f == lastFile + 1
           o == IF disk' = disk THEN None ELSE f
           v == IF disk' = disk THEN files[disk].data ELSE None
           e == Snapshot(o, v)
<1>5. /\ snaps' = With(snaps, n, e) /\ lastFile' \in Nat /\ lastFile =< lastFile'
      /\ DOMAIN files' \subseteq 0..lastFile' /\ files' \in [DOMAIN files' -> Images]
      /\ disk' \in 0..lastFile'
      /\ Forest(files') /\ BasesStay(files, lastFile, files')
      /\ \A g \in DOMAIN files : g \in DOMAIN files' /\ files'[g] = files[g]
      /\ disk' # disk => /\ f \in DOMAIN files' /\ files'[f].base = disk /\ files'[f].data = None
                         /\ disk' = f /\ lastFile' = f
                         /\ DOMAIN files' = DOMAIN files \cup {f}
      /\ disk' = disk => files' = files /\ lastFile' = lastFile
  <2>1. CASE DiskOnly(r)
    <3> DEFINE image == [base |-> disk, data |-> None, words |-> files[disk].words \cup {n},
                         managed |-> files[disk].managed \/ n \in Generated]
    <3>1. image \in Images
      BY <1>2, <1>3, <1>4 DEF Images
    <3>2. /\ Forest(files') /\ BasesStay(files, lastFile, files')
          /\ DOMAIN files' = DOMAIN files \cup {f} /\ DOMAIN files' \subseteq 0..f
          /\ files' \in [DOMAIN files' -> Images] /\ files'[f] = image
          /\ \A g \in DOMAIN files : files'[g] = files[g]
      <4>1. files' = With(files, f, image) /\ image.base =< lastFile
        BY <1>4, <2>1 DEF DiskOnly
      <4> HIDE DEF image
      <4> QED BY <3>1, <4>1, NewFile DEF MachineGood
    <3>3. disk' = f /\ lastFile' = f /\ f # disk /\ f \in Nat /\ disk' \in 0..f
      BY <1>4, <2>1 DEF DiskOnly
    <3>4. snaps' = With(snaps, n, e)
      BY <2>1, <3>3 DEF DiskOnly
    <3> QED BY <1>4, <3>2, <3>3, <3>4
  <2>2. CASE Internal(r)
    <3>1. snaps' = With(snaps, n, e) /\ UNCHANGED <<files, lastFile, disk>>
      BY <2>2 DEF Internal
    <3> QED BY <3>1, MachineTypes DEF MachineGood, BasesStay, SnapshotsTypeOK
  <2> QED BY <2>1, <2>2 DEF SnapshotCreateAs
<1> HIDE DEF n
<1>6. /\ e \in Entries /\ e.origin = disk /\ e.overlay = o /\ e.saved = v /\ e.parent = current
      /\ e.want = seen /\ ~ e.touched
  <2>1. /\ current \in {None} \cup SnapshotNames /\ power \in {"off", "running"}
        /\ files[disk].data \in Contents \cup {None} /\ seen \in Contents
    BY <1>4, MachineTypes DEF SnapshotsTypeOK, Images
  <2>2. Reads(disk) = seen
    BY DEF MachineGood
  <2>3. o \in Nat \cup {None}
    BY <1>4
  <2> QED BY <1>3, <2>1, <2>2, <2>3 DEF Entries, Snapshot
<1> HIDE DEF e
<1>7. /\ DOMAIN snaps' = DOMAIN snaps \cup {n} /\ snaps'[n] = e
      /\ \A s \in DOMAIN snaps : snaps'[s] = snaps[s]
      /\ snaps' \in [DOMAIN snaps' -> Entries] /\ DOMAIN snaps' \subseteq SnapshotNames
  BY <1>2, <1>5, <1>6, MachineTypes DEF With
<1>8. MachineTyped'
  <2>1. snaps' \in Lists
    BY <1>7 DEF Lists
  <2>2. current' \in {None} \cup DOMAIN snaps' /\ UNCHANGED <<power, seen>>
    BY <1>7 DEF SnapshotCreateAs, n
  <2>3. current \in {None} \cup DOMAIN snaps
    BY DEF SnapshotsTypeOK
  <2>4. \A s \in DOMAIN snaps' : snaps'[s].parent \in {None} \cup DOMAIN snaps'
    BY <1>6, <1>7, <2>3, MachineTypes
  <2> QED BY <1>5, <2>1, <2>2, <2>4 DEF MachineTyped, SnapshotsTypeOK
<1>9. /\ Fresh("end", None) \in Jobs /\ Quiet(Fresh("end", None)) /\ To(r, Fresh("end", None))
      /\ faults' \in 0..MaxFaults
  <2>1. Fresh("end", None) \in Jobs /\ Fresh("end", None).pc = "end"
    BY FreshType DEF Places
  <2> QED BY <2>1, FaultType DEF SnapshotCreateAs, End, Quiet
<1>10. ASSUME missteps' = {}
       PROVE  Under(disk, current) /\ (disk' # disk => \A q \in Requests : ~ At(q, "redefine"))
  BY <1>10 DEF SnapshotCreateAs, Window, Redefining
<1>11. \A s \in DOMAIN snaps : /\ snaps[s].origin \in Nat /\ snaps[s].origin =< lastFile
                               /\ snaps[s].overlay # None => snaps[s].overlay \in Nat
                                                             /\ snaps[s].overlay =< lastFile
  BY MachineTypes, EntryType DEF MachineGood, EntryGood
<1>12. ASSUME missteps' = {} PROVE MachineGood'
  <2>1. \A g \in ChainIn(files, disk) : g \in DOMAIN files' /\ files'[g] = files[g]
    BY <1>3, <1>5, ChainIsBelow DEF MachineGood
  <2>2. ReadsIn(files', disk) = seen /\ ChainIn(files', disk) = ChainIn(files, disk)
    BY <1>3, <1>5, <2>1, SameChain, MachineTypes DEF MachineGood
  <2>3. seen # None /\ seen' = seen
    BY MachineTypes DEF SnapshotCreateAs
  <2>4. ReadsIn(files', disk') = seen'
    <3>1. CASE disk' = disk
      BY <2>2, <2>3, <3>1
    <3>2. CASE disk' # disk
      BY <1>3, <1>4, <1>5, <2>2, <2>3, <3>2, ReadsIs, NoneIsNoNumber
    <3> QED BY <3>1, <3>2
  <2>5. disk' \notin ChainIn(files, disk) \ {disk}
    <3>1. ChainIn(files, disk) \subseteq 0..disk
      BY <1>3, ChainIsBelow DEF MachineGood
    <3>2. disk' = disk \/ disk' = f
      BY <1>5
    <3>3. f \notin 0..disk
      BY <1>3, <1>4
    <3> QED BY <3>1, <3>2, <3>3
  <2>6. Survives(files', disk', e)
    <3>1. CASE disk' # disk
      <4>1. e.overlay # None /\ e.overlay \in DOMAIN files'
        BY <1>4, <1>5, <1>6, <3>1, NoneIsNoNumber
      <4>2. GivenIn(files', e) = e.want
        BY <1>6, <2>2, <4>1 DEF GivenIn
      <4>3. disk' \notin FixedIn(files', e)
        <5>1. FixedIn(files', e) = ChainIn(files, disk)
          BY <1>6, <2>2, <4>1 DEF FixedIn
        <5> QED BY <2>5, <5>1, <3>1
      <4> QED BY <1>6, <2>2, <2>3, <4>1, <4>2, <4>3 DEF Survives
    <3>2. CASE disk' = disk
      <4>1. e.overlay = None /\ e.saved = files[disk].data /\ files' = files
        BY <1>5, <1>6, <3>2
      <4>2. /\ files[disk].base = None => files[disk].data = seen
            /\ files[disk].base # None =>
                  seen = IF files[disk].data = None THEN ReadsIn(files, files[disk].base)
                         ELSE files[disk].data
        BY <1>3, ReadableFile DEF MachineGood
      <4>3. GivenIn(files', e) = e.want
        BY <1>6, <2>3, <4>1, <4>2 DEF GivenIn
      <4>4. disk' \notin FixedIn(files', e)
        BY <1>6, <3>2, <4>1 DEF FixedIn
      <4> QED BY <1>6, <2>2, <2>3, <4>1, <4>3, <4>4 DEF Survives
    <3> QED BY <3>1, <3>2
  <2>7. EntryGood(files', disk', lastFile', e)
    <3>1. CASE disk' # disk
      <4>1. e.overlay = f /\ e.origin = disk /\ lastFile' = f /\ files'[f].base = disk
        BY <1>5, <1>6, <3>1
      <4>2. f # None /\ disk < f /\ f =< f /\ disk =< f
        BY <1>3, <1>4, NoneIsNoNumber
      <4> HIDE DEF f, o, v
      <4> QED BY <2>6, <4>1, <4>2 DEF EntryGood
    <3>2. CASE disk' = disk
      <4>1. files[disk].base = None => files[disk].data # None
        BY <1>3, <2>3, ReadableFile DEF MachineGood
      <4> QED BY <1>4, <1>5, <1>6, <2>6, <3>2, <4>1 DEF EntryGood
    <3> QED BY <3>1, <3>2
  <2>8. ASSUME NEW s \in DOMAIN snaps PROVE EntryGood(files', disk', lastFile', snaps[s])
    <3>1. EntryGood(files, disk, lastFile, snaps[s]) /\ snaps[s] \in Entries
      BY MachineTypes DEF MachineGood
    <3>2. ASSUME ~ snaps[s].touched PROVE Survives(files', disk', snaps[s])
      <4>1. Survives(files, disk, snaps[s])
        BY <3>1, <3>2 DEF EntryGood
      <4>2. ChainIn(files, snaps[s].origin) \subseteq DOMAIN files
        BY <1>11, ChainIsBelow DEF MachineGood
      <4>3. \A g \in ChainIn(files, snaps[s].origin) : g \in DOMAIN files' /\ files'[g] = files[g]
        BY <1>5, <4>2
      <4>4. snaps[s].overlay # None => snaps[s].overlay \in DOMAIN files'
        BY <1>5, <4>1 DEF Survives
      <4>5. disk' \notin FixedIn(files, snaps[s])
        <5>1. CASE disk' = disk
          BY <4>1, <5>1 DEF Survives
        <5>2. CASE disk' # disk
          <6>1. disk' \notin DOMAIN files
            BY <1>4, <1>5, <5>2, MachineTypes
          <6> QED BY <4>2, <6>1, FixedIsInChain
        <5> QED BY <5>1, <5>2
      <4>6. /\ snaps[s].origin \in DOMAIN files
            /\ snaps[s].overlay = None /\ snaps[s].saved = None =>
                  files[snaps[s].origin].base # None
        BY <1>11, <3>1, <4>1, ReadableFile DEF Survives, EntryGood, MachineGood
      <4> QED BY <1>5, <3>1, <4>1, <4>3, <4>4, <4>5, <4>6, SurvivesSame DEF MachineGood
    <3> QED BY <1>4, <1>5, <3>1, <3>2, EntryStays
  <2>9. \A s \in DOMAIN snaps' : EntryGood(files', disk', lastFile', snaps'[s])
    BY <1>7, <2>7, <2>8
  <2>10. Apart(snaps')
    <3>1. \A s \in DOMAIN snaps : e.overlay # None => snaps[s].overlay # e.overlay
      <4>1. e.overlay # None => e.overlay = f
        BY <1>6
      <4> QED BY <1>4, <1>11, <4>1
    <3>2. Apart(snaps)
      BY DEF MachineGood
    <3> QED BY <1>7, <3>1, <3>2 DEF Apart
  <2>11. LineageIn(files', snaps') /\ Acyclic(snaps')
    <3>1. LineageIn(files', snaps)
      BY <1>5, <1>11, LineageStays, LineageIsLineageIn DEF MachineGood
    <3>2. UnderIn(files, snaps, disk, current)
      BY <1>10, <1>12 DEF Under, UnderIn, Base, External
    <3>3. UnderIn(files', snaps, e.origin, e.parent)
      BY <1>3, <1>5, <1>6, <3>2 DEF UnderIn
    <3>4. \A s \in DOMAIN snaps : snaps[s].origin # e.overlay
      <4>1. e.overlay = None \/ e.overlay = f
        BY <1>6
      <4>2. None \notin Nat
        BY NoneIsNoNumber
      <4> QED BY <1>4, <1>11, <4>1, <4>2
    <3>5. e.origin # e.overlay
      <4>1. e.overlay = None \/ e.overlay = f
        BY <1>6
      <4>2. None \notin Nat
        BY NoneIsNoNumber
      <4> QED BY <1>3, <1>4, <1>6, <4>1, <4>2
    <3>6. e.parent \in {None} \cup DOMAIN snaps
      BY <1>6 DEF SnapshotsTypeOK
    <3>7. Acyclic(snaps) /\ None \notin DOMAIN snaps
          /\ \A s \in DOMAIN snaps : snaps[s].parent \in {None} \cup DOMAIN snaps
      BY MachineTypes DEF MachineGood
    <3> QED BY <1>2, <1>5, <3>1, <3>3, <3>4, <3>5, <3>6, <3>7, LineageGrows
  <2>12. Lineage'
    <3>1. (Lineage <=> LineageIn(files, snaps))'
      BY LineageIsLineageIn, PTL
    <3> QED BY <2>11, <3>1
  <2> QED BY <1>5, <2>4, <2>9, <2>10, <2>11, <2>12 DEF MachineGood, Reads
<1>13. ASSUME NEW q \in Requests, At(q, "edit") PROVE StaySpare(job[q].new)
  <2>1. Spare(job[q].new)
    BY <1>13 DEF JobsGood, EditGood
  <2>2. PICK m \in 0..lastFile : m = job[q].new
    BY <2>1 DEF Spare
  <2>3. m \in Nat /\ m # f /\ m # None /\ m # disk
    BY <1>4, <2>1, <2>2, NoneIsNoNumber DEF Spare
  <2>4. disk' # m
    BY <1>5, <2>3
  <2>5. \A s \in DOMAIN snaps' : m # snaps'[s].origin /\ m # snaps'[s].overlay
    <3>1. m # e.origin /\ m # e.overlay
      BY <1>6, <2>3
    <3> QED BY <1>7, <2>1, <2>2, <3>1 DEF Spare
  <2>6. \A g \in DOMAIN files' : g > lastFile => files'[g].base # m
    <3>1. \A g \in DOMAIN files : ~ (g > lastFile)
      BY MachineTypes
    <3> QED BY <1>5, <2>3, <3>1
  <2>7. m \in DOMAIN files' => files'[m].data = files[m].data
    BY <1>5, <2>3
  <2> QED BY <2>2, <2>4, <2>5, <2>6, <2>7 DEF StaySpare
<1>14. ASSUME missteps' = {}, NEW q \in Requests, At(q, "redefine")
       PROVE  power' = power /\ disk' = disk /\ ReadsIn(files', job[q].base) = ReadsIn(files', disk)
  <2>1. disk' = disk
    BY <1>10, <1>14
  <2>2. ReadsIn(files, job[q].base) = ReadsIn(files, disk)
    BY <1>14 DEF JobsGood, ChoiceGood, At, Reads
  <2> QED BY <1>5, <2>1, <2>2 DEF SnapshotCreateAs
<1> QED BY <1>1, <1>5, <1>8, <1>9, <1>12, <1>13, <1>14, TaskStep

-----------------------------------------------------------------------------
(* Files that go, and snapshots that do not need them.                     *)

(* What is known of a listed snapshot.                                     *)
LEMMA KnownEntry ==
    ASSUME SnapshotsTypeOK, MachineGood, NEW s \in DOMAIN snaps
    PROVE  /\ snaps[s] \in Entries /\ EntryGood(files, disk, lastFile, snaps[s])
           /\ snaps[s].origin \in Nat /\ snaps[s].origin =< lastFile
           /\ snaps[s].origin \in 0..lastFile
           /\ snaps[s].overlay # None => snaps[s].overlay \in Nat /\ snaps[s].overlay =< lastFile
           /\ ChainIn(files, snaps[s].origin) \subseteq DOMAIN files
           /\ ~ snaps[s].touched =>
                 /\ Survives(files, disk, snaps[s])
                 /\ snaps[s].origin \in DOMAIN files
                 /\ snaps[s].overlay = None /\ snaps[s].saved = None =>
                       files[snaps[s].origin].base # None
<1>1. snaps[s] \in Entries /\ EntryGood(files, disk, lastFile, snaps[s])
  BY MachineTypes DEF MachineGood
<1>2. snaps[s].origin \in Nat /\ snaps[s].origin =< lastFile
  BY <1>1, EntryType DEF EntryGood
<1>3. snaps[s].overlay # None => snaps[s].overlay \in Nat /\ snaps[s].overlay =< lastFile
  BY <1>1, EntryType DEF EntryGood
<1>4. ChainIn(files, snaps[s].origin) \subseteq DOMAIN files
  BY <1>2, ChainIsBelow DEF MachineGood
<1>5. snaps[s].origin \in 0..lastFile
  BY <1>2, MachineTypes
<1>6. ASSUME ~ snaps[s].touched
      PROVE  /\ Survives(files, disk, snaps[s])
             /\ snaps[s].origin \in DOMAIN files
             /\ snaps[s].overlay = None /\ snaps[s].saved = None =>
                   files[snaps[s].origin].base # None
  <2>1. Survives(files, disk, snaps[s])
    BY <1>1, <1>6 DEF EntryGood
  <2>2. snaps[s].origin \in DOMAIN files
    BY <1>2, <2>1, ReadableFile DEF Survives, MachineGood
  <2> QED BY <1>1, <2>1, <2>2 DEF EntryGood
<1> QED BY <1>1, <1>2, <1>3, <1>4, <1>5, <1>6

(* A listed snapshot that is kept still gives what it should when its      *)
(* chain stays.                                                            *)
LEMMA SnapshotSurvives ==
    ASSUME SnapshotsTypeOK, MachineGood, Forest(files'),
           NEW s \in DOMAIN snaps, ~ snaps[s].touched,
           \A g \in ChainIn(files, snaps[s].origin) : g \in DOMAIN files' /\ files'[g] = files[g],
           snaps[s].overlay # None => snaps[s].overlay \in DOMAIN files',
           disk' \notin FixedIn(files, snaps[s])
    PROVE  Survives(files', disk', snaps[s])
<1>1. /\ snaps[s] \in Entries /\ Survives(files, disk, snaps[s])
      /\ snaps[s].overlay = None /\ snaps[s].saved = None =>
             files[snaps[s].origin].base # None
  BY KnownEntry
<1>2. Forest(files)
  BY DEF MachineGood
<1> QED BY <1>1, <1>2, SurvivesSame

(* A task that has committed the file of the disk to the one below it.     *)
LEMMA DiskOfCommitted ==
    ASSUME SnapshotsTypeOK, MachineGood, JobsGood, NEW q \in Requests, At(q, "redefine")
    PROVE  /\ ~ Running /\ disk = job[q].disk /\ disk \in DOMAIN files
           /\ job[q].base \in Nat /\ files[disk].base = job[q].base
           /\ ReadsIn(files, job[q].base) = ReadsIn(files, disk)
<1>1. /\ ~ Running /\ disk = job[q].disk /\ job[q].base # None
      /\ ReadsIn(files, job[q].base) = ReadsIn(files, disk)
      /\ job[q].disk \in DOMAIN files => files[job[q].disk].base = job[q].base
  BY DEF At, JobsGood, ChoiceGood, Reads, Folding
<1>2. disk \in Nat /\ ReadsIn(files, disk) # None /\ Forest(files)
  BY MachineTypes DEF MachineGood, Reads
<1>3. disk \in DOMAIN files /\ files[disk].base = job[q].base
  BY <1>1, <1>2, ReadableFile
<1>4. job[q].base \in Nat
  BY <1>1, <1>2, <1>3, ForestFile
<1> QED BY <1>1, <1>3, <1>4

(* Files go that neither the disk nor a kept snapshot needs.               *)
LEMMA RemovedFiles ==
    ASSUME SnapshotsTypeOK, MachineGood, JobsGood, NEW gone,
           files' = [f \in DOMAIN files \ gone |-> files[f]],
           UNCHANGED <<lastFile, disk, snaps, seen>>,
           gone \cap ChainIn(files, disk) = {},
           \A s \in DOMAIN snaps : ~ snaps[s].touched =>
              /\ gone \cap ChainIn(files, snaps[s].origin) = {}
              /\ snaps[s].overlay # None => snaps[s].overlay \notin gone
    PROVE  /\ MachineGood' /\ lastFile =< lastFile' /\ BasesStay(files, lastFile, files')
           /\ \A q \in Requests : At(q, "edit") => StaySpare(job[q].new)
           /\ \A q \in Requests : At(q, "redefine") =>
                 disk' = disk /\ ReadsIn(files', job[q].base) = ReadsIn(files', disk)
<1>1. /\ DOMAIN files' = DOMAIN files \ gone
      /\ \A f \in DOMAIN files' : files'[f] = files[f]
  OBVIOUS
<1>2. Forest(files) /\ Reads(disk) = seen /\ ReadsIn(files, disk) = seen
  BY DEF MachineGood, Reads
<1>3. files' \in [DOMAIN files' -> Images]
  <2>1. \A f \in DOMAIN files : files[f] \in Images
    BY MachineTypes
  <2> QED BY <2>1
<1>4. Forest(files') /\ BasesStay(files, lastFile, files')
  BY <1>1, <1>2, <1>3, FilesChange
<1>5. ReadsIn(files', disk) = ReadsIn(files, disk) /\ ChainIn(files', disk) = ChainIn(files, disk)
  <2>1. ChainIn(files, disk) \subseteq DOMAIN files
    BY <1>2, ChainIsBelow, MachineTypes
  <2>2. \A g \in ChainIn(files, disk) : g \in DOMAIN files' /\ files'[g] = files[g]
    BY <1>1, <2>1
  <2>3. disk \in Nat /\ ReadsIn(files, disk) # None
    BY <1>2, MachineTypes
  <2> QED BY <1>2, <1>4, <2>2, <2>3, SameChain
<1>6. ASSUME NEW s \in DOMAIN snaps, ~ snaps[s].touched
      PROVE  Survives(files', disk', snaps[s])
  <2>1. ChainIn(files, snaps[s].origin) \subseteq DOMAIN files /\ Survives(files, disk, snaps[s])
    BY <1>6, KnownEntry
  <2>2. \A g \in ChainIn(files, snaps[s].origin) : g \in DOMAIN files' /\ files'[g] = files[g]
    BY <1>1, <1>6, <2>1
  <2>3. snaps[s].overlay # None => snaps[s].overlay \in DOMAIN files'
    BY <1>1, <1>6, <2>1 DEF Survives
  <2>4. disk' \notin FixedIn(files, snaps[s])
    BY <2>1 DEF Survives
  <2> QED BY <1>4, <1>6, <2>2, <2>3, <2>4, SnapshotSurvives
<1>7. MachineGood'
  <2>1. lastFile' \in Nat /\ lastFile =< lastFile'
    BY MachineTypes
  <2> QED BY <1>2, <1>4, <1>5, <1>6, <2>1, MachineStays
<1>8. ASSUME NEW q \in Requests, At(q, "edit") PROVE StaySpare(job[q].new)
  <2>1. Spare(job[q].new)
    BY <1>8 DEF JobsGood, EditGood
  <2>2. \A f \in DOMAIN files' : ~ (f > lastFile)
    BY <1>1, MachineTypes
  <2> QED BY <1>1, <2>1, <2>2 DEF Spare, StaySpare
<1>9. ASSUME NEW q \in Requests, At(q, "redefine")
      PROVE  ReadsIn(files', job[q].base) = ReadsIn(files', disk)
  <2>1. PICK b \in Nat : b = job[q].base /\ files[disk].base = b
    BY <1>9, DiskOfCommitted
  <2>2. ReadsIn(files, b) = ReadsIn(files, disk) /\ disk \in DOMAIN files
    BY <1>9, <2>1, DiskOfCommitted
  <2>3. disk \in Nat /\ ReadsIn(files, disk) # None
    BY <1>2, MachineTypes
  <2>4. b # None
    BY NoneIsNoNumber
  <2>5. ChainIn(files, b) \subseteq ChainIn(files, disk) /\ ReadsIn(files, b) # None
    BY <1>2, <2>1, <2>2, <2>3, <2>4, ReadableFile
  <2>6. ChainIn(files, disk) \subseteq DOMAIN files
    BY <1>2, <2>3, ChainIsBelow
  <2>7. \A g \in ChainIn(files, b) : g \in DOMAIN files' /\ files'[g] = files[g]
    BY <1>1, <2>5, <2>6
  <2>8. ReadsIn(files', b) = ReadsIn(files, b)
    BY <1>2, <1>4, <2>5, <2>7, SameChain
  <2> QED BY <1>5, <2>1, <2>2, <2>8
<1>10. lastFile =< lastFile'
  BY MachineTypes
<1> QED BY <1>4, <1>7, <1>8, <1>9, <1>10

(* A spare file is in no chain but its own.                                *)
LEMMA SpareInNoChain ==
    ASSUME SnapshotsTypeOK, Forest(files), NEW n, Spare(n), NEW f \in Nat, f # n
    PROVE  n \notin ChainIn(files, f)
<1>1. SUFFICES ASSUME n \in ChainIn(files, f) PROVE FALSE
  OBVIOUS
<1>2. PICK y \in ChainIn(files, f) : files[y].base = n
  BY <1>1, ChainLinks
<1>3. y \in DOMAIN files
  BY <1>2, ChainIsBelow
<1> QED BY <1>2, <1>3 DEF Spare

-----------------------------------------------------------------------------
(* Going back to a snapshot.                                               *)

LEMMA RevertBegins ==
    ASSUME SnapshotsTypeOK, MachineGood, JobsGood, NEW r \in Requests,
           RevertSnapshot(r), UNCHANGED <<written, states, ask>>
    PROVE  SnapshotsInv'
<1>1. job[r] # None /\ job[r] \in Jobs
  BY JobAt DEF RevertSnapshot
<1>2. UNCHANGED <<files, lastFile, disk, snaps, current, seen, faults, missteps>>
  BY DEF RevertSnapshot
<1>3. CASE ~ Known(r)
  BY <1>1, <1>2, <1>3, Ends DEF RevertSnapshot, machine
<1>4. CASE Known(r) /\ snaps[job[r].name].overlay = None
  <2>1. GoTo(r, "switch") /\ UNCHANGED machine
    BY <1>2, <1>4 DEF RevertSnapshot, machine
  <2> DEFINE j == [job[r] EXCEPT !.pc = "switch"]
  <2>2. j \in Jobs /\ j.pc = "switch"
    <3>1. "switch" \in Places
      BY DEF Places
    <3> QED BY <1>1, <3>1, GoToType
  <2>3. To(r, j)
    BY <2>1 DEF GoTo
  <2> HIDE DEF j
  <2>4. Quiet(j)
    BY <2>2 DEF Quiet
  <2> QED BY <1>1, <1>2, <2>1, <2>2, <2>3, <2>4, QuietStep
<1>5. CASE Known(r) /\ snaps[job[r].name].overlay # None
  <2> DEFINE s == snaps[job[r].name]
             pc == IF Reads(s.origin) # None /\ s.overlay \in DOMAIN files THEN "overlay" ELSE "end"
             j == [job[r] EXCEPT !.pc = pc, !.snap = s, !.disk = disk, !.on = FALSE, !.snaps = snaps]
  <2>1. power' = "off" /\ To(r, j)
    BY <1>5 DEF RevertSnapshot
  <2>2. s \in Entries /\ s.origin =< lastFile /\ s.overlay # None /\ snaps \in Lists
    BY <1>5, KnownEntry DEF Known, SnapshotsTypeOK
  <2>3. pc \in {"overlay", "end"}
    OBVIOUS
  <2>4. /\ j \in Jobs /\ j.pc = pc /\ j.name = job[r].name /\ j.snap = s /\ j.on = FALSE
        /\ j.snaps = snaps
    <3> HIDE DEF s, pc
    <3> QED BY <1>1, <2>2, <2>3, MachineTypes DEF Jobs
  <2> HIDE DEF j, pc
  <2>5. MachineTyped'
    BY <1>2, <2>1 DEF SnapshotsTypeOK, MachineTyped
  <2>6. faults' \in 0..MaxFaults
    BY <1>2, FaultType
  <2>7. MachineGood'
    BY <1>2, MachineSame
  <2>8. \A q \in Requests : At(q, "redefine") => power' = power
    BY <2>1 DEF At, JobsGood, ChoiceGood, Running, SnapshotsTypeOK
  <2>9. job'[r] = j /\ \A q \in Requests \ {r} : job'[q] = job[q]
    BY <1>1, <2>1, <2>4, <2>5, <2>6, TypesStep
  <2>10. EditGood(r)' /\ ChoiceGood(r)'
    <3>1. EditGood(r)'
      BY <1>2, <1>5, <2>2, <2>3, <2>4, <2>9 DEF EditGood, At, Known
    <3>2. ChoiceGood(r)'
      BY <2>3, <2>4, <2>9 DEF ChoiceGood, Folding, Deleting
    <3> QED BY <3>1, <3>2
  <2>11. \A q \in Requests \ {r} : EditsApart(q, r)' /\ EditsApart(r, q)'
    <3>1. \A q \in Requests \ {r} : At(q, "edit")' => job'[q].new # s.origin
      BY <1>5, <2>9 DEF At, JobsGood, EditGood, Spare, Known
    <3> QED BY <2>3, <2>4, <2>9, <3>1 DEF EditsApart, At
  <2> QED BY <1>1, <1>2, <2>1, <2>4, <2>5, <2>6, <2>7, <2>8, <2>10, <2>11, FilesSame, TaskStep
<1> QED BY <1>3, <1>4, <1>5

LEMMA RevertPointed ==
    ASSUME SnapshotsTypeOK, MachineGood, JobsGood, NEW r \in Requests,
           SnapshotCurrent(r), UNCHANGED <<written, states, ask>>
    PROVE  SnapshotsInv'
<1>1. job[r] # None /\ job[r] \in Jobs
  BY JobAt DEF SnapshotCurrent
<1>2. UNCHANGED <<files, lastFile, disk, power, snaps, seen, faults, missteps>>
  BY DEF SnapshotCurrent
<1>3. PICK j \in Jobs : To(r, j) /\ Quiet(j)
  <2>1. Fresh("start", None) \in Jobs /\ Fresh("start", None).pc = "start"
        /\ Fresh("end", None) \in Jobs /\ Fresh("end", None).pc = "end"
    BY FreshType DEF Places
  <2>2. Quiet(Fresh("start", None)) /\ Quiet(Fresh("end", None))
    BY <2>1 DEF Quiet
  <2>3. To(r, Fresh("start", None)) \/ To(r, Fresh("end", None))
    BY DEF SnapshotCurrent, End
  <2> QED BY <2>1, <2>2, <2>3
<1>4. MachineTyped'
  <2>1. current' \in {None} \cup DOMAIN snaps
    BY DEF SnapshotCurrent, SnapshotsTypeOK, Known
  <2> QED BY <1>2, <2>1 DEF SnapshotsTypeOK, MachineTyped
<1>5. faults' \in 0..MaxFaults /\ MachineGood'
  BY <1>2, FaultType, MachineSame
<1> QED BY <1>1, <1>2, <1>3, <1>4, <1>5, FilesSame, TaskStep

LEMMA RevertStarted ==
    ASSUME SnapshotsTypeOK, MachineGood, JobsGood, NEW r \in Requests,
           StartReverted(r), UNCHANGED <<written, states, ask>>
    PROVE  SnapshotsInv'
<1>1. job[r] # None /\ job[r] \in Jobs
  BY JobAt DEF StartReverted
<1>2. UNCHANGED <<files, lastFile, disk, snaps, current, seen, faults>>
  BY DEF StartReverted
<1>3. /\ Fresh("end", None) \in Jobs /\ Quiet(Fresh("end", None)) /\ To(r, Fresh("end", None))
  <2>1. Fresh("end", None) \in Jobs /\ Fresh("end", None).pc = "end"
    BY FreshType DEF Places
  <2> QED BY <2>1 DEF StartReverted, End, Quiet
<1>4. MachineTyped'
  <2>1. power' \in {"off", "running"}
    BY DEF StartReverted, SnapshotsTypeOK
  <2> QED BY <1>2, <2>1 DEF SnapshotsTypeOK, MachineTyped
<1>5. faults' \in 0..MaxFaults /\ MachineGood'
  BY <1>2, FaultType, MachineSame
<1>6. missteps' = {} => \A q \in Requests : ~ At(q, "redefine")
  BY DEF StartReverted, Window, Redefining
<1> QED BY <1>1, <1>2, <1>3, <1>4, <1>5, <1>6, FilesSame, TaskStep

(* SnapshotRevert: the file of the snapshot gets what it saved, on which   *)
(* nothing lies.                                                           *)
LEMMA Reverted ==
    ASSUME SnapshotsTypeOK, MachineGood, JobsGood, NEW r \in Requests,
           SnapshotRevert(r), UNCHANGED <<written, states, ask>>
    PROVE  SnapshotsInv'
<1> DEFINE n == job[r].name
           s == snaps[n]
           x == s.origin
<1>1. job[r] # None /\ job[r] \in Jobs
  BY JobAt DEF SnapshotRevert
<1>2. CASE ~ (Known(r) /\ s.overlay = None /\ Reads(x) # None /\ (Running => disk = x))
  <2>1. UNCHANGED machine /\ UNCHANGED faults /\ End(r)
    BY <1>2 DEF SnapshotRevert, machine
  <2> QED BY <1>1, <2>1, Ends
<1>3. CASE Known(r) /\ s.overlay = None /\ Reads(x) # None /\ (Running => disk = x)
  <2>1. /\ files' = [files EXCEPT ![x].data = s.saved]
        /\ disk' = x /\ power' = s.state /\ seen' = s.want /\ current' = n
        /\ UNCHANGED <<lastFile, snaps, faults>> /\ To(r, Fresh("end", None))
        /\ Window(Redefining(Requests)
                  \cup (IF \E f \in DOMAIN files : files[f].base = x THEN {"shared"} ELSE {})
                  \cup (IF s.touched /\ Given(n) # s.want THEN {"halfway"} ELSE {}))
    BY <1>3 DEF SnapshotRevert, End
  <2>2. n \in DOMAIN snaps /\ s.overlay = None /\ ReadsIn(files, x) # None
    BY <1>3 DEF Known, Reads
  <2>3. /\ s \in Entries /\ x \in Nat /\ x =< lastFile /\ x \in 0..lastFile
        /\ EntryGood(files, disk, lastFile, s) /\ Forest(files)
        /\ ~ s.touched => Survives(files, disk, s)
    BY <2>2, KnownEntry DEF MachineGood
  <2>4. /\ s.saved \in Contents \cup {None} /\ s.state \in {"off", "running"} /\ s.want \in Contents
        /\ s.want # None /\ s.want \in Nat
    BY <2>3, EntryType, SnapshotsAssumption DEF Contents
  <2>5. x \in DOMAIN files
    BY <2>2, <2>3, ReadableFile
  <2> HIDE DEF s, n
  <2>6. /\ DOMAIN files' = DOMAIN files
        /\ files'[x].data = s.saved /\ files'[x].base = files[x].base
        /\ \A f \in DOMAIN files \ {x} : files'[f] = files[f]
        /\ \A f \in DOMAIN files : files'[f].base = files[f].base
        /\ files' \in [DOMAIN files' -> Images]
    <3>1. \A f \in DOMAIN files : files[f] \in Images
      BY MachineTypes
    <3>2. [files[x] EXCEPT !.data = s.saved] \in Images
          /\ [files[x] EXCEPT !.data = s.saved].data = s.saved
          /\ [files[x] EXCEPT !.data = s.saved].base = files[x].base
      BY <2>4, <2>5, <3>1 DEF Images
    <3>3. files' = [files EXCEPT ![x] = [files[x] EXCEPT !.data = s.saved]]
      BY <2>1
    <3>4. files \in [DOMAIN files -> Images]
      BY MachineTypes
    <3> QED BY <2>5, <3>1, <3>2, <3>3, <3>4
  <2>7. Forest(files') /\ BasesStay(files, lastFile, files')
    BY <2>3, <2>6, FilesChange
  <2>8. MachineTyped'
    <3>1. current' \in {None} \cup DOMAIN snaps
      BY <2>1, <2>2 DEF n
    <3> QED BY <2>1, <2>3, <2>4, <2>6, <3>1 DEF SnapshotsTypeOK, MachineTyped
  <2>9. /\ Fresh("end", None) \in Jobs /\ Quiet(Fresh("end", None)) /\ faults' \in 0..MaxFaults
    <3>1. Fresh("end", None) \in Jobs /\ Fresh("end", None).pc = "end"
      BY FreshType DEF Places
    <3> QED BY <2>1, <3>1, FaultType DEF Quiet
  <2>10. ASSUME missteps' = {}
         PROVE  /\ \A q \in Requests : ~ At(q, "redefine")
                /\ \A f \in DOMAIN files : files[f].base # x
                /\ s.touched => Given(n) = s.want
    BY <2>1, <2>10 DEF Window, Redefining
  <2>11. ASSUME missteps' = {} PROVE GivenIn(files, s) = s.want
    <3>1. s.touched => Given(n) = s.want
      BY <2>10, <2>11
    <3>2. Given(n) = GivenIn(files, s)
      BY <2>2, <2>5 DEF Given, GivenIn, Reads, Base, s, n
    <3> QED BY <2>3, <3>1, <3>2 DEF Survives
  <2>12. ASSUME missteps' = {}, NEW f \in Nat, f # x PROVE x \notin ChainIn(files, f)
    <3>1. SUFFICES ASSUME x \in ChainIn(files, f) PROVE FALSE
      OBVIOUS
    <3>2. PICK y \in ChainIn(files, f) : files[y].base = x
      BY <2>3, <2>12, <3>1, ChainLinks
    <3>3. y \in DOMAIN files
      BY <2>3, <3>2, ChainIsBelow
    <3> QED BY <2>10, <2>12, <3>2, <3>3
  <2>13. ASSUME missteps' = {} PROVE ReadsIn(files', x) = s.want
    <3>1. CASE files[x].base = None
      <4>1. s.saved # None
        BY <2>2, <2>3, <2>5, <3>1 DEF EntryGood
      <4>2. s.want = s.saved
        BY <2>2, <2>11, <2>13, <4>1 DEF GivenIn
      <4> QED BY <2>3, <2>5, <2>6, <2>7, <3>1, <4>2, ReadsIs
    <3>2. CASE files[x].base # None
      <4>1. PICK b \in Nat : b = files[x].base /\ b # x
        <5>1. files[x].base \in 0..x - 1
          BY <2>3, <2>5, <3>2, ForestFile
        <5> QED BY <5>1, <2>3
      <4>2. ReadsIn(files, b) # None /\ ChainIn(files, b) \subseteq DOMAIN files
        BY <2>2, <2>3, <3>2, <4>1, ReadableFile, ChainIsBelow
      <4>3. \A g \in ChainIn(files, b) : g \in DOMAIN files' /\ files'[g] = files[g]
        BY <2>6, <2>12, <2>13, <4>1, <4>2
      <4>4. ReadsIn(files', b) = ReadsIn(files, b)
        BY <2>3, <2>7, <4>1, <4>2, <4>3, SameChain
      <4>5. ReadsIn(files', x) = IF s.saved = None THEN ReadsIn(files, b) ELSE s.saved
        BY <2>3, <2>5, <2>6, <2>7, <3>2, <4>1, <4>2, <4>4, ReadsIs
      <4>6. s.want = IF s.saved = None THEN ReadsIn(files, b) ELSE s.saved
        BY <2>2, <2>11, <2>13, <4>1 DEF GivenIn
      <4> QED BY <4>5, <4>6
    <3> QED BY <3>1, <3>2
  <2>14. ASSUME missteps' = {}, NEW t \in DOMAIN snaps, ~ snaps[t].touched
         PROVE  Survives(files', disk', snaps[t])
    <3> DEFINE e == snaps[t]
    <3>1. /\ e \in Entries /\ Survives(files, disk, e) /\ e.origin \in Nat /\ e.origin \in DOMAIN files
          /\ EntryGood(files, disk, lastFile, e)
          /\ ChainIn(files, e.origin) \subseteq DOMAIN files
          /\ e.overlay = None /\ e.saved = None => files[e.origin].base # None
      BY <2>14, KnownEntry
    <3> HIDE DEF e
    <3>2. e.overlay # None => e.origin # x
      BY <2>10, <2>14, <3>1 DEF Survives, EntryGood
    <3>3. x \notin FixedIn(files, e)
      BY <2>12, <2>14, <3>1, <3>2 DEF FixedIn
    <3>4. \A g \in FixedIn(files, e) : g \in DOMAIN files' /\ files'[g] = files[g]
      BY <2>6, <3>1, <3>3, FixedIsInChain
    <3>5. ReadsIn(files', e.origin) # None
      <4>1. CASE e.origin = x
        BY <2>4, <2>13, <2>14, <4>1
      <4>2. CASE e.origin # x
        <5>1. \A g \in ChainIn(files, e.origin) : g \in DOMAIN files' /\ files'[g] = files[g]
          BY <2>6, <2>12, <2>14, <3>1, <4>2
        <5> QED BY <2>3, <2>7, <3>1, <5>1, SameChain DEF Survives
      <4> QED BY <4>1, <4>2
    <3>6. e.overlay # None => e.overlay \in DOMAIN files'
      BY <2>6, <3>1 DEF Survives
    <3>7. e.origin \in DOMAIN files' /\ files'[e.origin].base = files[e.origin].base
      BY <2>6, <3>1
    <3>8. Survives(files', x, e)
      BY <2>3, <2>7, <3>1, <3>3, <3>4, <3>5, <3>6, <3>7, SurvivesStays
    <3> QED BY <2>1, <3>8 DEF e
  <2>15. lastFile' \in Nat /\ lastFile =< lastFile'
    BY <2>1, MachineTypes
  <2>16. ASSUME missteps' = {} PROVE MachineGood'
    BY <2>1, <2>7, <2>13, <2>14, <2>15, <2>16, MachineStays
  <2>17. \A q \in Requests : At(q, "edit") => StaySpare(job[q].new)
    <3>1. \A q \in Requests : At(q, "edit") => job[q].new # x
      BY <2>2 DEF JobsGood, EditGood, Spare, s
    <3>2. \A f \in DOMAIN files' : ~ (f > lastFile)
      BY <2>6, MachineTypes
    <3> QED BY <2>1, <2>6, <3>1, <3>2 DEF StaySpare, JobsGood, EditGood, Spare
  <2> QED BY <1>1, <2>1, <2>7, <2>8, <2>9, <2>10, <2>15, <2>16, <2>17, TaskStep
<1> QED BY <1>2, <1>3

(* createExternalSnapshotRestoreOverlay: a spare file on that of the       *)
(* snapshot.                                                               *)
LEMMA RevertOverlaid ==
    ASSUME SnapshotsTypeOK, MachineGood, JobsGood, NEW r \in Requests,
           createExternalSnapshotRestoreOverlay(r), UNCHANGED <<written, states, ask>>
    PROVE  SnapshotsInv'
<1> DEFINE o == job[r].snap.origin
<1>0. PICK f \in Nat : f = lastFile + 1
  BY MachineTypes
<1>1. job[r] # None /\ job[r] \in Jobs /\ At(r, "overlay")
  BY JobAt DEF createExternalSnapshotRestoreOverlay
<1>2. /\ ~ job[r].on /\ job[r].name \in DOMAIN job[r].snaps
      /\ job[r].snap = job[r].snaps[job[r].name]
      /\ job[r].snap.overlay # None /\ o =< lastFile
  BY <1>1 DEF JobsGood, EditGood
<1>3. UNCHANGED <<disk, power, snaps, current, seen, faults, missteps>>
  BY DEF createExternalSnapshotRestoreOverlay
<1>4. CASE o \notin DOMAIN files
  <2>1. UNCHANGED machine /\ End(r)
    BY <1>3, <1>4 DEF createExternalSnapshotRestoreOverlay, machine
  <2> QED BY <1>1, <1>3, <2>1, Ends
<1>5. CASE o \in DOMAIN files
  <2> DEFINE image == [base |-> o, data |-> None, words |-> files[o].words \cup {job[r].name},
                       managed |-> TRUE]
             j == [job[r] EXCEPT !.pc = "edit", !.new = f]
  <2>1. lastFile' = f /\ files' = With(files, f, image) /\ To(r, j)
    BY <1>0, <1>5 DEF createExternalSnapshotRestoreOverlay
  <2>2. image \in Images /\ image.base = o /\ image.data = None
    <3>1. files[o] \in Images /\ o \in Nat
      BY <1>5, MachineTypes
    <3>2. job[r].name \in SnapshotNames
      BY <1>1, <1>2, JobType DEF Lists
    <3> QED BY <3>1, <3>2 DEF Images
  <2> HIDE DEF image
  <2>3. /\ Forest(files') /\ BasesStay(files, lastFile, files')
        /\ DOMAIN files' = DOMAIN files \cup {f} /\ DOMAIN files' \subseteq 0..f
        /\ files' \in [DOMAIN files' -> Images] /\ files'[f] = image
        /\ \A g \in DOMAIN files : files'[g] = files[g]
    BY <1>0, <1>2, <2>1, <2>2, NewFile DEF MachineGood
  <2>4. lastFile \in Nat /\ f \in Nat /\ lastFile =< f /\ lastFile # f /\ disk \in 0..f /\ disk # f
    BY <1>0, MachineTypes
  <2>5. /\ j \in Jobs /\ j.pc = "edit" /\ j.new = f /\ j.on = job[r].on /\ j.name = job[r].name
        /\ j.snaps = job[r].snaps /\ j.snap = job[r].snap
    BY <1>1, <2>4 DEF Jobs
  <2> HIDE DEF j
  <2>6. MachineTyped'
    BY <1>3, <2>1, <2>3, <2>4 DEF SnapshotsTypeOK, MachineTyped
  <2>7. faults' \in 0..MaxFaults
    BY <1>3, FaultType
  <2>8. ReadsIn(files, disk) = seen /\ seen # None /\ disk \in Nat /\ Forest(files)
    BY MachineTypes DEF MachineGood, Reads
  <2>9. ReadsIn(files', disk) = seen
    <3>1. ChainIn(files, disk) \subseteq DOMAIN files
      BY <2>8, ChainIsBelow
    <3> QED BY <2>3, <2>8, <3>1, SameChain
  <2>10. ASSUME NEW s \in DOMAIN snaps, ~ snaps[s].touched
         PROVE  Survives(files', disk', snaps[s])
    <3>1. ChainIn(files, snaps[s].origin) \subseteq DOMAIN files /\ Survives(files, disk, snaps[s])
      BY <2>10, KnownEntry
    <3>2. \A g \in ChainIn(files, snaps[s].origin) : g \in DOMAIN files' /\ files'[g] = files[g]
      BY <2>3, <3>1
    <3>3. snaps[s].overlay # None => snaps[s].overlay \in DOMAIN files'
      BY <2>3, <3>1 DEF Survives
    <3>4. disk' \notin FixedIn(files, snaps[s])
      BY <1>3, <3>1 DEF Survives
    <3> QED BY <2>3, <2>10, <3>2, <3>3, <3>4, SnapshotSurvives
  <2>11. MachineGood'
    BY <1>3, <2>1, <2>3, <2>4, <2>9, <2>10, MachineStays
  <2>12. job'[r] = j /\ \A q \in Requests \ {r} : job'[q] = job[q]
    BY <1>1, <2>1, <2>5, <2>6, <2>7, TypesStep
  <2>13. \A s \in DOMAIN snaps : f # snaps[s].origin /\ f # snaps[s].overlay
    <3> SUFFICES ASSUME NEW s \in DOMAIN snaps PROVE f # snaps[s].origin /\ f # snaps[s].overlay
      OBVIOUS
    <3>1. snaps[s].origin =< lastFile /\ (snaps[s].overlay # None => snaps[s].overlay =< lastFile)
      BY KnownEntry
    <3> QED BY <2>4, <3>1, NoneIsNoNumber
  <2>14. \A g \in DOMAIN files' : files'[g].base # f
    <3> SUFFICES ASSUME NEW g \in DOMAIN files' PROVE files'[g].base # f
      OBVIOUS
    <3>1. CASE g = f
      BY <1>2, <2>2, <2>3, <2>4, <3>1
    <3>2. CASE g \in DOMAIN files
      <4>1. files'[g] = files[g] /\ g =< lastFile /\ g \in Nat
        BY <2>3, <3>2, MachineTypes
      <4>2. files[g].base # None => files[g].base \in 0..g - 1
        BY <2>8, <3>2, ForestFile
      <4> QED BY <2>4, <4>1, <4>2, NoneIsNoNumber
    <3> QED BY <2>3, <3>1, <3>2
  <2>15. EditGood(r)' /\ ChoiceGood(r)'
    <3>1. Spare(f)'
      BY <1>3, <2>1, <2>4, <2>13, <2>14 DEF Spare
    <3>2. EditGood(r)'
      <4>1. o =< lastFile'
        <5>1. o \in Nat
          BY <1>5, MachineTypes
        <5> QED BY <1>2, <2>1, <2>4, <5>1
      <4> QED BY <1>2, <2>2, <2>3, <2>5, <2>12, <3>1, <4>1 DEF EditGood, At, Spare
    <3>3. ChoiceGood(r)'
      BY <2>5, <2>12 DEF ChoiceGood, Folding, Deleting
    <3> QED BY <3>2, <3>3
  <2>16. ASSUME NEW q \in Requests \ {r} PROVE EditsApart(q, r)' /\ EditsApart(r, q)'
    <3>1. At(q, "edit") => job[q].new # f /\ job[q].new \in 0..lastFile
      BY <2>4 DEF JobsGood, EditGood, Spare
    <3>2. At(q, "overlay") => job[q].snap.origin # f
      <4>1. At(q, "overlay") => job[q].snap.origin =< lastFile
        BY DEF JobsGood, EditGood
      <4> QED BY <2>4, <4>1
    <3> QED BY <2>5, <2>12, <3>1, <3>2 DEF EditsApart, At
  <2>17. ASSUME NEW q \in Requests \ {r}, At(q, "edit") PROVE StaySpare(job[q].new)
    <3>1. Spare(job[q].new)
      BY <2>17 DEF JobsGood, EditGood
    <3>2. o # job[q].new
      BY <1>1, <2>17 DEF JobsGood, EditsApart
    <3>3. \A g \in DOMAIN files' : g > lastFile => files'[g].base # job[q].new
      <4>1. \A g \in DOMAIN files : ~ (g > lastFile)
        BY MachineTypes
      <4> QED BY <2>2, <2>3, <3>2, <4>1
    <3>4. job[q].new \in DOMAIN files' => files'[job[q].new].data = files[job[q].new].data
      BY <2>3, <2>4, <3>1 DEF Spare
    <3> QED BY <1>3, <3>1, <3>3, <3>4 DEF StaySpare, Spare
  <2>18. ASSUME NEW q \in Requests, At(q, "redefine")
         PROVE  ReadsIn(files', job[q].base) = ReadsIn(files', disk)
    <3>1. /\ ReadsIn(files, job[q].base) = ReadsIn(files, disk) /\ job[q].base # None
          /\ disk = job[q].disk
          /\ job[q].disk \in DOMAIN files => files[job[q].disk].base = job[q].base
      BY <2>18 DEF At, JobsGood, ChoiceGood, Reads, Folding
    <3>2. disk \in DOMAIN files /\ files[disk].base = job[q].base
      BY <2>8, <3>1, ReadableFile
    <3>3. PICK b \in Nat : b = job[q].base
      BY <2>8, <3>1, <3>2, ForestFile
    <3>4. ChainIn(files, b) \subseteq DOMAIN files
      BY <2>8, <3>3, ChainIsBelow
    <3> QED BY <2>3, <2>8, <2>9, <3>1, <3>3, <3>4, SameChain
  <2> QED BY <1>1, <1>3, <2>1, <2>3, <2>4, <2>5, <2>6, <2>7, <2>11, <2>15, <2>16, <2>17, <2>18, TaskStep
<1> QED BY <1>4, <1>5

(* What was read is still so, when the step is not an overtaken one.       *)
LEMMA NotStale ==
    ASSUME NEW r, ~ Stale(r)
    PROVE  /\ disk = job[r].disk /\ (Running <=> job[r].on) /\ snaps = job[r].snaps
           /\ job[r].site = "residual" => job[r].name \notin DOMAIN snaps
           /\ job[r].site = "last" => DOMAIN snaps = {}
<1>1. (Running = job[r].on) => (Running <=> job[r].on)
  BY Zenon
<1>2. Running = job[r].on
  BY Zenon DEF Stale
<1> QED BY <1>1, <1>2 DEF Stale

(* EditDomain: the spare file becomes that of the disk, or goes again.     *)
LEMMA RevertEdited ==
    ASSUME SnapshotsTypeOK, MachineGood, JobsGood, NEW r \in Requests,
           EditDomain(r), UNCHANGED <<written, states, ask>>
    PROVE  SnapshotsInv'
<1>1. job[r] # None /\ job[r] \in Jobs /\ At(r, "edit")
  BY JobAt DEF EditDomain
<1>2. UNCHANGED <<lastFile, power, snaps, current>>
  BY DEF EditDomain
<1>3. PICK n \in 0..lastFile : n = job[r].new /\ Spare(n)
        /\ (n \in DOMAIN files => files[n].data = None /\ files[n].base = job[r].snap.origin)
  BY <1>1 DEF JobsGood, EditGood, Spare
<1>4. /\ ~ job[r].on /\ job[r].name \in DOMAIN job[r].snaps
      /\ job[r].snap = job[r].snaps[job[r].name] /\ job[r].snap.overlay # None
      /\ job[r].snap.origin =< lastFile
  BY <1>1 DEF JobsGood, EditGood
<1>5. job[r].snap \in Entries /\ job[r].snap.origin \in Nat /\ job[r].snap.want \in Contents
      /\ job[r].snap.touched \in BOOLEAN
  <2>1. job[r].snap \in Entries
    BY <1>1, <1>4, JobType DEF Lists
  <2> QED BY <2>1, EntryType
<1>6. n \in Nat /\ lastFile \in Nat /\ DOMAIN files \subseteq Nat /\ disk \in Nat /\ n # disk
  BY <1>3, MachineTypes DEF Spare
<1>7. Forest(files) /\ ReadsIn(files, disk) = seen
  BY DEF MachineGood, Reads
<1>8. ASSUME NEW f \in Nat, f # n PROVE n \notin ChainIn(files, f)
  BY <1>3, <1>7, <1>8, SpareInNoChain
<1>9. CASE Fault /\ files' = Without(job[r].new) /\ End(r) /\ UNCHANGED <<disk, seen, missteps>>
  <2>1. /\ Fresh("end", None) \in Jobs /\ Quiet(Fresh("end", None)) /\ To(r, Fresh("end", None))
        /\ faults' \in 0..MaxFaults
    <3>1. Fresh("end", None) \in Jobs /\ Fresh("end", None).pc = "end"
      BY FreshType DEF Places
    <3> QED BY <1>9, <3>1, FaultType DEF End, Quiet
  <2>2. files' = [f \in DOMAIN files \ {n} |-> files[f]]
    BY <1>3, <1>9 DEF Without
  <2>3. {n} \cap ChainIn(files, disk) = {}
    BY <1>6, <1>8
  <2>4. ASSUME NEW s \in DOMAIN snaps
        PROVE  {n} \cap ChainIn(files, snaps[s].origin) = {} /\ snaps[s].overlay \notin {n}
    <3>1. snaps[s].origin \in Nat /\ snaps[s].origin # n /\ snaps[s].overlay # n
      BY <1>3, KnownEntry DEF Spare
    <3> QED BY <1>8, <3>1
  <2>5. /\ MachineGood' /\ lastFile =< lastFile' /\ BasesStay(files, lastFile, files')
        /\ \A q \in Requests : At(q, "edit") => StaySpare(job[q].new)
        /\ \A q \in Requests : At(q, "redefine") =>
              disk' = disk /\ ReadsIn(files', job[q].base) = ReadsIn(files', disk)
    BY <1>2, <1>9, <2>2, <2>3, <2>4, RemovedFiles
  <2>6. MachineTyped'
    <3>1. files' \in [DOMAIN files' -> Images] /\ DOMAIN files' \subseteq 0..lastFile
      BY <2>2, MachineTypes
    <3> QED BY <1>2, <1>9, <3>1 DEF SnapshotsTypeOK, MachineTyped
  <2> QED BY <1>1, <1>2, <2>1, <2>5, <2>6, TaskStep
<1>10. CASE /\ IF disk = job[r].disk
               THEN disk' = job[r].new /\ seen' = job[r].snap.want
               ELSE UNCHANGED <<disk, seen>>
            /\ Window(Overtaken(r) \cup Redefining(Requests)
                      \cup (IF job[r].new \in DOMAIN files THEN {} ELSE {"overtaken"})
                      \cup (IF job[r].snap.touched /\ Reads(job[r].new) # job[r].snap.want
                            THEN {"halfway"} ELSE {}))
            /\ GoTo(r, "pointer") /\ UNCHANGED <<files, faults>>
  <2> DEFINE j == [job[r] EXCEPT !.pc = "pointer"]
  <2>1. j \in Jobs /\ j.pc = "pointer"
    <3>1. "pointer" \in Places
      BY DEF Places
    <3> QED BY <1>1, <3>1, GoToType
  <2>2. To(r, j) /\ faults' \in 0..MaxFaults
    BY <1>10, FaultType DEF GoTo
  <2> HIDE DEF j
  <2>3. Quiet(j)
    BY <2>1 DEF Quiet
  <2>4. MachineTyped'
    <3>1. disk' \in 0..lastFile /\ seen' \in Contents
      BY <1>3, <1>5, <1>10 DEF SnapshotsTypeOK
    <3> QED BY <1>2, <1>10, <3>1 DEF SnapshotsTypeOK, MachineTyped
  <2>5. ASSUME missteps' = {}
        PROVE  /\ ~ Stale(r) /\ n \in DOMAIN files /\ \A q \in Requests : ~ At(q, "redefine")
               /\ job[r].snap.touched => ReadsIn(files, n) = job[r].snap.want
    BY <1>3, <1>10, <2>5 DEF Window, Overtaken, Redefining, Reads
  <2>6. ASSUME missteps' = {} PROVE MachineGood'
    <3> DEFINE e == job[r].snap
    <3>1. disk = job[r].disk /\ snaps = job[r].snaps
      BY <2>5, <2>6, NotStale
    <3>2. disk' = n /\ seen' = e.want /\ files' = files
      BY <1>3, <1>10, <3>1
    <3>3. PICK s \in DOMAIN snaps : snaps[s] = e
      BY <1>4, <3>1
    <3>4. ReadsIn(files, n) = ReadsIn(files, e.origin)
      <4>1. files[n].data = None /\ files[n].base = e.origin /\ e.origin # None
        BY <1>3, <1>5, <2>5, <2>6, NoneIsNoNumber
      <4> QED BY <1>6, <1>7, <2>5, <2>6, <4>1, ReadsIs
    <3>5. ~ e.touched => ReadsIn(files, e.origin) = e.want
      <4>1. ~ e.touched => Survives(files, disk, e)
        BY <3>3, KnownEntry
      <4> QED BY <1>4, <4>1 DEF Survives, GivenIn
    <3>6. ReadsIn(files', disk') = seen'
      BY <2>5, <2>6, <3>2, <3>4, <3>5
    <3>7. ASSUME NEW t \in DOMAIN snaps, ~ snaps[t].touched
          PROVE  Survives(files', disk', snaps[t])
      <4>1. /\ Survives(files, disk, snaps[t]) /\ snaps[t].origin \in Nat
            /\ ChainIn(files, snaps[t].origin) \subseteq DOMAIN files
        BY <3>7, KnownEntry
      <4>2. snaps[t].origin # n
        BY <1>3 DEF Spare
      <4>3. n \notin FixedIn(files, snaps[t])
        BY <1>8, <4>1, <4>2, FixedIsInChain
      <4>4. \A g \in ChainIn(files, snaps[t].origin) : g \in DOMAIN files' /\ files'[g] = files[g]
        BY <3>2, <4>1
      <4> QED BY <1>7, <3>2, <3>7, <4>1, <4>3, <4>4, SnapshotSurvives DEF Survives
    <3>8. lastFile' \in Nat /\ lastFile =< lastFile' /\ BasesStay(files, lastFile, files')
      BY <1>2, <1>6, <3>2 DEF BasesStay
    <3>9. Forest(files')
      BY <1>7, <3>2
    <3> QED BY <1>2, <3>6, <3>7, <3>8, <3>9, MachineStays
  <2>7. lastFile =< lastFile' /\ BasesStay(files, lastFile, files')
    BY <1>2, <1>6, <1>10 DEF BasesStay
  <2>8. ASSUME NEW q \in Requests \ {r}, At(q, "edit") PROVE StaySpare(job[q].new)
    <3>1. Spare(job[q].new) /\ job[q].new # n
      BY <1>1, <1>3, <2>8 DEF JobsGood, EditGood, EditsApart
    <3>2. disk' # job[q].new
      BY <1>3, <1>10, <3>1 DEF Spare
    <3>3. \A f \in DOMAIN files : ~ (f > lastFile)
      BY MachineTypes
    <3> QED BY <1>2, <1>10, <3>1, <3>2, <3>3 DEF StaySpare, Spare
  <2> QED BY <1>1, <2>1, <2>2, <2>3, <2>4, <2>5, <2>6, <2>7, <2>8, TaskStep
<1> QED BY <1>9, <1>10 DEF EditDomain

-----------------------------------------------------------------------------
(* A deletion begins, and looks at the disk.                               *)

(* A leaf is chosen for deletion and marked.                               *)
LEMMA Begun ==
    ASSUME SnapshotsTypeOK, MachineGood, JobsGood, NEW r \in Requests, job[r] # None,
           NEW n \in Leaves, NEW doomed, n \in doomed, All(r) => DOMAIN snaps \subseteq doomed,
           Begin(r, n, doomed), UNCHANGED <<written, states, ask>>,
           UNCHANGED <<files, lastFile, disk, power, current, seen, faults>>
    PROVE  SnapshotsInv'
<1>1. job[r] \in Jobs
  BY DEF SnapshotsTypeOK
<1>2. n \in DOMAIN snaps /\ \A m \in DOMAIN snaps : snaps[m].parent # n
  BY DEF Leaves
<1> DEFINE pc == IF External(n) THEN "external" ELSE "internal"
           j == [Fresh(pc, n) EXCEPT !.snap = snaps[n], !.snaps = snaps']
<1>3. /\ snaps' = [m \in DOMAIN snaps |-> [snaps[m] EXCEPT !.touched = @ \/ m \in doomed]]
      /\ To(r, j)
  BY DEF Begin
<1>4. \A m \in DOMAIN snaps : snaps[m] \in Entries
  BY MachineTypes
<1>5. DOMAIN snaps' = DOMAIN snaps
  BY <1>3
<1>6. ASSUME NEW m \in DOMAIN snaps
      PROVE  /\ snaps'[m] \in Entries /\ snaps'[m].origin = snaps[m].origin
             /\ snaps'[m].overlay = snaps[m].overlay /\ snaps'[m].saved = snaps[m].saved
             /\ snaps'[m].parent = snaps[m].parent /\ snaps'[m].want = snaps[m].want
             /\ snaps'[m].touched <=> (snaps[m].touched \/ m \in doomed)
  <2>1. snaps'[m] = [snaps[m] EXCEPT !.touched = snaps[m].touched \/ m \in doomed]
    BY <1>3
  <2>2. snaps[m] \in Entries /\ snaps[m].touched \in BOOLEAN
    BY <1>4, EntryType
  <2>3. (snaps[m].touched \/ m \in doomed) \in BOOLEAN
    OBVIOUS
  <2>4. PICK b \in BOOLEAN : b = (snaps[m].touched \/ m \in doomed)
    BY <2>3
  <2>5. snaps'[m] = [snaps[m] EXCEPT !.touched = b]
    BY <2>1, <2>4
  <2>6. /\ snaps'[m] \in Entries /\ snaps'[m].origin = snaps[m].origin
        /\ snaps'[m].overlay = snaps[m].overlay /\ snaps'[m].saved = snaps[m].saved
        /\ snaps'[m].parent = snaps[m].parent /\ snaps'[m].want = snaps[m].want
        /\ snaps'[m].touched = b
    BY <2>2, <2>5 DEF Entries
  <2> QED BY <2>4, <2>6
<1>7. snaps' \in Lists /\ snaps' \in [DOMAIN snaps -> Entries]
  <2>1. snaps' = [m \in DOMAIN snaps |-> snaps'[m]]
    BY <1>3
  <2>2. snaps' \in [DOMAIN snaps -> Entries]
    BY <1>6, <2>1
  <2> QED BY <2>2, MachineTypes DEF Lists
<1>8. /\ j \in Jobs /\ j.pc = pc /\ j.name = n /\ j.snap = snaps[n] /\ j.snaps = snaps'
  <2>1. Fresh(pc, n) \in Jobs /\ Fresh(pc, n).pc = pc /\ Fresh(pc, n).name = n
    BY <1>2, FreshType, MachineTypes DEF Places
  <2> HIDE DEF pc
  <2> QED BY <1>2, <1>4, <1>7, <2>1 DEF Jobs
<1>9. pc \in {"external", "internal"} /\ (pc = "external" => snaps[n].overlay # None)
  BY DEF External
<1> HIDE DEF j, pc
<1>10. MachineTyped'
  <2>1. \A s \in DOMAIN snaps' : snaps'[s].parent \in {None} \cup DOMAIN snaps'
    BY <1>5, <1>6, MachineTypes
  <2> QED BY <1>5, <1>7, <2>1 DEF SnapshotsTypeOK, MachineTyped
<1>11. faults' \in 0..MaxFaults
  BY FaultType
<1>12. MachineGood'
  <2>1. ASSUME NEW m \in DOMAIN snaps PROVE EntryGood(files, disk, lastFile, snaps'[m])
    <3>1. EntryGood(files, disk, lastFile, snaps[m])
      BY DEF MachineGood
    <3>2. ~ snaps'[m].touched => Survives(files, disk, snaps'[m])
      <4>1. ASSUME ~ snaps'[m].touched PROVE Survives(files, disk, snaps[m])
        BY <1>6, <3>1, <4>1 DEF EntryGood
      <4>2. FixedIn(files, snaps'[m]) = FixedIn(files, snaps[m])
            /\ GivenIn(files, snaps'[m]) = GivenIn(files, snaps[m])
        BY <1>6 DEF FixedIn, GivenIn
      <4> QED BY <1>6, <4>1, <4>2 DEF Survives
    <3> QED BY <1>6, <3>1, <3>2 DEF EntryGood
  <2>2. Apart(snaps') /\ Acyclic(snaps')
    <3>1. Apart(snaps')
      BY <1>5, <1>6 DEF MachineGood, Apart
    <3>2. Acyclic(snaps')
      BY <1>5, <1>6 DEF MachineGood, Acyclic
    <3> QED BY <3>1, <3>2
  <2>3. LineageIn(files, snaps')
    <3>1. LineageIn(files, snaps)
      BY LineageIsLineageIn DEF MachineGood
    <3> SUFFICES ASSUME NEW s \in DOMAIN snaps
                 PROVE  UnderIn(files, snaps', snaps'[s].origin, snaps'[s].parent)
      BY <1>5 DEF LineageIn
    <3>2. UnderIn(files, snaps, snaps[s].origin, snaps[s].parent)
      BY <3>1 DEF LineageIn
    <3>3. snaps[s].parent # None => snaps[s].parent \in DOMAIN snaps
      BY MachineTypes
    <3>4. UnderIn(files, snaps', snaps[s].origin, snaps[s].parent)
      BY <1>5, <1>6, <3>2, <3>3 DEF UnderIn
    <3> QED BY <1>6, <3>4
  <2>4. Lineage'
    <3>1. (Lineage <=> LineageIn(files, snaps))'
      BY LineageIsLineageIn, PTL
    <3> QED BY <2>3, <3>1
  <2> QED BY <1>5, <2>1, <2>2, <2>4 DEF MachineGood, Reads
<1>13. job'[r] = j /\ \A q \in Requests \ {r} : job'[q] = job[q]
  BY <1>3, <1>8, <1>10, <1>11, TypesStep
<1>14. EditGood(r)' /\ ChoiceGood(r)'
  <2>1. EditGood(r)'
    BY <1>8, <1>9, <1>13 DEF EditGood, At
  <2>2. Chosen(r)'
    <3>1. All(r)' <=> All(r)
      BY DEF All
    <3> QED BY <1>2, <1>5, <1>6, <1>8, <1>13, <3>1 DEF Chosen
  <2>3. j.snap # None
    BY <1>2, <1>4, <1>8, SnapshotsAssumption
  <2>4. j.pc = "external" => j.snap.overlay # None /\ j.snaps[j.name].overlay = j.snap.overlay
    BY <1>2, <1>6, <1>8, <1>9
  <2>5. job'[r] # None /\ job'[r].pc \in {"external", "internal"}
    BY <1>8, <1>9, <1>13, JobType
  <2>6. ~ Folding(job'[r])
    BY <2>5 DEF Folding
  <2>7. ChoiceGood(r)'
    BY <1>13, <2>2, <2>3, <2>4, <2>5, <2>6 DEF ChoiceGood
  <2> QED BY <2>1, <2>7
<1>15. \A q \in Requests \ {r} : EditsApart(q, r)' /\ EditsApart(r, q)'
  BY <1>8, <1>9, <1>13 DEF EditsApart, At
<1>16. lastFile =< lastFile' /\ BasesStay(files, lastFile, files')
  BY MachineTypes DEF BasesStay
<1>17. ASSUME NEW q \in Requests, At(q, "edit") PROVE StaySpare(job[q].new)
  <2>1. Spare(job[q].new)
    BY <1>17 DEF JobsGood, EditGood
  <2>2. \A f \in DOMAIN files : ~ (f > lastFile)
    BY MachineTypes
  <2> QED BY <1>5, <1>6, <2>1, <2>2 DEF StaySpare, Spare
<1>18. \A q \in Requests : At(q, "redefine") =>
          disk' = disk /\ ReadsIn(files', job[q].base) = ReadsIn(files', disk)
  BY DEF At, JobsGood, ChoiceGood, Reads
<1> QED BY <1>3, <1>8, <1>10, <1>11, <1>12, <1>14, <1>15, <1>16, <1>17, <1>18, TaskStep

LEMMA OneDeletionBegins ==
    ASSUME SnapshotsTypeOK, MachineGood, JobsGood, NEW r \in Requests,
           DeleteSnapshot(r), UNCHANGED <<written, states, ask>>
    PROVE  SnapshotsInv'
<1>1. job[r] # None /\ job[r] \in Jobs /\ ~ All(r)
  BY JobAt DEF DeleteSnapshot, JobsGood, ChoiceGood
<1>2. UNCHANGED <<files, lastFile, disk, power, current, seen, faults, missteps>>
  BY DEF DeleteSnapshot
<1>3. CASE job[r].name \in Leaves
  BY <1>1, <1>2, <1>3, Begun DEF DeleteSnapshot
<1>4. CASE job[r].name \notin Leaves
  <2>1. End(r) /\ UNCHANGED machine
    BY <1>2, <1>4 DEF DeleteSnapshot, machine
  <2> QED BY <1>1, <1>2, <2>1, Ends
<1> QED BY <1>3, <1>4

LEMMA NextDeletionBegins ==
    ASSUME SnapshotsTypeOK, MachineGood, JobsGood, NEW r \in Requests,
           DeleteAllSnapshots(r), UNCHANGED <<written, states, ask>>
    PROVE  SnapshotsInv'
<1>1. job[r] # None /\ job[r] \in Jobs
  BY JobAt DEF DeleteAllSnapshots
<1>2. UNCHANGED <<files, lastFile, disk, power, current, seen>>
  BY DEF DeleteAllSnapshots
<1>3. PICK list \in {DOMAIN snaps, {}} :
         /\ ListSnapshots(list, {})
         /\ \/ \E n \in list \cap Leaves : Begin(r, n, DOMAIN snaps)
            \/ list = {} /\ To(r, Fresh("last", None)) /\ UNCHANGED snaps
  BY DEF DeleteAllSnapshots
<1>4. ASSUME NEW n \in list \cap Leaves, Begin(r, n, DOMAIN snaps) PROVE SnapshotsInv'
  <2>1. list = DOMAIN snaps /\ UNCHANGED faults
    BY <1>3, <1>4 DEF ListSnapshots
  <2>2. n \in Leaves /\ n \in DOMAIN snaps
    BY <2>1
  <2> QED BY <1>1, <1>2, <1>4, <2>1, <2>2, Begun
<1>5. CASE list = {} /\ To(r, Fresh("last", None)) /\ UNCHANGED snaps
  <2>1. Fault \/ UNCHANGED faults
    BY <1>3 DEF ListSnapshots
  <2>2. Fresh("last", None) \in Jobs /\ Fresh("last", None).pc = "last"
    BY FreshType DEF Places
  <2>3. Quiet(Fresh("last", None))
    BY <2>2 DEF Quiet
  <2>4. UNCHANGED machine
    BY <1>2, <1>5 DEF machine
  <2> QED BY <1>1, <1>5, <2>1, <2>2, <2>3, <2>4, QuietStep
<1> QED BY <1>3, <1>4, <1>5

(* The disk, its state and the restore points are read.                    *)
LEMMA Looked ==
    ASSUME SnapshotsTypeOK, MachineGood, JobsGood, NEW r \in Requests,
           LookAtDisk(r), UNCHANGED <<written, states, ask>>
    PROVE  SnapshotsInv'
<1>1. PICK old \in {"external", "mismatch", "residual", "last"},
           pc \in {"files", "fold"}, site \in {"files", "mismatch", "residual", "last"} :
        /\ At(r, old) /\ Look(r, pc, site)
        /\ old = "external" => pc = "files" /\ site = "files"
        /\ old # "external" => pc = "fold" /\ site = old
  BY DEF LookAtDisk
<1>2. job[r] # None /\ job[r] \in Jobs /\ job[r].pc = old
  BY <1>1, JobAt
<1>3. UNCHANGED machine
  BY DEF LookAtDisk
<1>4. PICK list \in {DOMAIN snaps, {}} :
        /\ ListSnapshots(list, IF job[r].snap = None THEN {} ELSE Changed(r))
        /\ To(r, [job[r] EXCEPT !.pc = pc, !.site = site, !.disk = disk, !.on = Running,
                    !.base = Base(disk),
                    !.snaps = IF job[r].snap = None THEN snaps ELSE @,
                    !.kept = getProtectedExternalSnapshotRestoreFiles(list, job[r].name)])
  BY <1>1 DEF Look
<1> DEFINE list2 == IF job[r].snap = None THEN snaps ELSE job[r].snaps
           kept == getProtectedExternalSnapshotRestoreFiles(list, job[r].name)
           j == [job[r] EXCEPT !.pc = pc, !.site = site, !.disk = disk, !.on = Running,
                    !.base = Base(disk), !.snaps = list2, !.kept = kept]
<1>5. To(r, j)
  BY <1>4
<1>6. disk \in Nat /\ Base(disk) \in Nat \cup {None} /\ snaps \in Lists /\ disk \in 0..lastFile
  <2>1. disk \in DOMAIN files => files[disk].base \in Nat \cup {None}
    BY ForestFile DEF MachineGood
  <2> QED BY <2>1, MachineTypes DEF Base, SnapshotsTypeOK
<1>7. kept \in SUBSET Nat
  <2>1. \A s \in DOMAIN snaps : snaps[s].origin \in Nat
    BY KnownEntry
  <2> QED BY <2>1 DEF getProtectedExternalSnapshotRestoreFiles
<1>8. /\ j \in Jobs /\ j.pc = pc /\ j.site = site /\ j.disk = disk /\ j.base = Base(disk)
      /\ j.snaps = list2 /\ j.kept = kept /\ j.name = job[r].name /\ j.snap = job[r].snap
  <2>1. list2 \in Lists
    BY <1>2, <1>6, JobType
  <2>2. PICK on \in BOOLEAN : on = Running
    BY DEF Running
  <2>3. PICK k \in Jobs : k = job[r]
    BY <1>2
  <2>4. PICK b \in Nat \cup {None} : b = Base(disk)
    BY <1>6
  <2>5. PICK l \in Lists : l = list2
    BY <2>1
  <2>6. PICK p \in SUBSET Nat : p = kept
    BY <1>7
  <2>7. PICK d \in Nat : d = disk
    BY <1>6
  <2> HIDE DEF list2, kept
  <2> DEFINE h == [k EXCEPT !.pc = pc, !.site = site, !.disk = d, !.on = on, !.base = b,
                    !.snaps = l, !.kept = p]
  <2>8. j = h
    BY <2>2, <2>3, <2>4, <2>5, <2>6, <2>7
  <2>9. pc \in Places /\ site \in {"none", "files", "mismatch", "residual", "last"}
    BY DEF Places
  <2>10. /\ h \in Jobs /\ h.pc = pc /\ h.site = site /\ h.disk = d /\ h.base = b
         /\ h.snaps = l /\ h.kept = p /\ h.name = k.name /\ h.snap = k.snap
    <3> DEFINE full == [pc |-> pc, name |-> k.name, site |-> site, disk |-> d, on |-> on,
                        base |-> b, snaps |-> l, kept |-> p, snap |-> k.snap, new |-> k.new]
    <3>1. h = full
      <4>1. h \in [DOMAIN k -> {h[x] : x \in DOMAIN k}]
        OBVIOUS
      <4>2. DOMAIN k = DOMAIN full
        BY DEF Jobs
      <4>3. full \in [DOMAIN k -> {full[x] : x \in DOMAIN k}]
        BY <4>2
      <4>4. DOMAIN k = {"pc", "name", "site", "disk", "on", "base", "snaps", "kept", "snap", "new"}
        BY DEF Jobs
      <4>5. /\ h.pc = pc /\ h.name = k.name /\ h.site = site /\ h.disk = d /\ h.on = on
            /\ h.base = b /\ h.snaps = l /\ h.kept = p /\ h.snap = k.snap /\ h.new = k.new
        BY <4>4
      <4>6. /\ full.pc = pc /\ full.name = k.name /\ full.site = site /\ full.disk = d
            /\ full.on = on /\ full.base = b /\ full.snaps = l /\ full.kept = p
            /\ full.snap = k.snap /\ full.new = k.new
        OBVIOUS
      <4> HIDE DEF h, full
      <4>7. \A x \in DOMAIN k : h[x] = full[x]
        BY <4>4, <4>5, <4>6
      <4> QED BY <4>1, <4>3, <4>7
    <3>2. /\ k.name \in SnapshotNames \cup {None} /\ k.snap \in Entries \cup {None}
          /\ k.new \in Nat \cup {None} /\ d \in Nat \cup {None}
      BY JobType
    <3>3. full \in Jobs
      BY <2>9, <3>2 DEF Jobs, Places
    <3> QED BY <3>1, <3>3
  <2> HIDE DEF h, j
  <2> QED BY <2>3, <2>4, <2>5, <2>6, <2>7, <2>8, <2>10
<1> HIDE DEF j
<1>9. faults' \in 0..MaxFaults
  BY <1>4, FaultType DEF ListSnapshots
<1>10. MachineTyped' /\ MachineGood'
  BY <1>3, MachineSame DEF SnapshotsTypeOK, MachineTyped, machine
<1>11. job'[r] = j /\ \A q \in Requests \ {r} : job'[q] = job[q]
  BY <1>2, <1>5, <1>8, <1>9, <1>10, TypesStep
<1>12. ASSUME missteps' = {} PROVE EditGood(r)' /\ ChoiceGood(r)'
  <2>1. list = DOMAIN snaps
    BY <1>4, <1>12 DEF ListSnapshots, Window
  <2>2. list2 = snaps
    <3>1. job[r].snap # None => Changed(r) = {}
      BY <1>4, <1>12 DEF ListSnapshots, Window
    <3> QED BY <3>1 DEF Changed
  <2>3. j.kept = KeptBy(j)
    BY <1>8, <2>1, <2>2 DEF KeptBy, getProtectedExternalSnapshotRestoreFiles, External
  <2>4. j.disk \in DOMAIN files => files[j.disk].base = j.base
    BY <1>8 DEF Base
  <2>5. EditGood(r)'
    BY <1>8, <1>11 DEF EditGood, At
  <2>6. ChoiceGood(r)
    BY DEF JobsGood
  <2>7. ASSUME Deleting(j)
        PROVE  Chosen(r)' /\ j.snap # None /\ (j.pc = "files" => j.snap.overlay # None
                  /\ j.snaps[j.name].overlay = j.snap.overlay)
    <3>1. old \in {"external", "mismatch"}
      BY <1>1, <1>8, <2>7 DEF Deleting, Folding
    <3>2. Chosen(r) /\ job[r].snap # None
      BY <1>2, <2>6, <3>1 DEF ChoiceGood, Deleting
    <3>3. j.snaps = job[r].snaps
      BY <1>8, <3>2
    <3>4. Chosen(r)'
      <4>1. All(r)' <=> All(r)
        BY DEF All
      <4> QED BY <1>8, <1>11, <3>2, <3>3, <4>1 DEF Chosen
    <3>5. j.pc = "files" => job[r].pc = "external"
      BY <1>1, <1>2, <1>8
    <3>6. j.pc = "files" => job[r].snap.overlay # None
             /\ job[r].snaps[job[r].name].overlay = job[r].snap.overlay
      BY <1>2, <2>6, <3>5 DEF ChoiceGood
    <3> QED BY <1>8, <3>2, <3>3, <3>4, <3>6
  <2>8. j.site = "residual" => ~ All(r) /\ ~ All(r)'
    <3>1. j.site = "residual" => job[r].pc = "residual"
      BY <1>1, <1>2, <1>8
    <3>2. All(r)' <=> All(r)
      BY DEF All
    <3> QED BY <1>2, <2>6, <3>1, <3>2 DEF ChoiceGood
  <2>9. j.pc \in {"files", "fold"} /\ j.site # "none" /\ j.disk \in 0..lastFile'
    BY <1>3, <1>6, <1>8 DEF machine
  <2>10. j.disk \in DOMAIN files' => files'[j.disk].base = j.base
    BY <1>3, <2>4 DEF machine
  <2>11. ChoiceGood(r)'
    <3>1. job'[r] = j /\ j # None
      BY <1>8, <1>11, JobType
    <3>2. (Folding(j) \/ j.pc = "files") /\ j.pc # "redefine" /\ j.pc \notin {"create", "make", "delete", "external", "residual"}
      BY <2>9 DEF Folding
    <3> HIDE DEF kept, list2
    <3>3. /\ j.pc \in {"create", "make"} => j.name \in SnapshotNames
          /\ j.pc = "delete" => ~ All(r)'
          /\ Deleting(j) => Chosen(r)' /\ j.snap # None
          /\ j.pc \in {"external", "files"} =>
                j.snap.overlay # None /\ j.snaps[j.name].overlay = j.snap.overlay
          /\ j.pc = "residual" \/ (Folding(j) /\ j.site = "residual") => ~ All(r)'
          /\ j.pc = "files" => j.site = "files"
      <4>1. j.pc = "files" => Deleting(j)
        BY DEF Deleting
      <4>2. j.pc = "files" => j.site = "files"
        BY <1>1, <1>8
      <4> QED BY <2>7, <2>8, <3>2, <4>1, <4>2
    <3> QED BY <2>3, <2>9, <2>10, <3>1, <3>2, <3>3 DEF ChoiceGood
  <2> QED BY <2>5, <2>11
<1>13. \A q \in Requests \ {r} : EditsApart(q, r)' /\ EditsApart(r, q)'
  BY <1>8, <1>11 DEF EditsApart, At
<1>14. UNCHANGED <<files, lastFile, disk, snaps, power>>
  BY <1>3 DEF machine
<1>15. /\ lastFile =< lastFile' /\ BasesStay(files, lastFile, files')
       /\ \A q \in Requests : At(q, "edit") => StaySpare(job[q].new)
       /\ \A q \in Requests : At(q, "redefine") =>
             disk' = disk /\ ReadsIn(files', job[q].base) = ReadsIn(files', disk)
  BY <1>14, FilesSame
<1> QED BY <1>2, <1>5, <1>8, <1>9, <1>10, <1>12, <1>13, <1>14, <1>15, TaskStep

-----------------------------------------------------------------------------
(* Files that are written below the disk, or go from under it.             *)

(* An internal snapshot gives what it saved when only its own file is      *)
(* written.                                                                *)
LEMMA OverwrittenSurvives ==
    ASSUME SnapshotsTypeOK, MachineGood, Forest(files'),
           NEW s \in DOMAIN snaps, ~ snaps[s].touched,
           \A g \in FixedIn(files, snaps[s]) : g \in DOMAIN files' /\ files'[g] = files[g],
           snaps[s].origin \in DOMAIN files',
           files'[snaps[s].origin].base = files[snaps[s].origin].base,
           files'[snaps[s].origin].data = None => files[snaps[s].origin].data = None,
           snaps[s].overlay # None => snaps[s].overlay \in DOMAIN files',
           disk' \notin FixedIn(files, snaps[s])
    PROVE  Survives(files', disk', snaps[s])
<1> DEFINE e == snaps[s]
<1>1. /\ e \in Entries /\ Survives(files, disk, e) /\ e.origin \in Nat /\ e.origin \in DOMAIN files
      /\ e.overlay = None /\ e.saved = None => files[e.origin].base # None
  BY KnownEntry
<1>2. Forest(files) /\ ReadsIn(files, e.origin) # None
  BY <1>1 DEF MachineGood, Survives
<1> HIDE DEF e
<1>3. ReadsIn(files', e.origin) # None
  <2>1. CASE files[e.origin].base = None
    <3>1. files[e.origin].data # None
      BY <1>1, <1>2, <2>1, ReadableFile
    <3>2. files'[e.origin].base = None /\ files'[e.origin].data # None /\ e.origin \in DOMAIN files'
      BY <2>1, <3>1 DEF e
    <3> QED BY <1>1, <3>2, ReadsIs
  <2>2. CASE files[e.origin].base # None
    <3>1. PICK b \in Nat : b = files[e.origin].base /\ b # e.origin
      <4>1. files[e.origin].base \in 0..e.origin - 1
        BY <1>1, <1>2, <2>2, ReadableFile
      <4> QED BY <1>1, <4>1
    <3>2. ReadsIn(files, b) # None /\ ChainIn(files, b) = ChainIn(files, e.origin) \ {e.origin}
      BY <1>1, <1>2, <2>2, <3>1, ReadableFile
    <3>3. ChainIn(files, b) \subseteq FixedIn(files, e)
      BY <3>2 DEF FixedIn
    <3>4. ReadsIn(files', b) = ReadsIn(files, b)
      BY <1>2, <3>2, <3>3, SameChain DEF e
    <3>5. files'[e.origin].base = b /\ b # None /\ e.origin \in DOMAIN files'
      BY <2>2, <3>1 DEF e
    <3> QED BY <1>1, <3>2, <3>4, <3>5, ReadsIs
  <2> QED BY <2>1, <2>2
<1> QED BY <1>1, <1>2, <1>3, SurvivesStays DEF e

(* Files are written or go that no kept snapshot reads.                    *)
LEMMA FilesRewritten ==
    ASSUME SnapshotsTypeOK, MachineGood, JobsGood, NEW altered,
           DOMAIN files' \subseteq DOMAIN files, files' \in [DOMAIN files' -> Images],
           \A g \in DOMAIN files' :
              /\ files'[g].base = files[g].base
              /\ g \notin altered => files'[g] = files[g]
              /\ files'[g].data = None => files[g].data = None,
           UNCHANGED <<lastFile, snaps>>,
           ReadsIn(files', disk') = seen',
           \A s \in DOMAIN snaps : ~ snaps[s].touched =>
              /\ altered \cap FixedIn(files, snaps[s]) = {}
              /\ ChainIn(files, snaps[s].origin) \subseteq DOMAIN files'
              /\ snaps[s].overlay # None => snaps[s].overlay \in DOMAIN files'
              /\ disk' \notin FixedIn(files, snaps[s]),
           \A q \in Requests : At(q, "edit") => job[q].new \notin altered /\ job[q].new # disk'
    PROVE  /\ MachineGood' /\ lastFile =< lastFile' /\ BasesStay(files, lastFile, files')
           /\ \A q \in Requests : At(q, "edit") => StaySpare(job[q].new)
<1>1. Forest(files') /\ BasesStay(files, lastFile, files')
  BY FilesChange DEF MachineGood
<1>2. ASSUME NEW s \in DOMAIN snaps, ~ snaps[s].touched
      PROVE  Survives(files', disk', snaps[s])
  <2>1. FixedIn(files, snaps[s]) \subseteq ChainIn(files, snaps[s].origin)
    BY FixedIsInChain
  <2>2. \A g \in FixedIn(files, snaps[s]) : g \in DOMAIN files' /\ files'[g] = files[g]
    BY <1>2, <2>1
  <2>3. snaps[s].origin \in ChainIn(files, snaps[s].origin)
    BY <1>2, KnownEntry, ReadableFile DEF MachineGood, Survives
  <2>4. snaps[s].origin \in DOMAIN files'
    BY <1>2, <2>3
  <2> QED BY <1>1, <1>2, <2>2, <2>4, OverwrittenSurvives
<1>3. lastFile' \in Nat /\ lastFile =< lastFile'
  BY MachineTypes
<1>4. MachineGood'
  BY <1>1, <1>2, <1>3, MachineStays
<1>5. ASSUME NEW q \in Requests, At(q, "edit") PROVE StaySpare(job[q].new)
  <2>1. Spare(job[q].new)
    BY <1>5 DEF JobsGood, EditGood
  <2>2. \A f \in DOMAIN files' : ~ (f > lastFile)
    BY MachineTypes
  <2> QED BY <1>5, <2>1, <2>2 DEF Spare, StaySpare
<1> QED BY <1>1, <1>3, <1>4, <1>5

(* The disk reads the same when its chain stays.                           *)
LEMMA SameBelowDisk ==
    ASSUME SnapshotsTypeOK, MachineGood, JobsGood, Forest(files'),
           \A g \in ChainIn(files, disk) : g \in DOMAIN files' /\ files'[g] = files[g]
    PROVE  /\ ReadsIn(files', disk) = seen /\ ChainIn(files', disk) = ChainIn(files, disk)
           /\ \A q \in Requests : At(q, "redefine") =>
                 ReadsIn(files', job[q].base) = ReadsIn(files', disk)
<1>1. Forest(files) /\ ReadsIn(files, disk) = seen /\ disk \in Nat /\ ReadsIn(files, disk) # None
  BY MachineTypes DEF MachineGood, Reads
<1>2. ReadsIn(files', disk) = ReadsIn(files, disk) /\ ChainIn(files', disk) = ChainIn(files, disk)
  BY <1>1, SameChain
<1>3. ASSUME NEW q \in Requests, At(q, "redefine")
      PROVE  ReadsIn(files', job[q].base) = ReadsIn(files', disk)
  <2>1. PICK b \in Nat : b = job[q].base /\ files[disk].base = b
    BY <1>3, DiskOfCommitted
  <2>2. ReadsIn(files, b) = ReadsIn(files, disk)
    BY <1>3, <2>1, DiskOfCommitted
  <2>3. ChainIn(files, b) \subseteq ChainIn(files, disk)
    BY <1>1, <2>1, ReadableFile, NoneIsNoNumber
  <2>4. ReadsIn(files', b) = ReadsIn(files, b)
    BY <1>1, <2>2, <2>3, SameChain
  <2> QED BY <1>2, <2>1, <2>2, <2>4
<1> QED BY <1>1, <1>2, <1>3

-----------------------------------------------------------------------------
(* deleteExternalSnapshot, and folds that change nothing.                  *)

(* A task that starts anew at one of these places is quiet.                *)
LEMMA FreshQuiet ==
    ASSUME NEW pc \in {"revert", "switch", "pointer", "start", "delete_all", "metadata", "retry",
                       "last", "cleanup", "end"},
           NEW n \in SnapshotNames \cup {None}
    PROVE  Fresh(pc, n) \in Jobs /\ Quiet(Fresh(pc, n))
<1>1. pc \in Places
  BY DEF Places
<1>2. Fresh(pc, n) \in Jobs /\ Fresh(pc, n).pc = pc
  BY <1>1, FreshType
<1> QED BY <1>2 DEF Quiet

(* What a file is committed to takes its contents.                         *)
LEMMA Committed ==
    ASSUME SnapshotsTypeOK, NEW f \in DOMAIN files, NEW b \in DOMAIN files, b = files[f].base,
           b # f
    PROVE  LET gs == Commit(f) IN
           /\ DOMAIN gs = DOMAIN files \ {f} /\ gs \in [DOMAIN gs -> Images]
           /\ gs[b].data = (IF files[f].data = None THEN files[b].data ELSE files[f].data)
           /\ \A g \in DOMAIN gs :
                 /\ gs[g].base = files[g].base
                 /\ g \notin {b} => gs[g] = files[g]
                 /\ gs[g].data = None => files[g].data = None
<1> DEFINE data == IF files[f].data = None THEN files[b].data ELSE files[f].data
           image == [files[b] EXCEPT !.data = data]
           gs == Commit(f)
<1>1. \A g \in DOMAIN files : files[g] \in Images
  BY MachineTypes
<1>2. data \in Contents \cup {None} /\ (data = None => files[b].data = None)
  BY <1>1 DEF Images
<1> HIDE DEF data
<1>3. image \in Images /\ image.data = data /\ image.base = files[b].base
  BY <1>1, <1>2 DEF Images
<1>4. /\ Without(f) \in [DOMAIN files \ {f} -> Images] /\ b \in DOMAIN files \ {f}
      /\ \A g \in DOMAIN files \ {f} : Without(f)[g] = files[g]
  BY <1>1 DEF Without
<1>5. gs = [Without(f) EXCEPT ![b] = image]
  <2>1. gs = [Without(f) EXCEPT ![b].data = IF files[f].data = None THEN @ ELSE files[f].data]
    BY DEF Commit
  <2> HIDE DEF gs
  <2>2. Without(f)[b] = files[b]
    BY <1>4
  <2> QED BY <2>1, <2>2 DEF data
<1> HIDE DEF image, gs
<1>6. /\ DOMAIN gs = DOMAIN files \ {f} /\ gs[b] = image
      /\ \A g \in DOMAIN files \ {f} : g # b => gs[g] = files[g]
  BY <1>4, <1>5
<1>7. gs \in [DOMAIN gs -> Images]
  BY <1>3, <1>4, <1>5
<1>8. \A g \in DOMAIN gs : (g = b => gs[g] = image) /\ (g # b => gs[g] = files[g])
  BY <1>6
<1>9. ASSUME NEW g \in DOMAIN gs
      PROVE  /\ gs[g].base = files[g].base /\ (g \notin {b} => gs[g] = files[g])
             /\ (gs[g].data = None => files[g].data = None)
  BY <1>2, <1>3, <1>8
<1>10. gs[b].data = (IF files[f].data = None THEN files[b].data ELSE files[f].data)
  BY <1>3, <1>6 DEF data
<1> QED BY <1>6, <1>7, <1>9, <1>10 DEF gs

(* deleteExternalSnapshot: a leaf overlay that is not the disk goes, or is *)
(* committed to the file below it.                                         *)
LEMMA DeletedExternal ==
    ASSUME SnapshotsTypeOK, MachineGood, JobsGood, NEW r \in Requests,
           deleteExternalSnapshot(r), UNCHANGED <<written, states, ask>>
    PROVE  SnapshotsInv'
<1>1. /\ job[r] # None /\ job[r] \in Jobs /\ job[r].pc = "files"
      /\ job[r].name \in SnapshotNames \cup {None} /\ job[r].snap \in Entries \cup {None}
  BY JobAt, JobType DEF deleteExternalSnapshot
<1>2. /\ Chosen(r) /\ job[r].snap # None /\ job[r].snap.overlay # None /\ job[r].site = "files"
      /\ job[r].snaps[job[r].name].overlay = job[r].snap.overlay
      /\ job[r].disk \in 0..lastFile /\ job[r].kept = KeptBy(job[r])
      /\ job[r].disk \in DOMAIN files => files[job[r].disk].base = job[r].base
  BY <1>1 DEF JobsGood, ChoiceGood, Deleting
<1>3. UNCHANGED <<lastFile, disk, power, snaps, current, seen>>
  BY DEF deleteExternalSnapshot
<1>4. PICK f \in Nat : f = job[r].snap.overlay
  BY <1>1, <1>2, EntryType
<1>5. ASSUME f = job[r].disk PROVE SnapshotsInv'
  <2>1. GoTo(r, "fold") /\ UNCHANGED <<files, faults, missteps>>
    BY <1>4, <1>5 DEF deleteExternalSnapshot
  <2> DEFINE j == [job[r] EXCEPT !.pc = "fold"]
  <2>2. To(r, j)
    BY <2>1 DEF GoTo
  <2>3. /\ j \in Jobs /\ j.pc = "fold" /\ j.name = job[r].name /\ j.site = "files"
        /\ j.disk = job[r].disk /\ j.base = job[r].base /\ j.snaps = job[r].snaps
        /\ j.kept = job[r].kept /\ j.snap = job[r].snap
    <3>1. "fold" \in Places
      BY DEF Places
    <3> QED BY <1>1, <1>2, <3>1, GoToType
  <2> HIDE DEF j
  <2>4. faults' \in 0..MaxFaults /\ MachineTyped' /\ MachineGood'
    BY <1>3, <2>1, FaultType, MachineSame DEF SnapshotsTypeOK, MachineTyped
  <2>5. job'[r] = j /\ \A q \in Requests \ {r} : job'[q] = job[q]
    BY <1>1, <2>2, <2>3, <2>4, TypesStep
  <2>6. EditGood(r)'
    BY <2>3, <2>5 DEF EditGood, At
  <2>7. ChoiceGood(r)'
    <3>1. Chosen(r)'
      <4>1. All(r)' <=> All(r)
        BY DEF All
      <4> QED BY <1>2, <2>3, <2>5, <4>1 DEF Chosen
    <3>2. j.kept = KeptBy(j)
      BY <1>2, <2>3 DEF KeptBy
    <3> QED BY <1>2, <1>3, <2>1, <2>3, <2>5, <3>1, <3>2 DEF ChoiceGood, Folding, Deleting
  <2>8. \A q \in Requests \ {r} : EditsApart(q, r)' /\ EditsApart(r, q)'
    BY <2>3, <2>5 DEF EditsApart, At
  <2> QED BY <1>1, <1>3, <2>1, <2>2, <2>3, <2>4, <2>6, <2>7, <2>8, FilesSame, TaskStep
<1>6. ASSUME f # job[r].disk PROVE SnapshotsInv'
  <2> DEFINE j == Fresh("metadata", job[r].name)
  <2>1. j \in Jobs /\ Quiet(j)
    BY <1>1, FreshQuiet
  <2> HIDE DEF j
  <2>2. /\ To(r, j)
        /\ \/ /\ Preserve(r) /\ files' = Without(f) /\ UNCHANGED faults
              /\ Window(Changed(r) \cup IF f \in Chain(disk) THEN {"under"} ELSE {})
           \/ /\ All(r) /\ Committable(f) /\ files' = Commit(f) /\ UNCHANGED faults
              /\ Window(Changed(r) \cup IF Base(f) \in Chain(disk) THEN {"below"} ELSE {})
           \/ /\ All(r) /\ UNCHANGED <<files, missteps>>
              /\ IF Committable(f) THEN Fault ELSE UNCHANGED faults
    BY <1>4, <1>6 DEF deleteExternalSnapshot, j
  <2>3. faults' \in 0..MaxFaults
    BY <2>2, FaultType
  <2>4. CASE UNCHANGED files
    <3>1. Fault \/ UNCHANGED faults
      BY <2>2
    <3>2. UNCHANGED machine
      BY <1>3, <2>4 DEF machine
    <3> QED BY <1>1, <2>1, <2>2, <3>1, <3>2, QuietStep
  <2>5. CASE /\ Preserve(r) /\ files' = Without(f)
             /\ Window(Changed(r) \cup IF f \in Chain(disk) THEN {"under"} ELSE {})
    <3>1. files' = [g \in DOMAIN files \ {f} |-> files[g]]
      BY <2>5 DEF Without
    <3>2. MachineTyped'
      <4>1. files' \in [DOMAIN files' -> Images] /\ DOMAIN files' \subseteq 0..lastFile
        BY <3>1, MachineTypes
      <4> QED BY <1>3, <4>1 DEF SnapshotsTypeOK, MachineTyped
    <3>3. ASSUME missteps' = {}
          PROVE  /\ MachineGood' /\ lastFile =< lastFile' /\ BasesStay(files, lastFile, files')
                 /\ \A q \in Requests : At(q, "edit") => StaySpare(job[q].new)
                 /\ \A q \in Requests : At(q, "redefine") =>
                       disk' = disk /\ ReadsIn(files', job[q].base) = ReadsIn(files', disk)
      <4>1. f \notin ChainIn(files, disk) /\ snaps = job[r].snaps
        BY <2>5, <3>3 DEF Window, Changed, Chain
      <4>2. PICK n \in DOMAIN snaps : n = job[r].name /\ n \in Leaves /\ snaps[n].touched
                                       /\ snaps[n].overlay = f
        BY <1>2, <1>4, <4>1 DEF Chosen, Leaves
      <4>3. ASSUME NEW s \in DOMAIN snaps, ~ snaps[s].touched
            PROVE  /\ f \notin ChainIn(files, snaps[s].origin)
                   /\ snaps[s].overlay # None => snaps[s].overlay # f
        <5>1. f \in DOMAIN files => files[f].base # None
          BY <4>2, KnownEntry, NoneIsNoNumber DEF EntryGood
        <5>2. ChainIn(files, snaps[s].origin) \subseteq DOMAIN files
          BY KnownEntry
        <5>3. f \in DOMAIN files => f \notin ChainIn(files, snaps[s].origin)
          BY <4>2, <5>1, LeafOverlayIsFree DEF MachineGood
        <5>4. snaps[s].overlay # None => snaps[s].overlay # f
          BY <4>2, <4>3 DEF MachineGood, Apart
        <5> QED BY <5>2, <5>3, <5>4
      <4>4. {f} \cap ChainIn(files, disk) = {}
        BY <4>1
      <4>5. \A s \in DOMAIN snaps : ~ snaps[s].touched =>
               /\ {f} \cap ChainIn(files, snaps[s].origin) = {}
               /\ snaps[s].overlay # None => snaps[s].overlay \notin {f}
        BY <4>3
      <4>6. UNCHANGED <<lastFile, disk, snaps, seen>>
        BY <1>3
      <4> QED BY <3>1, <4>4, <4>5, <4>6, RemovedFiles
    <3> QED BY <1>1, <1>3, <2>1, <2>2, <2>3, <3>2, <3>3, TaskStep
  <2>6. CASE /\ All(r) /\ Committable(f) /\ files' = Commit(f)
             /\ Window(Changed(r) \cup IF Base(f) \in Chain(disk) THEN {"below"} ELSE {})
    <3>1. f \in DOMAIN files /\ files[f].base \in DOMAIN files /\ Base(f) = files[f].base
      BY <2>6 DEF Committable, Base
    <3>2. PICK b \in DOMAIN files : b = files[f].base
      BY <3>1
    <3>3. b \in Nat /\ b # f
      <4>1. files[f].base \in 0..f - 1
        BY <3>1, <3>2, ForestFile, MachineTypes, NoneIsNoNumber DEF MachineGood
      <4> QED BY <3>1, <3>2, <4>1, MachineTypes
    <3>4. /\ DOMAIN files' = DOMAIN files \ {f} /\ files' \in [DOMAIN files' -> Images]
          /\ \A g \in DOMAIN files' :
                /\ files'[g].base = files[g].base
                /\ g \notin {b} => files'[g] = files[g]
                /\ files'[g].data = None => files[g].data = None
      BY <2>6, <3>2, <3>1, <3>3, Committed
    <3>5. MachineTyped'
      <4>1. DOMAIN files' \subseteq 0..lastFile
        BY <3>4, MachineTypes
      <4> QED BY <1>3, <3>4, <4>1 DEF SnapshotsTypeOK, MachineTyped
    <3>6. ASSUME missteps' = {}
          PROVE  /\ MachineGood' /\ lastFile =< lastFile' /\ BasesStay(files, lastFile, files')
                 /\ \A q \in Requests : At(q, "edit") => StaySpare(job[q].new)
                 /\ \A q \in Requests : At(q, "redefine") =>
                       disk' = disk /\ ReadsIn(files', job[q].base) = ReadsIn(files', disk)
      <4>1. b \notin ChainIn(files, disk) /\ snaps = job[r].snaps
        BY <2>6, <3>1, <3>2, <3>6 DEF Window, Changed, Chain
      <4>2. \A s \in DOMAIN snaps : snaps[s].touched
        BY <1>2, <2>6, <4>1 DEF Chosen
      <4>3. f \notin ChainIn(files, disk)
        BY <3>1, <3>2, <4>1, ChainCloses, MachineTypes, NoneIsNoNumber DEF MachineGood
      <4>4. \A g \in ChainIn(files, disk) : g \in DOMAIN files' /\ files'[g] = files[g]
        BY <3>4, <4>1, <4>3, ChainIsBelow, MachineTypes DEF MachineGood
      <4>5. Forest(files')
        BY <3>4, FilesChange DEF MachineGood
      <4>6. /\ ReadsIn(files', disk) = seen
            /\ \A q \in Requests : At(q, "redefine") =>
                  ReadsIn(files', job[q].base) = ReadsIn(files', disk)
        BY <4>4, <4>5, SameBelowDisk
      <4>7. \A q \in Requests : At(q, "edit") => job[q].new # b /\ job[q].new # disk
        BY <3>1, <3>2 DEF JobsGood, EditGood, Spare
      <4>8. /\ \A q \in Requests : At(q, "edit") => job[q].new \notin {b} /\ job[q].new # disk'
            /\ DOMAIN files' \subseteq DOMAIN files /\ ReadsIn(files', disk') = seen'
            /\ UNCHANGED <<lastFile, snaps>>
        BY <1>3, <3>4, <4>6, <4>7
      <4>9. /\ MachineGood' /\ lastFile =< lastFile' /\ BasesStay(files, lastFile, files')
            /\ \A q \in Requests : At(q, "edit") => StaySpare(job[q].new)
        BY <3>4, <4>2, <4>8, FilesRewritten
      <4> QED BY <1>3, <4>6, <4>9
    <3> QED BY <1>1, <1>3, <2>1, <2>2, <2>3, <3>5, <3>6, TaskStep
  <2> QED BY <2>2, <2>4, <2>5, <2>6
<1> QED BY <1>5, <1>6

LEMMA NothingFolded ==
    ASSUME SnapshotsTypeOK, MachineGood, JobsGood, NEW r \in Requests,
           NothingToFold(r), UNCHANGED <<written, states, ask>>
    PROVE  SnapshotsInv'
<1>1. job[r] # None /\ job[r].name \in SnapshotNames \cup {None}
  BY JobAt, JobType DEF NothingToFold
<1>2. PICK pc \in {"end", "metadata", "cleanup"} : To(r, Fresh(pc, job[r].name))
  <2>1. CASE job[r].site = "files"
    BY <2>1 DEF NothingToFold
  <2>2. CASE job[r].site = "mismatch"
    BY <2>2 DEF NothingToFold
  <2>3. CASE job[r].site # "files" /\ job[r].site # "mismatch"
    BY <2>3 DEF NothingToFold
  <2> QED BY <2>1, <2>2, <2>3
<1>3. Fresh(pc, job[r].name) \in Jobs /\ Quiet(Fresh(pc, job[r].name))
  BY <1>1, FreshQuiet
<1>4. UNCHANGED machine /\ UNCHANGED faults
  BY DEF NothingToFold
<1> QED BY <1>1, <1>2, <1>3, <1>4, QuietStep

LEMMA KeptFolded ==
    ASSUME SnapshotsTypeOK, MachineGood, JobsGood, NEW r \in Requests,
           FoldKept(r), UNCHANGED <<written, states, ask>>
    PROVE  SnapshotsInv'
<1>1. job[r] # None /\ job[r].name \in SnapshotNames \cup {None}
  BY JobAt, JobType DEF FoldKept
<1>2. UNCHANGED <<lastFile, disk, power, snaps, current, seen, faults>>
  BY DEF FoldKept
<1>3. CASE job[r].site # "files"
  <2>1. End(r) /\ UNCHANGED machine
    BY <1>2, <1>3 DEF FoldKept, machine
  <2> QED BY <1>1, <1>2, <2>1, Ends
<1>4. CASE job[r].site = "files"
  <2>1. /\ files' = Without(job[r].disk) /\ To(r, Fresh("metadata", job[r].name))
        /\ missteps' # {}
    BY <1>4 DEF FoldKept, Window
  <2>2. Fresh("metadata", job[r].name) \in Jobs
    BY <1>1, FreshQuiet
  <2>3. MachineTyped'
    <3>1. files' \in [DOMAIN files' -> Images] /\ DOMAIN files' \subseteq 0..lastFile
      BY <2>1, MachineTypes DEF Without
    <3> QED BY <1>2, <3>1 DEF SnapshotsTypeOK, MachineTyped
  <2> QED BY <1>1, <1>2, <2>1, <2>2, <2>3, FaultType, TaskStep
<1> QED BY <1>3, <1>4

LEMMA CommandFailed ==
    ASSUME SnapshotsTypeOK, MachineGood, JobsGood, NEW r \in Requests,
           CommandFails(r), UNCHANGED <<written, states, ask>>
    PROVE  SnapshotsInv'
<1>1. job[r] # None /\ Fault /\ End(r) /\ UNCHANGED machine
  BY DEF CommandFails, Fail, At
<1> QED BY <1>1, Ends

-----------------------------------------------------------------------------
(* The overlay of the disk is folded.                                      *)

(* The file it is committed to is below no snapshot that is kept: it would *)
(* be a restore point.                                                     *)
LEMMA CommitTarget ==
    ASSUME SnapshotsTypeOK, MachineGood, JobsGood, NEW r \in Requests,
           NEW pc \in {"fold", "redefine"}, At(r, pc), ~ IsKept(r), ~ Stale(r),
           disk \in DOMAIN files,
           NEW b \in Nat, b = files[disk].base, NEW s \in DOMAIN snaps, ~ snaps[s].touched
    PROVE  b \notin FixedIn(files, snaps[s])
<1>1. SUFFICES ASSUME b \in FixedIn(files, snaps[s]) PROVE FALSE
  OBVIOUS
<1>2. job[r] # None /\ job[r] \in Jobs /\ job[r].pc \in {"fold", "redefine"}
  BY JobAt
<1>3. disk = job[r].disk /\ snaps = job[r].snaps /\ ChoiceGood(r)
  BY NotStale DEF JobsGood
<1>4. /\ job[r].site # "none" /\ job[r].kept = KeptBy(job[r]) /\ job[r].base = b
      /\ job[r].site \in {"files", "mismatch"} => Chosen(r)
      /\ job[r].site = "residual" => ~ All(r)
  BY <1>2, <1>3 DEF ChoiceGood, Folding, Deleting
<1>5. job[r].site \in {"files", "mismatch", "residual"}
  <2>1. job[r].site # "last"
    BY NotStale
  <2> QED BY <1>2, <1>4, <2>1, JobType
<1>6. /\ ~ All(r)
      /\ job[r].name \in DOMAIN snaps =>
            snaps[job[r].name].touched /\ \A t \in DOMAIN snaps : snaps[t].parent # job[r].name
  <2>1. CASE job[r].site = "residual"
    BY <1>4, <2>1, NotStale
  <2>2. CASE job[r].site # "residual"
    BY <1>3, <1>4, <1>5, <2>2 DEF Chosen
  <2> QED BY <2>1, <2>2
<1>7. b \notin KeptBy(job[r])
  BY <1>4, <1>6 DEF IsKept, Preserve
<1>8. \A u \in DOMAIN snaps \ {job[r].name} : snaps[u].overlay # None => snaps[u].origin # b
  BY <1>3, <1>7 DEF KeptBy
<1>9. b \in ChainIn(files, snaps[s].origin) /\ s # job[r].name
  BY <1>1, <1>6, FixedIsInChain
<1>10. CASE b = snaps[s].origin
  <2>1. snaps[s].overlay # None
    BY <1>1, <1>10 DEF FixedIn
  <2> QED BY <1>8, <1>9, <1>10, <2>1
<1>11. CASE b # snaps[s].origin
  <2>1. PICK u \in DOMAIN snaps :
           /\ snaps[u].overlay # None /\ snaps[u].origin = b
           /\ \E t \in DOMAIN snaps : snaps[t].parent = u
    BY <1>9, <1>11, LowerFilesAreRestorePoints DEF MachineGood
  <2>2. u # job[r].name
    BY <1>6, <2>1
  <2> QED BY <1>8, <2>1, <2>2
<1> QED BY <1>10, <1>11

LEMMA FoldedPlace ==
    ASSUME SnapshotsTypeOK, NEW r \in Requests, job[r] # None
    PROVE  /\ Fresh(Folded(r), job[r].name) \in Jobs /\ Quiet(Fresh(Folded(r), job[r].name))
           /\ Fresh("end", job[r].name) \in Jobs /\ Quiet(Fresh("end", job[r].name))
<1>1. job[r].name \in SnapshotNames \cup {None}
  BY JobType DEF SnapshotsTypeOK
<1>2. Folded(r) \in {"metadata", "retry", "cleanup"}
  <2>1. CASE job[r].site = "files"
    BY <2>1 DEF Folded
  <2>2. CASE job[r].site = "mismatch"
    BY <2>2 DEF Folded
  <2>3. CASE job[r].site # "files" /\ job[r].site # "mismatch"
    BY <2>3 DEF Folded
  <2> QED BY <2>1, <2>2, <2>3
<1> QED BY <1>1, <1>2, FreshQuiet

(* The disk, before and after its overlay is committed.                    *)
LEMMA DiskCommitted ==
    ASSUME SnapshotsTypeOK, MachineGood, disk \in DOMAIN files, files[disk].base # None,
           NEW gs, gs \in [DOMAIN gs -> Images], DOMAIN gs \subseteq DOMAIN files,
           DOMAIN files \ {disk} \subseteq DOMAIN gs,
           \A g \in DOMAIN gs :
              /\ gs[g].base = files[g].base
              /\ g # files[disk].base => gs[g] = files[g],
           gs[files[disk].base].data =
              IF files[disk].data = None THEN files[files[disk].base].data ELSE files[disk].data
    PROVE  /\ Forest(gs) /\ files[disk].base \in DOMAIN files \cap Nat /\ files[disk].base # disk
           /\ ReadsIn(gs, files[disk].base) = seen
           /\ disk \in DOMAIN gs => ReadsIn(gs, disk) = seen
<1>1. /\ Forest(files) /\ disk \in Nat /\ lastFile \in Nat
      /\ ReadsIn(files, disk) # None /\ ReadsIn(files, disk) = seen
  BY MachineTypes DEF MachineGood, Reads
<1>2. PICK b \in Nat : b = files[disk].base /\ b # disk /\ b \in DOMAIN files
        /\ ReadsIn(files, b) # None
        /\ ReadsIn(files, disk) = IF files[disk].data = None THEN ReadsIn(files, b) ELSE files[disk].data
  <2>1. files[disk].base \in 0..disk - 1
    BY <1>1, ReadableFile
  <2> QED BY <1>1, <2>1, ReadableFile
<1>3. Forest(gs)
  BY <1>1, FilesChange
<1>4. b \in DOMAIN gs /\ gs[b].base = files[b].base
      /\ gs[b].data = IF files[disk].data = None THEN files[b].data ELSE files[disk].data
  BY <1>2
<1>5. ReadsIn(gs, b) = seen
  <2>1. CASE files[b].base = None
    <3>1. ReadsIn(gs, b) = gs[b].data
      BY <1>3, <1>4, <2>1, ReadsIs
    <3>2. ReadsIn(files, b) = files[b].data
      BY <1>1, <1>2, <2>1, ReadableFile
    <3> QED BY <1>1, <1>2, <1>4, <3>1, <3>2
  <2>2. CASE files[b].base # None
    <3>1. PICK c \in Nat : c = files[b].base /\ c # None /\ ~ (b =< c)
      <4>1. files[b].base \in 0..b - 1
        BY <1>1, <1>2, <2>2, ReadableFile
      <4> QED BY <2>2, <4>1
    <3>2. /\ ReadsIn(files, c) # None /\ ChainIn(files, c) \subseteq DOMAIN files \cap 0..c
          /\ ReadsIn(files, b) = IF files[b].data = None THEN ReadsIn(files, c) ELSE files[b].data
      BY <1>1, <1>2, <2>2, <3>1, ReadableFile, ChainIsBelow
    <3>3. disk \notin 0..c /\ b \notin 0..c
      <4>1. b \in 0..disk - 1
        BY <1>1, <1>2, ReadableFile, NoneIsNoNumber
      <4> QED BY <1>1, <3>1, <4>1
    <3>4. ReadsIn(gs, c) = ReadsIn(files, c)
      <4>1. \A g \in ChainIn(files, c) : g \in DOMAIN gs /\ gs[g] = files[g]
        BY <1>2, <3>2, <3>3
      <4> QED BY <1>1, <1>3, <3>2, <4>1, SameChain
    <3>5. ReadsIn(gs, b) = IF gs[b].data = None THEN ReadsIn(files, c) ELSE gs[b].data
      BY <1>3, <1>4, <3>1, <3>2, <3>4, ReadsIs
    <3> QED BY <1>1, <1>2, <1>4, <3>2, <3>5
  <2> QED BY <2>1, <2>2
<1>6. ASSUME disk \in DOMAIN gs PROVE ReadsIn(gs, disk) = seen
  <2>1. gs[disk] = files[disk]
    BY <1>2, <1>6
  <2>2. ReadsIn(gs, b) # None
    BY <1>1, <1>5
  <2>3. ReadsIn(gs, disk) = IF gs[disk].data = None THEN ReadsIn(gs, b) ELSE gs[disk].data
    BY <1>1, <1>2, <1>3, <1>6, <2>1, <2>2, ReadsIs
  <2> QED BY <1>1, <1>2, <1>5, <2>1, <2>3
<1> QED BY <1>2, <1>3, <1>5, <1>6

(* commitActiveExternalOverlay: the disk moves to the file below it, which *)
(* gets what it holds.                                                     *)
LEMMA RunningCommitted ==
    ASSUME SnapshotsTypeOK, MachineGood, JobsGood, NEW r \in Requests,
           FoldRunning(r), ~ IsKept(r), UNCHANGED <<written, states, ask>>,
           Running /\ Reads(disk) # None /\ Base(disk) # None
    PROVE  SnapshotsInv'
<1>1. job[r] # None /\ At(r, "fold")
  BY JobAt DEF FoldRunning
<1>2. /\ disk' = Base(disk) /\ files' = Commit(disk)
      /\ To(r, Fresh(IF disk' = job[r].disk THEN "end" ELSE Folded(r), job[r].name))
      /\ Window(Overtaken(r) \cup Swallowed(disk))
      /\ UNCHANGED <<lastFile, power, snaps, current, seen, faults>>
  BY DEF FoldRunning, commitActiveExternalOverlay
<1>3. /\ disk \in Nat /\ Forest(files) /\ ReadsIn(files, disk) # None /\ disk \in DOMAIN files
      /\ Base(disk) = files[disk].base /\ files[disk].base # None
  BY ReadableFile, MachineTypes DEF MachineGood, Reads, Base
<1>4. PICK b \in DOMAIN files \cap Nat : b = files[disk].base /\ b # disk
  BY <1>3, ReadableFile
<1>5. /\ DOMAIN files' = DOMAIN files \ {disk} /\ files' \in [DOMAIN files' -> Images]
      /\ files'[b].data = (IF files[disk].data = None THEN files[b].data ELSE files[disk].data)
      /\ \A g \in DOMAIN files' :
            /\ files'[g].base = files[g].base
            /\ g \notin {b} => files'[g] = files[g]
            /\ files'[g].data = None => files[g].data = None
  BY <1>2, <1>3, <1>4, Committed
<1>6. ReadsIn(files', b) = seen
  BY <1>3, <1>4, <1>5, DiskCommitted
<1>7. PICK j \in Jobs : Quiet(j) /\ To(r, j)
  BY <1>1, <1>2, FoldedPlace
<1>8. MachineTyped'
  <2>1. DOMAIN files' \subseteq 0..lastFile /\ b \in 0..lastFile
    BY <1>4, <1>5, MachineTypes
  <2> QED BY <1>2, <1>3, <1>4, <1>5, <2>1 DEF SnapshotsTypeOK, MachineTyped
<1>9. faults' \in 0..MaxFaults
  BY <1>2, FaultType
<1>10. ASSUME missteps' = {}
       PROVE  /\ MachineGood' /\ lastFile =< lastFile' /\ BasesStay(files, lastFile, files')
              /\ \A q \in Requests : At(q, "edit") => StaySpare(job[q].new)
  <2>1. /\ ~ Stale(r)
        /\ \A s \in DOMAIN snaps : ~ snaps[s].touched =>
              disk # snaps[s].origin /\ disk # snaps[s].overlay
    BY <1>2, <1>10 DEF Window, Overtaken, Swallowed
  <2>2. ASSUME NEW s \in DOMAIN snaps, ~ snaps[s].touched
        PROVE  /\ {b} \cap FixedIn(files, snaps[s]) = {}
               /\ ChainIn(files, snaps[s].origin) \subseteq DOMAIN files'
               /\ snaps[s].overlay # None => snaps[s].overlay \in DOMAIN files'
               /\ disk' \notin FixedIn(files, snaps[s])
    <3>1. b \notin FixedIn(files, snaps[s])
      BY <1>1, <1>3, <1>4, <2>1, <2>2, CommitTarget
    <3>2. Survives(files, disk, snaps[s]) /\ ChainIn(files, snaps[s].origin) \subseteq DOMAIN files
      BY <2>2, KnownEntry
    <3>3. disk \notin ChainIn(files, snaps[s].origin)
      BY <2>1, <2>2, <3>2 DEF Survives, FixedIn
    <3> QED BY <1>2, <1>3, <1>4, <1>5, <2>1, <2>2, <3>1, <3>2, <3>3 DEF Survives
  <2>3. /\ \A q \in Requests : At(q, "edit") => job[q].new \notin {b} /\ job[q].new # disk'
        /\ DOMAIN files' \subseteq DOMAIN files /\ ReadsIn(files', disk') = seen'
        /\ UNCHANGED <<lastFile, snaps>>
    <3>1. \A q \in Requests : At(q, "edit") => job[q].new # b
      BY <1>3, <1>4 DEF JobsGood, EditGood, Spare
    <3> QED BY <1>2, <1>3, <1>4, <1>5, <1>6, <3>1
  <2> QED BY <1>5, <2>2, <2>3, FilesRewritten
<1>11. \A q \in Requests : ~ At(q, "redefine")
  BY DiskOfCommitted
<1> QED BY <1>1, <1>2, <1>7, <1>8, <1>9, <1>10, <1>11, TaskStep

(* copyActiveExternalOverlayToStandalone: the disk moves to a file of its  *)
(* own that reads the same.                                                *)
LEMMA RunningCopied ==
    ASSUME SnapshotsTypeOK, MachineGood, JobsGood, NEW r \in Requests,
           FoldRunning(r), IsKept(r), UNCHANGED <<written, states, ask>>,
           Running /\ Reads(disk) # None
    PROVE  SnapshotsInv'
<1>0. PICK f \in Nat : f = lastFile + 1
  BY MachineTypes
<1> DEFINE image == [files[disk] EXCEPT !.base = None, !.data = Reads(disk)]
           old == job[r].disk
<1>1. job[r] # None /\ At(r, "fold") /\ old \in 0..lastFile
  BY JobAt DEF FoldRunning, At, JobsGood, ChoiceGood, Folding
<1>2. /\ disk' = f /\ lastFile' = f /\ files' = With(Without(old), f, image)
      /\ To(r, Fresh(IF disk' = old THEN "end" ELSE Folded(r), job[r].name))
      /\ Window(Overtaken(r) \cup Swallowed(disk))
      /\ UNCHANGED <<power, snaps, current, seen, faults>>
  BY <1>0 DEF FoldRunning, copyActiveExternalOverlayToStandalone
<1>3. /\ disk \in Nat /\ Forest(files) /\ ReadsIn(files, disk) # None /\ disk \in DOMAIN files
      /\ ReadsIn(files, disk) = seen /\ seen \in Contents
      /\ lastFile \in Nat /\ f # lastFile /\ lastFile =< f /\ ~ (f =< lastFile)
      /\ DOMAIN files \subseteq 0..lastFile
  BY <1>0, ReadableFile, MachineTypes DEF MachineGood, Reads
<1>4. image \in Images /\ image.base = None /\ image.data = seen
  <2>1. files[disk] \in Images /\ Reads(disk) = seen
    BY <1>3, MachineTypes DEF Reads
  <2> QED BY <1>3, <2>1 DEF Images
<1> HIDE DEF image
<1>5. /\ DOMAIN files' = (DOMAIN files \ {old}) \cup {f} /\ files'[f] = image
      /\ \A g \in DOMAIN files \ {old} : files'[g] = files[g]
      /\ files' \in [DOMAIN files' -> Images]
  <2>1. f \notin DOMAIN files
    BY <1>3
  <2>2. \A g \in DOMAIN files : files[g] \in Images
    BY MachineTypes
  <2>3. /\ DOMAIN files' = (DOMAIN files \ {old}) \cup {f} /\ files'[f] = image
        /\ \A g \in DOMAIN files \ {old} : files'[g] = files[g]
    BY <1>2, <2>1 DEF With, Without
  <2>4. files' = [g \in DOMAIN files' |-> files'[g]]
    BY <1>2 DEF With, Without
  <2>5. \A g \in DOMAIN files' : files'[g] \in Images
    BY <1>4, <2>2, <2>3
  <2> QED BY <2>3, <2>4, <2>5
<1>6. Forest(files') /\ BasesStay(files, lastFile, files')
  <2>1. DOMAIN files' \subseteq Nat
    BY <1>3, <1>5
  <2>2. \A g \in DOMAIN files' : files'[g].base = None \/ files'[g].base < g
    BY <1>3, <1>4, <1>5 DEF Forest
  <2> QED BY <1>3, <1>5, <2>1, <2>2 DEF Forest, BasesStay
<1>7. ReadsIn(files', disk') = seen'
  BY <1>2, <1>4, <1>5, <1>6, ReadsIs
<1>8. PICK j \in Jobs : Quiet(j) /\ To(r, j)
  BY <1>1, <1>2, FoldedPlace
<1>9. MachineTyped'
  <2>1. DOMAIN files' \subseteq 0..f /\ disk' \in 0..f
    BY <1>2, <1>3, <1>5
  <2> QED BY <1>2, <1>5, <2>1 DEF SnapshotsTypeOK, MachineTyped
<1>10. faults' \in 0..MaxFaults
  BY <1>2, FaultType
<1>11. ASSUME missteps' = {} PROVE MachineGood'
  <2>1. /\ disk = old
        /\ \A s \in DOMAIN snaps : ~ snaps[s].touched =>
              disk # snaps[s].origin /\ disk # snaps[s].overlay
    BY <1>2, <1>11, NotStale DEF Window, Overtaken, Swallowed
  <2>2. ASSUME NEW s \in DOMAIN snaps, ~ snaps[s].touched
        PROVE  Survives(files', disk', snaps[s])
    <3>1. /\ Survives(files, disk, snaps[s]) /\ ChainIn(files, snaps[s].origin) \subseteq DOMAIN files
      BY <2>2, KnownEntry
    <3>2. disk \notin ChainIn(files, snaps[s].origin)
      BY <2>1, <2>2, <3>1 DEF Survives, FixedIn
    <3>3. \A g \in ChainIn(files, snaps[s].origin) : g \in DOMAIN files' /\ files'[g] = files[g]
      BY <1>5, <2>1, <3>1, <3>2
    <3>4. snaps[s].overlay # None => snaps[s].overlay \in DOMAIN files'
      BY <1>5, <2>1, <2>2, <3>1 DEF Survives
    <3>5. disk' \notin FixedIn(files, snaps[s])
      BY <1>2, <1>3, <3>1, FixedIsInChain
    <3> QED BY <1>6, <2>2, <3>3, <3>4, <3>5, SnapshotSurvives
  <2>3. snaps' = snaps /\ lastFile' \in Nat /\ lastFile =< lastFile'
    BY <1>2, <1>3
  <2> QED BY <1>6, <1>7, <2>2, <2>3, MachineStays
<1>12. ASSUME NEW q \in Requests, At(q, "edit"), disk = old PROVE StaySpare(job[q].new)
  <2>1. Spare(job[q].new) /\ job[q].new \in 0..lastFile
    BY <1>12 DEF JobsGood, EditGood, Spare
  <2>2. job[q].new # f /\ job[q].new # None
    BY <1>3, <2>1, NoneIsNoNumber
  <2>3. \A g \in DOMAIN files' : g > lastFile => files'[g].base # job[q].new
    BY <1>3, <1>4, <1>5, <2>2
  <2> QED BY <1>2, <1>5, <2>1, <2>2, <2>3 DEF Spare, StaySpare
<1>13. \A q \in Requests : ~ At(q, "redefine")
  BY DiskOfCommitted
<1>14. missteps' = {} => disk = old
  BY <1>2, NotStale DEF Window, Overtaken
<1>15. lastFile =< lastFile'
  BY <1>2, <1>3
<1> QED BY <1>1, <1>6, <1>8, <1>9, <1>10, <1>11, <1>12, <1>13, <1>14, <1>15, TaskStep

LEMMA RunningFolded ==
    ASSUME SnapshotsTypeOK, MachineGood, JobsGood, NEW r \in Requests,
           FoldRunning(r), UNCHANGED <<written, states, ask>>
    PROVE  SnapshotsInv'
<1>1. CASE Running /\ Reads(disk) # None /\ (IsKept(r) \/ Base(disk) # None)
  BY <1>1, RunningCommitted, RunningCopied
<1>2. CASE ~ (Running /\ Reads(disk) # None /\ (IsKept(r) \/ Base(disk) # None))
  <2>1. job[r] # None
    BY JobAt DEF FoldRunning
  <2>2. End(r) /\ UNCHANGED machine /\ UNCHANGED faults
    BY <1>2 DEF FoldRunning, machine
  <2> QED BY <2>1, <2>2, Ends
<1> QED BY <1>1, <1>2

(* commitInactiveExternalOverlay: the file below gets what the disk holds, *)
(* which it then reads either way.                                         *)
LEMMA InactiveCommitted ==
    ASSUME SnapshotsTypeOK, MachineGood, JobsGood, NEW r \in Requests,
           commitInactiveExternalOverlay(r), UNCHANGED <<written, states, ask>>
    PROVE  SnapshotsInv'
<1>1. /\ job[r] # None /\ At(r, "fold") /\ job[r] \in Jobs /\ job[r].pc = "fold"
      /\ job[r].base # None /\ ~ job[r].on /\ ~ IsKept(r)
  BY JobAt DEF commitInactiveExternalOverlay, Foldable
<1>2. UNCHANGED <<lastFile, disk, power, snaps, current, seen, faults>>
  BY DEF commitInactiveExternalOverlay
<1>3. CASE ~ Committable(job[r].disk)
  <2>1. End(r) /\ UNCHANGED machine
    BY <1>2, <1>3 DEF commitInactiveExternalOverlay, machine
  <2> QED BY <1>1, <1>2, <2>1, Ends
<1>4. CASE Committable(job[r].disk)
  <2>1. PICK f \in DOMAIN files : f = job[r].disk
    BY <1>4 DEF Committable
  <2>2. /\ files' = With(Commit(f), f, files[f]) /\ GoTo(r, "redefine") /\ Window(Overtaken(r))
        /\ files[f].base \in DOMAIN files
    BY <1>4, <2>1 DEF commitInactiveExternalOverlay, Committable, Base
  <2>3. PICK b \in DOMAIN files \cap Nat : b = files[f].base /\ b # f /\ b # None
    <3>2. files[f].base \in 0..f - 1 /\ f \in Nat /\ DOMAIN files \subseteq Nat
      BY <2>2, ForestFile, MachineTypes, NoneIsNoNumber DEF MachineGood
    <3>3. files[f].base # f /\ files[f].base \in Nat /\ files[f].base # None
      BY <3>2, NoneIsNoNumber
    <3> QED BY <2>2, <3>3
  <2> DEFINE gs == Commit(f)
  <2>4. /\ DOMAIN gs = DOMAIN files \ {f} /\ gs \in [DOMAIN gs -> Images]
        /\ gs[b].data = (IF files[f].data = None THEN files[b].data ELSE files[f].data)
        /\ \A g \in DOMAIN gs :
              /\ gs[g].base = files[g].base
              /\ g \notin {b} => gs[g] = files[g]
              /\ gs[g].data = None => files[g].data = None
    BY <2>3, Committed
  <2> HIDE DEF gs
  <2>5. /\ DOMAIN files' = DOMAIN files /\ files' \in [DOMAIN files' -> Images]
        /\ files'[b].data = (IF files[f].data = None THEN files[b].data ELSE files[f].data)
        /\ \A g \in DOMAIN files' :
              /\ files'[g].base = files[g].base
              /\ g \notin {b} => files'[g] = files[g]
              /\ files'[g].data = None => files[g].data = None
    <3>1. files' = With(gs, f, files[f])
      BY <2>2 DEF gs
    <3>2. /\ DOMAIN files' = DOMAIN files /\ files'[f] = files[f]
          /\ \A g \in DOMAIN files \ {f} : files'[g] = gs[g]
          /\ files' = [g \in DOMAIN files' |-> files'[g]]
      BY <2>4, <3>1 DEF With
    <3>3. \A g \in DOMAIN files : files[g] \in Images
      BY MachineTypes
    <3>4. \A g \in DOMAIN files' : files'[g] \in Images
      BY <2>4, <3>2, <3>3
    <3>5. files' \in [DOMAIN files' -> Images]
      BY <3>2, <3>4
    <3>6. \A g \in DOMAIN files' :
              /\ files'[g].base = files[g].base
              /\ g \notin {b} => files'[g] = files[g]
              /\ files'[g].data = None => files[g].data = None
      BY <2>4, <3>2
    <3>7. files'[b] = gs[b]
      BY <2>3, <3>2
    <3> QED BY <2>4, <3>2, <3>5, <3>6, <3>7
  <2>6. MachineTyped'
    <3>1. DOMAIN files' \subseteq 0..lastFile
      BY <2>5, MachineTypes
    <3> QED BY <1>2, <2>5, <3>1 DEF SnapshotsTypeOK, MachineTyped
  <2> DEFINE j == [job[r] EXCEPT !.pc = "redefine"]
  <2>7. /\ j \in Jobs /\ j.pc = "redefine" /\ j.name = job[r].name /\ j.site = job[r].site
        /\ j.disk = f /\ j.base = job[r].base /\ j.snaps = job[r].snaps /\ j.on = job[r].on
        /\ j.kept = job[r].kept /\ j.snap = job[r].snap
    <3>1. "redefine" \in Places
      BY DEF Places
    <3> QED BY <1>1, <2>1, <3>1, GoToType
  <2>8. To(r, j)
    BY <2>2 DEF GoTo
  <2> HIDE DEF j
  <2>9. faults' \in 0..MaxFaults
    BY <1>2, FaultType
  <2>10. job'[r] = j /\ \A q \in Requests \ {r} : job'[q] = job[q]
    BY <1>1, <2>6, <2>7, <2>8, <2>9, TypesStep
  <2>11. /\ job[r].site # "none" /\ job[r].kept = KeptBy(job[r]) /\ job[r].base = b
         /\ job[r].disk \in 0..lastFile
         /\ job[r].site \in {"files", "mismatch"} => Chosen(r) /\ job[r].snap # None
         /\ job[r].site = "residual" => ~ All(r)
    BY <1>1, <2>1, <2>3 DEF JobsGood, ChoiceGood, Folding, Deleting
  <2>12. ASSUME missteps' = {}
         PROVE  /\ ~ Stale(r) /\ disk = f /\ ~ Running
    <3>1. ~ Stale(r)
      BY <2>2, <2>12 DEF Window, Overtaken
    <3> QED BY <1>1, <2>1, <3>1, NotStale
  <2>13. ASSUME missteps' = {}
         PROVE  ReadsIn(files', disk) = seen /\ ReadsIn(files', b) = seen
    <3>1. disk = f
      BY <2>12, <2>13
    <3> QED BY <2>3, <2>5, <3>1, DiskCommitted
  <2>14. ASSUME missteps' = {}
         PROVE  /\ MachineGood' /\ lastFile =< lastFile' /\ BasesStay(files, lastFile, files')
                /\ \A q \in Requests : At(q, "edit") => StaySpare(job[q].new)
    <3>1. ASSUME NEW s \in DOMAIN snaps, ~ snaps[s].touched
          PROVE  /\ {b} \cap FixedIn(files, snaps[s]) = {}
                 /\ ChainIn(files, snaps[s].origin) \subseteq DOMAIN files'
                 /\ snaps[s].overlay # None => snaps[s].overlay \in DOMAIN files'
                 /\ disk' \notin FixedIn(files, snaps[s])
      <4>1. disk \in DOMAIN files /\ b = files[disk].base /\ ~ Stale(r)
        BY <2>12, <2>14, <2>3
      <4>2. b \notin FixedIn(files, snaps[s])
        BY <1>1, <2>3, <3>1, <4>1, CommitTarget
      <4>3. Survives(files, disk, snaps[s]) /\ ChainIn(files, snaps[s].origin) \subseteq DOMAIN files
        BY <3>1, KnownEntry
      <4> QED BY <1>2, <2>5, <4>2, <4>3 DEF Survives
    <3>2. /\ \A q \in Requests : At(q, "edit") => job[q].new \notin {b} /\ job[q].new # disk'
          /\ DOMAIN files' \subseteq DOMAIN files /\ ReadsIn(files', disk') = seen'
          /\ UNCHANGED <<lastFile, snaps>>
      <4>1. \A q \in Requests : At(q, "edit") => job[q].new # b /\ job[q].new # disk
        BY <2>3 DEF JobsGood, EditGood, Spare
      <4> QED BY <1>2, <2>5, <2>13, <2>14, <4>1
    <3> QED BY <2>5, <3>1, <3>2, FilesRewritten
  <2>15. ASSUME missteps' = {}, NEW q \in Requests, At(q, "redefine")
         PROVE  ReadsIn(files', job[q].base) = ReadsIn(files', disk)
    <3>1. files[disk].base = job[q].base
      BY <2>15, DiskOfCommitted
    <3> QED BY <2>3, <2>12, <2>13, <2>15, <3>1
  <2>16. EditGood(r)'
    BY <2>7, <2>10 DEF EditGood, At
  <2>17. ASSUME missteps' = {} PROVE ChoiceGood(r)'
    <3>1. job[r].site \in {"files", "mismatch"} => Chosen(r)'
      <4>1. All(r)' <=> All(r)
        BY DEF All
      <4> QED BY <2>7, <2>10, <2>11, <4>1 DEF Chosen
    <3>2. j.kept = KeptBy(j) /\ (All(r)' <=> All(r))
      BY <2>7, <2>11 DEF KeptBy, All
    <3>3. ~ IsKept(r)' /\ ~ Running' /\ disk' = j.disk
      BY <1>1, <1>2, <2>7, <2>10, <2>12, <2>17, <3>2 DEF IsKept, Preserve, Running
    <3>4. ReadsIn(files', job'[r].base) = ReadsIn(files', disk') /\ j.base # None
      <4>1. j.base = b /\ job'[r].base = j.base
        BY <2>7, <2>10, <2>11
      <4> QED BY <1>2, <2>3, <2>13, <2>17, <4>1
    <3>5. j.disk \in 0..lastFile' /\ files'[j.disk].base = j.base
      BY <1>2, <2>1, <2>3, <2>5, <2>7, <2>11
    <3>6. /\ job'[r] = j /\ j.pc = "redefine" /\ ~ j.on /\ j.site # "none"
          /\ j.site = "residual" => ~ All(r)'
          /\ j.site \in {"files", "mismatch"} => Chosen(r)' /\ j.snap # None
      BY <1>1, <2>7, <2>10, <2>11, <3>1, <3>2
    <3> QED BY <3>2, <3>3, <3>4, <3>5, <3>6 DEF ChoiceGood, Folding, Deleting, Reads
  <2>18. \A q \in Requests \ {r} : EditsApart(q, r)' /\ EditsApart(r, q)'
    BY <2>7, <2>10 DEF EditsApart, At
  <2> QED BY <1>1, <1>2, <2>6, <2>7, <2>8, <2>9, <2>14, <2>15, <2>16, <2>17, <2>18, TaskStep
<1> QED BY <1>3, <1>4

(* replaceVMDiskSource: the machine, which nobody has touched since, gets  *)
(* the file below.                                                         *)
LEMMA DiskReplaced ==
    ASSUME SnapshotsTypeOK, MachineGood, JobsGood, NEW r \in Requests,
           replaceVMDiskSource(r), UNCHANGED <<written, states, ask>>
    PROVE  SnapshotsInv'
<1>1. /\ job[r] # None /\ At(r, "redefine") /\ job[r] \in Jobs
  BY JobAt DEF replaceVMDiskSource
<1>2. /\ UNCHANGED <<lastFile, power, snaps, current, seen, faults>>
      /\ disk' = (IF disk = job[r].disk THEN job[r].base ELSE disk)
      /\ files' = Without(job[r].disk) /\ To(r, Fresh(Folded(r), job[r].name))
      /\ Window(Overtaken(r) \cup Redefining(Requests \ {r}) \cup Swallowed(job[r].disk))
  BY DEF replaceVMDiskSource
<1>3. /\ disk = job[r].disk /\ disk \in DOMAIN files /\ ~ Running
      /\ ReadsIn(files, job[r].base) = ReadsIn(files, disk)
  BY <1>1, DiskOfCommitted
<1>4. PICK b \in Nat : b = job[r].base /\ b = files[disk].base /\ b # None
  BY <1>1, DiskOfCommitted, NoneIsNoNumber
<1>5. disk \in Nat /\ Forest(files) /\ ReadsIn(files, disk) # None /\ ReadsIn(files, disk) = seen
  BY MachineTypes DEF MachineGood, Reads
<1>6. b \in 0..disk - 1 /\ b \in DOMAIN files
  BY <1>4, <1>5, ReadableFile
<1>7. disk' = b /\ files' = [g \in DOMAIN files \ {disk} |-> files[g]]
  BY <1>2, <1>3, <1>4 DEF Without
<1>8. /\ DOMAIN files' = DOMAIN files \ {disk} /\ files' \in [DOMAIN files' -> Images]
      /\ \A g \in DOMAIN files' : files'[g] = files[g]
  BY <1>7, MachineTypes
<1>9. PICK j \in Jobs : Quiet(j) /\ To(r, j)
  BY <1>1, <1>2, FoldedPlace
<1>10. MachineTyped'
  <2>1. DOMAIN files' \subseteq 0..lastFile /\ disk' \in 0..lastFile
    BY <1>6, <1>7, <1>8, MachineTypes
  <2> QED BY <1>2, <1>8, <2>1 DEF SnapshotsTypeOK, MachineTyped
<1>11. faults' \in 0..MaxFaults
  BY <1>2, FaultType
<1>12. Forest(files')
  BY <1>5, <1>8, FilesChange
<1>13. ReadsIn(files', b) = seen
  <2>1. ChainIn(files, b) \subseteq DOMAIN files \cap 0..b
    BY <1>5, ChainIsBelow
  <2>2. disk \notin 0..b
    BY <1>5, <1>6
  <2>3. \A g \in ChainIn(files, b) : g \in DOMAIN files' /\ files'[g] = files[g]
    BY <1>8, <2>1, <2>2
  <2> QED BY <1>3, <1>4, <1>5, <1>12, <2>3, SameChain
<1>14. ASSUME missteps' = {}
       PROVE  /\ MachineGood' /\ lastFile =< lastFile' /\ BasesStay(files, lastFile, files')
              /\ \A q \in Requests : At(q, "edit") => StaySpare(job[q].new)
              /\ \A q \in Requests \ {r} : ~ At(q, "redefine")
  <2>1. /\ ~ Stale(r) /\ \A q \in Requests \ {r} : ~ At(q, "redefine")
        /\ \A s \in DOMAIN snaps : ~ snaps[s].touched =>
              disk # snaps[s].origin /\ disk # snaps[s].overlay
    BY <1>2, <1>3, <1>14 DEF Window, Overtaken, Redefining, Swallowed
  <2>2. ASSUME NEW s \in DOMAIN snaps, ~ snaps[s].touched
        PROVE  /\ {} \cap FixedIn(files, snaps[s]) = {}
               /\ ChainIn(files, snaps[s].origin) \subseteq DOMAIN files'
               /\ snaps[s].overlay # None => snaps[s].overlay \in DOMAIN files'
               /\ disk' \notin FixedIn(files, snaps[s])
    <3>1. b \notin FixedIn(files, snaps[s])
      <4>1. ~ IsKept(r)
        BY <1>1 DEF JobsGood, ChoiceGood, At
      <4> QED BY <1>1, <1>3, <1>4, <2>1, <2>2, <4>1, CommitTarget
    <3>2. Survives(files, disk, snaps[s]) /\ ChainIn(files, snaps[s].origin) \subseteq DOMAIN files
      BY <2>2, KnownEntry
    <3>3. disk \notin ChainIn(files, snaps[s].origin)
      BY <2>1, <2>2, <3>2 DEF Survives, FixedIn
    <3> QED BY <1>7, <1>8, <2>1, <2>2, <3>1, <3>2, <3>3 DEF Survives
  <2>3. /\ \A q \in Requests : At(q, "edit") => job[q].new \notin {} /\ job[q].new # disk'
        /\ DOMAIN files' \subseteq DOMAIN files /\ ReadsIn(files', disk') = seen'
        /\ UNCHANGED <<lastFile, snaps>>
    <3>1. \A q \in Requests : At(q, "edit") => job[q].new # b
      BY <1>3, <1>4 DEF JobsGood, EditGood, Spare
    <3> QED BY <1>2, <1>7, <1>8, <1>13, <3>1
  <2>4. \A g \in DOMAIN files' :
           /\ files'[g].base = files[g].base /\ (g \notin {} => files'[g] = files[g])
           /\ (files'[g].data = None => files[g].data = None)
    BY <1>8
  <2>5. /\ MachineGood' /\ lastFile =< lastFile' /\ BasesStay(files, lastFile, files')
        /\ \A q \in Requests : At(q, "edit") => StaySpare(job[q].new)
    BY <1>8, <2>2, <2>3, <2>4, FilesRewritten
  <2> QED BY <2>1, <2>5
<1> QED BY <1>1, <1>2, <1>9, <1>10, <1>11, <1>14, TaskStep

-----------------------------------------------------------------------------
(* libvirt forgets a snapshot, and the files named for it go.              *)

(* A snapshot is forgotten, and its parent takes its place.                *)
LEMMA Forgot ==
    ASSUME SnapshotsTypeOK, MachineGood, JobsGood, NEW r \in Requests, job[r] # None,
           Known(r), Forgotten(r), UNCHANGED <<written, states, ask>>,
           UNCHANGED <<files, lastFile, disk, power, seen, faults>>
    PROVE  SnapshotsInv'
<1>1. PICK n \in DOMAIN snaps : n = job[r].name
  BY DEF Known
<1> DEFINE up == snaps[n].parent
           pc == IF All(r) THEN "cleanup" ELSE "residual"
           j == Fresh(pc, n)
<1>2. /\ snaps' = [m \in DOMAIN snaps \ {n} |->
                     [snaps[m] EXCEPT !.parent = IF @ = n THEN up ELSE @]]
      /\ current' = (IF current = n THEN up ELSE current)
      /\ To(r, j)
      /\ missteps' = {} => (snaps[n].overlay # None => n \in Leaves)
  BY <1>1 DEF Forgotten, Forget, Window, External
<1>3. \A m \in DOMAIN snaps : snaps[m] \in Entries
  BY MachineTypes
<1>4. Acyclic(snaps) /\ Apart(snaps) /\ LineageIn(files, snaps)
  BY LineageIsLineageIn DEF MachineGood
<1>5. up # n /\ up \in {None} \cup DOMAIN snaps /\ up \in SnapshotNames \cup {None}
  <2>1. {n} \in SUBSET DOMAIN snaps /\ {n} # {}
    OBVIOUS
  <2>2. \E s \in {n} : snaps[s].parent \notin {n}
    BY <1>4, <2>1 DEF Acyclic
  <2> QED BY <2>2, MachineTypes
<1> HIDE DEF up
<1>6. DOMAIN snaps' = DOMAIN snaps \ {n}
  BY <1>2
<1>7. ASSUME NEW m \in DOMAIN snaps'
      PROVE  /\ snaps'[m] \in Entries /\ snaps'[m].origin = snaps[m].origin
             /\ snaps'[m].overlay = snaps[m].overlay /\ snaps'[m].saved = snaps[m].saved
             /\ snaps'[m].want = snaps[m].want /\ snaps'[m].touched = snaps[m].touched
             /\ snaps'[m].parent = (IF snaps[m].parent = n THEN up ELSE snaps[m].parent)
  <2>1. PICK p \in SnapshotNames \cup {None} :
           p = (IF snaps[m].parent = n THEN up ELSE snaps[m].parent)
    BY <1>3, <1>5, <1>6, EntryType
  <2>2. snaps'[m] = [snaps[m] EXCEPT !.parent = p]
    BY <1>2, <1>6, <2>1
  <2>3. snaps[m] \in Entries
    BY <1>3, <1>6
  <2>4. /\ snaps'[m] \in Entries /\ snaps'[m].origin = snaps[m].origin
        /\ snaps'[m].overlay = snaps[m].overlay /\ snaps'[m].saved = snaps[m].saved
        /\ snaps'[m].want = snaps[m].want /\ snaps'[m].touched = snaps[m].touched
        /\ snaps'[m].parent = p
    BY <2>2, <2>3 DEF Entries
  <2> QED BY <2>1, <2>4
<1>8. snaps' \in Lists
  <2>1. snaps' = [m \in DOMAIN snaps' |-> snaps'[m]]
    BY <1>2
  <2>2. snaps' \in [DOMAIN snaps' -> Entries]
    BY <1>7, <2>1
  <2> QED BY <1>6, <2>2, MachineTypes DEF Lists
<1>9. \A s \in DOMAIN snaps' : snaps'[s].parent \in {None} \cup DOMAIN snaps'
  <2> SUFFICES ASSUME NEW s \in DOMAIN snaps' PROVE snaps'[s].parent \in {None} \cup DOMAIN snaps'
    OBVIOUS
  <2>1. snaps[s].parent \in {None} \cup DOMAIN snaps
    BY <1>6, MachineTypes
  <2> QED BY <1>5, <1>6, <1>7, <2>1
<1>10. MachineTyped'
  <2>1. current' \in {None} \cup DOMAIN snaps'
    BY <1>2, <1>5, <1>6 DEF SnapshotsTypeOK
  <2> QED BY <1>8, <1>9, <2>1 DEF SnapshotsTypeOK, MachineTyped
<1>11. faults' \in 0..MaxFaults
  BY FaultType
<1>12. ASSUME missteps' = {} PROVE MachineGood'
  <2>1. ASSUME NEW m \in DOMAIN snaps' PROVE EntryGood(files, disk, lastFile, snaps'[m])
    <3>1. EntryGood(files, disk, lastFile, snaps[m])
      BY <1>6 DEF MachineGood
    <3>2. ~ snaps'[m].touched => Survives(files, disk, snaps'[m])
      <4>1. ASSUME ~ snaps'[m].touched PROVE Survives(files, disk, snaps[m])
        BY <1>7, <3>1, <4>1 DEF EntryGood
      <4>2. FixedIn(files, snaps'[m]) = FixedIn(files, snaps[m])
            /\ GivenIn(files, snaps'[m]) = GivenIn(files, snaps[m])
        BY <1>7 DEF FixedIn, GivenIn
      <4> QED BY <1>7, <4>1, <4>2 DEF Survives
    <3> QED BY <1>7, <3>1, <3>2 DEF EntryGood
  <2>2. Apart(snaps')
    <3> SUFFICES ASSUME NEW s \in DOMAIN snaps', NEW t \in DOMAIN snaps',
                        snaps'[s].overlay # None, snaps'[s].overlay = snaps'[t].overlay
                 PROVE  s = t
      BY DEF Apart
    <3>1. s \in DOMAIN snaps /\ t \in DOMAIN snaps
      BY <1>6
    <3>2. snaps[s].overlay # None /\ snaps[s].overlay = snaps[t].overlay
      BY <1>7
    <3> QED BY <1>4, <3>1, <3>2 DEF Apart
  <2>3. Acyclic(snaps')
    <3> SUFFICES ASSUME NEW names \in SUBSET DOMAIN snaps', names # {}
                 PROVE  \E s \in names : snaps'[s].parent \notin names
      BY DEF Acyclic
    <3>1. names \in SUBSET DOMAIN snaps /\ names \cup {n} \in SUBSET DOMAIN snaps
      BY <1>6
    <3>2. PICK t \in names \cup {n} : snaps[t].parent \notin names \cup {n}
      BY <1>4, <3>1 DEF Acyclic
    <3>3. CASE t \in names
      BY <1>7, <3>2, <3>3
    <3>4. CASE t = n
      <4>1. up \notin names
        BY <3>2, <3>4 DEF up
      <4>2. PICK s \in names : snaps[s].parent \notin names
        BY <1>4, <3>1 DEF Acyclic
      <4> QED BY <1>7, <4>1, <4>2
    <3> QED BY <3>2, <3>3, <3>4
  <2>4. LineageIn(files, snaps')
    <3> SUFFICES ASSUME NEW s \in DOMAIN snaps'
                 PROVE  UnderIn(files, snaps', snaps'[s].origin, snaps'[s].parent)
      BY DEF LineageIn
    <3>1. s \in DOMAIN snaps /\ UnderIn(files, snaps, snaps[s].origin, snaps[s].parent)
      BY <1>4, <1>6 DEF LineageIn
    <3>2. ASSUME NEW f, NEW p, p # n, p # None => p \in DOMAIN snaps, UnderIn(files, snaps, f, p)
          PROVE  UnderIn(files, snaps', f, p)
      <4>1. p # None => p \in DOMAIN snaps'
        BY <1>6, <3>2
      <4>2. p # None => snaps'[p].origin = snaps[p].origin /\ snaps'[p].overlay = snaps[p].overlay
        BY <1>7, <4>1
      <4>3. \A v \in DOMAIN snaps' : v \in DOMAIN snaps /\ snaps'[v].overlay = snaps[v].overlay
        BY <1>6, <1>7
      <4> QED BY <3>2, <4>2, <4>3 DEF UnderIn
    <3>3. CASE snaps[s].parent # n
      <4>1. snaps[s].parent # None => snaps[s].parent \in DOMAIN snaps
        BY <3>1, MachineTypes
      <4> QED BY <1>7, <3>1, <3>2, <3>3, <4>1
    <3>4. CASE snaps[s].parent = n
      <4>1. snaps[n].overlay = None
        BY <1>2, <1>12, <3>1, <3>4 DEF Leaves
      <4>2. UnderIn(files, snaps, snaps[n].origin, up)
        BY <1>4 DEF LineageIn, up
      <4>3. UnderIn(files, snaps, snaps[s].origin, up)
        BY <3>1, <3>4, <4>1, <4>2 DEF UnderIn
      <4> QED BY <1>5, <1>7, <3>2, <3>4, <4>3
    <3> QED BY <3>3, <3>4
  <2>5. Lineage'
    <3>1. (Lineage <=> LineageIn(files, snaps))'
      BY LineageIsLineageIn, PTL
    <3> QED BY <2>4, <3>1
  <2> QED BY <2>1, <2>2, <2>3, <2>5 DEF MachineGood, Reads
<1>13. j \in Jobs /\ j.pc = pc /\ j.name = n
  <2>1. n \in SnapshotNames \cup {None} /\ pc \in Places
    BY MachineTypes DEF Places
  <2> HIDE DEF pc
  <2> QED BY <2>1, FreshType
<1> HIDE DEF j
<1>14. job'[r] = j /\ \A q \in Requests \ {r} : job'[q] = job[q]
  BY <1>2, <1>10, <1>11, <1>13, TypesStep
<1>15. EditGood(r)' /\ ChoiceGood(r)' /\ \A q \in Requests \ {r} : EditsApart(q, r)' /\ EditsApart(r, q)'
  <2>1. All(r)' <=> All(r)
    BY DEF All
  <2>2. EditGood(r)' /\ \A q \in Requests \ {r} : EditsApart(q, r)' /\ EditsApart(r, q)'
    BY <1>13, <1>14 DEF EditGood, EditsApart, At
  <2>3. ChoiceGood(r)'
    BY <1>13, <1>14, <2>1 DEF ChoiceGood, Folding, Deleting
  <2> QED BY <2>2, <2>3
<1>16. lastFile =< lastFile' /\ BasesStay(files, lastFile, files')
  BY MachineTypes DEF BasesStay
<1>17. ASSUME NEW q \in Requests, At(q, "edit") PROVE StaySpare(job[q].new)
  <2>1. Spare(job[q].new)
    BY <1>17 DEF JobsGood, EditGood
  <2>2. \A f \in DOMAIN files : ~ (f > lastFile)
    BY MachineTypes
  <2>3. \A s \in DOMAIN snaps' : job[q].new # snaps'[s].origin /\ job[q].new # snaps'[s].overlay
    BY <1>6, <1>7, <2>1 DEF Spare
  <2> QED BY <2>1, <2>2, <2>3 DEF StaySpare, Spare
<1>18. \A q \in Requests : At(q, "redefine") =>
          disk' = disk /\ ReadsIn(files', job[q].base) = ReadsIn(files', disk)
  BY DEF At, JobsGood, ChoiceGood, Reads
<1> QED BY <1>2, <1>10, <1>11, <1>12, <1>13, <1>15, <1>16, <1>17, <1>18, TaskStep

LEMMA MetadataDeleted ==
    ASSUME SnapshotsTypeOK, MachineGood, JobsGood, NEW r \in Requests,
           deleteSnapshotMetadataOnly(r), UNCHANGED <<written, states, ask>>
    PROVE  SnapshotsInv'
<1>1. job[r] # None /\ UNCHANGED <<files, lastFile, disk, power, seen, faults>>
  BY JobAt DEF deleteSnapshotMetadataOnly
<1>2. CASE Known(r)
  <2>1. Forgotten(r)
    BY <1>2 DEF deleteSnapshotMetadataOnly
  <2> QED BY <1>1, <1>2, <2>1, Forgot
<1>3. CASE ~ Known(r)
  <2>1. End(r) /\ UNCHANGED machine
    BY <1>1, <1>3 DEF deleteSnapshotMetadataOnly, machine
  <2> QED BY <1>1, <2>1, Ends
<1> QED BY <1>2, <1>3

LEMMA DeletedByLibvirt ==
    ASSUME SnapshotsTypeOK, MachineGood, JobsGood, NEW r \in Requests,
           SnapshotDelete(r), UNCHANGED <<written, states, ask>>
    PROVE  SnapshotsInv'
<1>1. PICK old \in {"internal", "retry"} : At(r, old)
  BY DEF SnapshotDelete
<1>2. /\ job[r] # None /\ job[r] \in Jobs /\ job[r].pc = old
      /\ UNCHANGED <<files, lastFile, disk, power, seen, faults>>
  BY <1>1, JobAt DEF SnapshotDelete
<1>3. CASE Known(r) /\ Forgotten(r)
  BY <1>2, <1>3, Forgot
<1>4. CASE End(r) /\ UNCHANGED <<snaps, current, missteps>>
  <2>1. UNCHANGED machine
    BY <1>2, <1>4 DEF machine
  <2> QED BY <1>2, <1>4, <2>1, Ends
<1>5. CASE /\ GoTo(r, IF At(r, "internal") THEN "mismatch"
                      ELSE IF All(r) THEN "metadata" ELSE "end")
           /\ UNCHANGED <<snaps, current, missteps>>
  <2>1. PICK pc \in {"mismatch", "metadata", "end"} :
           GoTo(r, pc) /\ (pc = "mismatch" => old = "internal")
    BY <1>2, <1>5 DEF At
  <2>2. UNCHANGED machine
    BY <1>2, <1>5 DEF machine
  <2> DEFINE j == [job[r] EXCEPT !.pc = pc]
  <2>3. /\ j \in Jobs /\ j.pc = pc /\ j.name = job[r].name /\ j.snaps = job[r].snaps
        /\ j.snap = job[r].snap /\ To(r, j)
    <3>1. pc \in Places
      BY DEF Places
    <3> QED BY <1>2, <2>1, <3>1, GoToType DEF GoTo
  <2> HIDE DEF j
  <2>4. CASE pc \in {"metadata", "end"}
    <3>1. Quiet(j)
      BY <2>3, <2>4 DEF Quiet
    <3> QED BY <1>2, <2>2, <2>3, <3>1, QuietStep
  <2>5. CASE pc = "mismatch"
    <3>1. Chosen(r) /\ job[r].snap # None
      BY <1>2, <2>1, <2>5 DEF JobsGood, ChoiceGood, Deleting
    <3>2. faults' \in 0..MaxFaults /\ MachineTyped' /\ MachineGood'
      BY <1>2, <2>2, FaultType, MachineSame DEF SnapshotsTypeOK, MachineTyped, machine
    <3>3. job'[r] = j /\ \A q \in Requests \ {r} : job'[q] = job[q]
      BY <1>2, <2>3, <3>2, TypesStep
    <3>4. EditGood(r)' /\ \A q \in Requests \ {r} : EditsApart(q, r)' /\ EditsApart(r, q)'
      BY <2>3, <2>5, <3>3 DEF EditGood, EditsApart, At
    <3>5. Chosen(r)'
      <4>1. All(r)' <=> All(r)
        BY DEF All
      <4> QED BY <2>3, <3>1, <3>3, <4>1 DEF Chosen
    <3>6. ChoiceGood(r)'
      BY <2>3, <2>5, <3>1, <3>3, <3>5 DEF ChoiceGood, Folding, Deleting
    <3>7. UNCHANGED <<files, lastFile, disk, snaps, power>>
      BY <2>2 DEF machine
    <3> QED BY <1>2, <2>3, <3>2, <3>4, <3>6, <3>7, FilesSame, TaskStep
  <2> QED BY <2>4, <2>5
<1> QED BY <1>3, <1>4, <1>5 DEF SnapshotDelete

(* cleanupSnapshotResidualFiles: no chain of the disk or of a snapshot     *)
(* holds what goes.                                                        *)
LEMMA ResidualsRemoved ==
    ASSUME SnapshotsTypeOK, MachineGood, JobsGood, NEW r \in Requests,
           cleanupSnapshotResidualFiles(r), UNCHANGED <<written, states, ask>>
    PROVE  SnapshotsInv'
<1> DEFINE overlays(list) == {Chain(snaps[s].overlay) : s \in {t \in list : External(t)}}
           held(list) ==
             Chain(disk) \cup (UNION {Chain(snaps[s].origin) : s \in list}) \cup (UNION overlays(list))
<1>1. PICK list \in {DOMAIN snaps, {}} :
         /\ ListSnapshots(list, {})
         /\ \E residual \in SUBSET (DOMAIN files \ held(list)) :
               files' = [f \in DOMAIN files \ residual |-> files[f]]
  BY DEF cleanupSnapshotResidualFiles
<1>2. PICK gone \in SUBSET (DOMAIN files \ held(list)) :
         files' = [f \in DOMAIN files \ gone |-> files[f]]
  BY <1>1
<1>3. UNCHANGED <<lastFile, disk, power, snaps, current, seen>>
  BY DEF cleanupSnapshotResidualFiles
<1>4. job[r] # None
  BY JobAt DEF cleanupSnapshotResidualFiles
<1>5. PICK j \in Jobs : Quiet(j) /\ To(r, j)
  <2>1. PICK pc \in {"delete_all", "end"} : To(r, Fresh(pc, None))
    BY DEF cleanupSnapshotResidualFiles
  <2> QED BY <2>1, FreshQuiet
<1>6. MachineTyped'
  <2>1. files' \in [DOMAIN files' -> Images] /\ DOMAIN files' \subseteq 0..lastFile
    BY <1>2, MachineTypes
  <2> QED BY <1>3, <2>1 DEF SnapshotsTypeOK, MachineTyped
<1>7. faults' \in 0..MaxFaults
  BY <1>1, FaultType DEF ListSnapshots
<1>8. ASSUME missteps' = {}
      PROVE  /\ MachineGood' /\ lastFile =< lastFile' /\ BasesStay(files, lastFile, files')
             /\ \A q \in Requests : At(q, "edit") => StaySpare(job[q].new)
             /\ \A q \in Requests : At(q, "redefine") =>
                   disk' = disk /\ ReadsIn(files', job[q].base) = ReadsIn(files', disk)
  <2>1. list = DOMAIN snaps
    BY <1>1, <1>8 DEF ListSnapshots, Window
  <2>2. gone \cap ChainIn(files, disk) = {}
    BY DEF Chain
  <2>3. ASSUME NEW s \in DOMAIN snaps, ~ snaps[s].touched
        PROVE  /\ gone \cap ChainIn(files, snaps[s].origin) = {}
               /\ snaps[s].overlay # None => snaps[s].overlay \notin gone
    <3>1. ChainIn(files, snaps[s].origin) \subseteq held(list)
      BY <2>1 DEF Chain
    <3>2. ASSUME snaps[s].overlay # None PROVE snaps[s].overlay \notin gone
      <4>1. ChainIn(files, snaps[s].overlay) \subseteq held(list)
        <5>1. s \in {t \in list : External(t)}
          BY <2>1, <3>2 DEF External
        <5>2. Chain(snaps[s].overlay) \in overlays(list)
          BY <5>1
        <5>3. Chain(snaps[s].overlay) \subseteq held(list)
          BY <5>2
        <5> QED BY <5>3 DEF Chain
      <4>2. snaps[s].overlay \in DOMAIN files /\ snaps[s].overlay \in Nat
        BY <2>3, <3>2, KnownEntry DEF Survives
      <4>3. snaps[s].overlay \in ChainIn(files, snaps[s].overlay)
        BY <4>2, ChainIs DEF MachineGood
      <4> QED BY <4>1, <4>3
    <3> QED BY <3>1, <3>2
  <2>4. UNCHANGED <<lastFile, disk, snaps, seen>>
    BY <1>3
  <2> QED BY <1>2, <2>2, <2>3, <2>4, RemovedFiles
<1> QED BY <1>3, <1>4, <1>5, <1>6, <1>7, <1>8, TaskStep

-----------------------------------------------------------------------------
(* The guest, the users, the queue and crashes.                            *)

(* A step that is of no task at work, or begins, ends or loses one.        *)
LEMMA OtherStep ==
    ASSUME SnapshotsTypeOK, MachineGood, JobsGood, SnapshotsTypeOK', MachineGood',
           NEW movers, lastFile' = lastFile, snaps' = snaps, disk' = disk,
           BasesStay(files, lastFile, files'),
           \A q \in Requests : At(q, "edit") => StaySpare(job[q].new),
           \A q \in Requests \ movers : job'[q] = job[q] /\ ask'[q] = ask[q],
           \A q \in Requests \ movers : At(q, "redefine") =>
              power' = power /\ ReadsIn(files', job[q].base) = ReadsIn(files', disk),
           \A r \in Requests \cap movers :
              /\ EditGood(r)' /\ ChoiceGood(r)'
              /\ \A q \in Requests \ {r} : EditsApart(q, r)' /\ EditsApart(r, q)'
    PROVE  SnapshotsInv'
<1>1. lastFile' \in Nat /\ lastFile =< lastFile' /\ DOMAIN files' \subseteq Nat
  <2>1. (DOMAIN files)' \subseteq (0..lastFile)' /\ lastFile' \in Nat
    BY DEF SnapshotsTypeOK
  <2> QED BY <2>1, MachineTypes
<1>2. JobsGood'
  BY <1>1, JobsStay
<1> QED BY <1>2 DEF SnapshotsInv

(* A task that is lost relies on nothing.                                  *)
LEMMA JobsLost ==
    ASSUME NEW r \in Requests, job'[r] = None
    PROVE  /\ EditGood(r)' /\ ChoiceGood(r)'
           /\ \A q \in Requests \ {r} : EditsApart(q, r)' /\ EditsApart(r, q)'
<1>1. Quiet(job'[r])
  BY DEF Quiet
<1> QED BY <1>1, QuietJob

(* The guest writes in the file of the disk, in which no kept snapshot is  *)
(* changed.                                                                *)
LEMMA GuestWrote ==
    ASSUME SnapshotsTypeOK, MachineGood, JobsGood, GuestChanges
    PROVE  SnapshotsInv'
<1>1. /\ Running /\ disk \in DOMAIN files /\ written < MaxChanges
      /\ written' = written + 1 /\ seen' = written + 1
      /\ files' = [files EXCEPT ![disk].data = written + 1]
      /\ UNCHANGED <<lastFile, disk, power, snaps, current, states, ask, job, faults, missteps>>
  BY DEF GuestChanges
<1>2. PICK w \in Contents : w = written + 1 /\ w # None
  BY <1>1, SnapshotsAssumption DEF SnapshotsTypeOK, Contents
<1>3. /\ Forest(files) /\ disk \in Nat /\ ReadsIn(files, disk) # None
      /\ \A g \in DOMAIN files : files[g] \in Images
  BY MachineTypes DEF MachineGood, Reads
<1>4. /\ DOMAIN files' = DOMAIN files /\ files' \in [DOMAIN files' -> Images]
      /\ files'[disk].data = w
      /\ \A g \in DOMAIN files' :
            /\ files'[g].base = files[g].base
            /\ g \notin {disk} => files'[g] = files[g]
            /\ files'[g].data = None => files[g].data = None
  <2> DEFINE image == [files[disk] EXCEPT !.data = w]
  <2>1. image \in Images /\ image.data = w /\ image.base = files[disk].base
    BY <1>1, <1>2, <1>3 DEF Images
  <2>2. files' = [files EXCEPT ![disk] = image]
    BY <1>1, <1>2
  <2> HIDE DEF image
  <2>3. /\ DOMAIN files' = DOMAIN files /\ files'[disk] = image
        /\ \A g \in DOMAIN files : g # disk => files'[g] = files[g]
    BY <1>1, <2>2
  <2>4. files' \in [DOMAIN files' -> Images]
    BY <1>1, <2>1, <2>2, MachineTypes
  <2> QED BY <1>2, <2>1, <2>3, <2>4
<1>5. Forest(files')
  BY <1>3, <1>4, FilesChange
<1>6. ReadsIn(files', disk) = w
  <2>1. CASE files[disk].base = None
    BY <1>1, <1>3, <1>4, <1>5, <2>1, ReadsIs
  <2>2. CASE files[disk].base # None
    <3>1. PICK b \in Nat : b = files[disk].base /\ b # None /\ disk \notin 0..b
      <4>1. files[disk].base \in 0..disk - 1
        BY <1>3, <2>2, ReadableFile
      <4> QED BY <1>3, <2>2, <4>1
    <3>2. ReadsIn(files, b) # None /\ ChainIn(files, b) \subseteq DOMAIN files \cap 0..b
      BY <1>3, <2>2, <3>1, ReadableFile, ChainIsBelow
    <3>3. \A g \in ChainIn(files, b) : g \in DOMAIN files' /\ files'[g] = files[g]
      BY <1>4, <3>1, <3>2
    <3>4. ReadsIn(files', b) # None
      BY <1>3, <1>5, <3>2, <3>3, SameChain
    <3>5. disk \in DOMAIN files' /\ files'[disk].base = b
      BY <1>1, <1>4, <3>1
    <3> QED BY <1>2, <1>3, <1>4, <1>5, <3>1, <3>4, <3>5, ReadsIs
  <2> QED BY <2>1, <2>2
<1>7. /\ MachineGood' /\ lastFile =< lastFile' /\ BasesStay(files, lastFile, files')
      /\ \A q \in Requests : At(q, "edit") => StaySpare(job[q].new)
  <2>1. ASSUME NEW s \in DOMAIN snaps, ~ snaps[s].touched
        PROVE  /\ {disk} \cap FixedIn(files, snaps[s]) = {}
               /\ ChainIn(files, snaps[s].origin) \subseteq DOMAIN files'
               /\ snaps[s].overlay # None => snaps[s].overlay \in DOMAIN files'
               /\ disk' \notin FixedIn(files, snaps[s])
    <3>1. Survives(files, disk, snaps[s]) /\ ChainIn(files, snaps[s].origin) \subseteq DOMAIN files
      BY <2>1, KnownEntry
    <3> QED BY <1>1, <1>4, <3>1 DEF Survives
  <2>2. /\ \A q \in Requests : At(q, "edit") => job[q].new \notin {disk} /\ job[q].new # disk'
        /\ DOMAIN files' \subseteq DOMAIN files /\ ReadsIn(files', disk') = seen'
        /\ UNCHANGED <<lastFile, snaps>>
    <3>1. \A q \in Requests : At(q, "edit") => job[q].new # disk
      BY DEF JobsGood, EditGood, Spare
    <3> QED BY <1>1, <1>2, <1>4, <1>6, <3>1
  <2> QED BY <1>4, <2>1, <2>2, FilesRewritten
<1>8. SnapshotsTypeOK'
  <2>1. DOMAIN files' \subseteq 0..lastFile
    BY <1>4, MachineTypes
  <2> QED BY <1>1, <1>2, <1>4, <2>1 DEF SnapshotsTypeOK
<1>9. \A q \in Requests : ~ At(q, "redefine")
  BY <1>1, DiskOfCommitted
<1>10. \A q \in Requests : job'[q] = job[q] /\ ask'[q] = ask[q]
  BY <1>1
<1> DEFINE movers == {}
<1>11. \A q \in Requests : q \notin movers
  OBVIOUS
<1> HIDE DEF movers
<1> QED BY <1>1, <1>7, <1>8, <1>9, <1>10, <1>11, OtherStep

(* Steps that leave the files and the tasks at work as they are.           *)
LEMMA PowerStep ==
    ASSUME SnapshotsTypeOK, MachineGood, JobsGood, power' \in {"off", "running"},
           UNCHANGED <<files, lastFile, disk, snaps, current, seen, written, states, ask, job>>,
           faults' \in 0..MaxFaults,
           power' = power \/ \A q \in Requests : ~ At(q, "redefine")
    PROVE  SnapshotsInv'
<1>1. SnapshotsTypeOK' /\ MachineGood'
  BY MachineSame DEF SnapshotsTypeOK
<1>2. /\ lastFile =< lastFile' /\ BasesStay(files, lastFile, files')
      /\ \A q \in Requests : At(q, "edit") => StaySpare(job[q].new)
      /\ \A q \in Requests : At(q, "redefine") =>
            disk' = disk /\ ReadsIn(files', job[q].base) = ReadsIn(files', disk)
  BY FilesSame
<1> DEFINE movers == {}
<1>3. \A q \in Requests : q \notin movers
  OBVIOUS
<1> HIDE DEF movers
<1> QED BY <1>1, <1>2, <1>3, OtherStep

LEMMA PoweredOff ==
    ASSUME SnapshotsTypeOK, MachineGood, JobsGood, GuestPowersOff
    PROVE  SnapshotsInv'
<1>1. /\ Running /\ power' = "off"
      /\ UNCHANGED <<files, lastFile, disk, snaps, current, seen, written, states, ask, job, faults>>
  BY DEF GuestPowersOff
<1>2. \A q \in Requests : ~ At(q, "redefine")
  BY <1>1, DiskOfCommitted
<1> QED BY <1>1, <1>2, FaultType, PowerStep

LEMMA MachineStarted ==
    ASSUME SnapshotsTypeOK, MachineGood, JobsGood, StartMachine
    PROVE  SnapshotsInv'
<1>1. /\ power' = "running" /\ Window(Redefining(Requests))
      /\ UNCHANGED <<files, lastFile, disk, snaps, current, seen, written, states, ask, job, faults>>
  BY DEF StartMachine
<1>2. CASE missteps' = {}
  <2>1. \A q \in Requests : ~ At(q, "redefine")
    BY <1>1, <1>2 DEF Window, Redefining
  <2> QED BY <1>1, <2>1, FaultType, PowerStep
<1>3. CASE missteps' # {}
  <2>1. SnapshotsTypeOK'
    BY <1>1 DEF SnapshotsTypeOK
  <2> QED BY <1>3, <2>1 DEF SnapshotsInv
<1> QED BY <1>2, <1>3

(* A step of the queue leaves the machine as it is.                        *)
LEMMA QueueStep ==
    ASSUME SnapshotsTypeOK, MachineGood, JobsGood, SnapshotsTypeOK', UNCHANGED machine,
           NEW movers,
           \A q \in Requests \ movers : job'[q] = job[q] /\ ask'[q] = ask[q],
           \A r \in Requests \cap movers :
              /\ EditGood(r)' /\ ChoiceGood(r)'
              /\ \A q \in Requests \ {r} : EditsApart(q, r)' /\ EditsApart(r, q)'
    PROVE  SnapshotsInv'
<1>1. UNCHANGED <<files, lastFile, disk, power, snaps, current, seen>>
  BY DEF machine
<1>2. MachineGood'
  BY <1>1, MachineSame
<1>3. /\ lastFile =< lastFile' /\ BasesStay(files, lastFile, files')
      /\ \A q \in Requests : At(q, "edit") => StaySpare(job[q].new)
      /\ \A q \in Requests : At(q, "redefine") =>
            disk' = disk /\ ReadsIn(files', job[q].base) = ReadsIn(files', disk)
  BY <1>1, FilesSame
<1> QED BY <1>1, <1>2, <1>3, OtherStep

LEMMA Submitted ==
    ASSUME SnapshotsTypeOK, MachineGood, JobsGood, NEW r \in Requests, Submit(r)
    PROVE  SnapshotsInv'
<1>1. PICK w \in Wishes : ask' = [ask EXCEPT ![r] = w]
  BY DEF Submit
<1>2. /\ states[r] = "new" /\ states' = [states EXCEPT ![r] = "waiting"]
      /\ UNCHANGED machine /\ UNCHANGED <<written, job, faults, missteps>>
  BY DEF Submit, SnapshotQueue!Accept, SnapshotQueue!Move
<1>3. w \in Asks /\ w # None
  <2>1. DOMAIN snaps \subseteq SnapshotNames
    BY MachineTypes
  <2>2. w \in Asks
    BY <2>1 DEF Wishes, Asks
  <2> QED BY <2>2, SnapshotsAssumption
<1>4. job[r] = None /\ job'[r] = None
  BY <1>2 DEF SnapshotsTypeOK
<1>5. SnapshotsTypeOK'
  <2>1. MachineTyped' /\ written' \in Contents /\ faults' \in 0..MaxFaults
    BY <1>2 DEF SnapshotsTypeOK, MachineTyped, machine
  <2>2. /\ states' \in [Requests -> {"new", "waiting", "executing", "settled"}]
        /\ states'[r] = "waiting" /\ \A q \in Requests \ {r} : states'[q] = states[q]
    BY <1>2 DEF SnapshotsTypeOK
  <2>3. /\ ask' \in [Requests -> Asks \cup {None}] /\ ask'[r] = w
        /\ \A q \in Requests \ {r} : ask'[q] = ask[q]
    BY <1>1, <1>3 DEF SnapshotsTypeOK
  <2>4. /\ job' \in [Requests -> Jobs \cup {None}]
        /\ \A q \in Requests : job'[q] # None => states'[q] = "executing"
    BY <1>2, <1>4, <2>2 DEF SnapshotsTypeOK
  <2>5. \A q \in Requests : states'[q] \in {"waiting", "executing"} => ask'[q] # None
    BY <1>3, <2>2, <2>3 DEF SnapshotsTypeOK
  <2> QED BY <2>1, <2>2, <2>3, <2>4, <2>5 DEF SnapshotsTypeOK, MachineTyped
<1>6. \A q \in Requests \ {r} : job'[q] = job[q] /\ ask'[q] = ask[q]
  BY <1>1, <1>2 DEF SnapshotsTypeOK
<1>7. \A p \in Requests \cap {r} :
         /\ EditGood(p)' /\ ChoiceGood(p)'
         /\ \A q \in Requests \ {p} : EditsApart(q, p)' /\ EditsApart(p, q)'
  <2>1. \A p \in Requests \cap {r} : job'[p] = None
    BY <1>4
  <2> QED BY <2>1, JobsLost
<1> QED BY <1>2, <1>5, <1>6, <1>7, QueueStep

LEMMA Executed ==
    ASSUME SnapshotsTypeOK, MachineGood, JobsGood, NEW r \in Requests, ExecuteSnapshot(r)
    PROVE  SnapshotsInv'
<1>1. /\ states[r] = "waiting" /\ states' = [states EXCEPT ![r] = "executing"]
      /\ To(r, Fresh(ask[r].op, ask[r].name))
      /\ UNCHANGED machine /\ UNCHANGED <<written, ask, faults, missteps>>
  BY DEF ExecuteSnapshot, SnapshotQueue!Execute, SnapshotQueue!Move
<1>2. ask[r] \in Asks
  BY <1>1 DEF SnapshotsTypeOK
<1>3. PICK op \in {"create", "revert", "delete", "delete_all"}, n \in SnapshotNames \cup {None} :
         op = ask[r].op /\ n = ask[r].name /\ (op = "create" => n \in SnapshotNames)
  BY <1>2 DEF Asks
<1> DEFINE j == Fresh(op, n)
<1>4. j \in Jobs /\ j.pc = op /\ j.name = n
  <2>1. op \in Places
    BY DEF Places
  <2> QED BY <2>1, FreshType
<1>5. job' = [job EXCEPT ![r] = j]
  BY <1>1, <1>3 DEF To
<1> HIDE DEF j
<1>6. /\ job' \in [Requests -> Jobs \cup {None}] /\ job'[r] = j
      /\ \A q \in Requests \ {r} : job'[q] = job[q]
  BY <1>4, <1>5 DEF SnapshotsTypeOK
<1>7. SnapshotsTypeOK'
  <2>1. MachineTyped' /\ written' \in Contents /\ faults' \in 0..MaxFaults
    BY <1>1 DEF SnapshotsTypeOK, MachineTyped, machine
  <2>2. /\ states' \in [Requests -> {"new", "waiting", "executing", "settled"}]
        /\ states'[r] = "executing" /\ \A q \in Requests \ {r} : states'[q] = states[q]
    BY <1>1 DEF SnapshotsTypeOK
  <2>3. \A q \in Requests : job'[q] # None => states'[q] = "executing"
    BY <1>6, <2>2 DEF SnapshotsTypeOK
  <2>4. /\ ask' \in [Requests -> Asks \cup {None}]
        /\ \A q \in Requests : states'[q] \in {"waiting", "executing"} => ask'[q] # None
    BY <1>1, <2>2 DEF SnapshotsTypeOK
  <2> QED BY <1>6, <2>1, <2>2, <2>3, <2>4 DEF SnapshotsTypeOK, MachineTyped
<1>8. /\ EditGood(r)' /\ ChoiceGood(r)'
      /\ \A q \in Requests \ {r} : EditsApart(q, r)' /\ EditsApart(r, q)'
  <2>1. EditGood(r)' /\ \A q \in Requests \ {r} : EditsApart(q, r)' /\ EditsApart(r, q)'
    BY <1>4, <1>6 DEF EditGood, EditsApart, At
  <2>2. op = "delete" => ~ All(r)'
    BY <1>1, <1>3 DEF All
  <2>3. ChoiceGood(r)'
    BY <1>3, <1>4, <1>6, <2>2 DEF ChoiceGood, Folding, Deleting
  <2> QED BY <2>1, <2>3
<1>9. \A p \in Requests \cap {r} :
         /\ EditGood(p)' /\ ChoiceGood(p)'
         /\ \A q \in Requests \ {p} : EditsApart(q, p)' /\ EditsApart(p, q)'
  <2> SUFFICES ASSUME NEW p \in Requests \cap {r}
               PROVE  /\ EditGood(p)' /\ ChoiceGood(p)'
                      /\ \A q \in Requests \ {p} : EditsApart(q, p)' /\ EditsApart(p, q)'
    OBVIOUS
  <2>1. p = r
    OBVIOUS
  <2> QED BY <1>8, <2>1
<1>10. \A q \in Requests \ {r} : job'[q] = job[q] /\ ask'[q] = ask[q]
  BY <1>1, <1>6
<1> QED BY <1>1, <1>7, <1>9, <1>10, QueueStep

LEMMA Returned ==
    ASSUME SnapshotsTypeOK, MachineGood, JobsGood, NEW r \in Requests, Return(r)
    PROVE  SnapshotsInv'
<1>1. /\ states' = [states EXCEPT ![r] = "settled"]
      /\ job' = [job EXCEPT ![r] = None] /\ ask' = [ask EXCEPT ![r] = None]
      /\ UNCHANGED machine /\ UNCHANGED <<written, faults, missteps>>
  BY DEF Return, SnapshotQueue!Settle, SnapshotQueue!Move
<1>2. /\ job' \in [Requests -> Jobs \cup {None}] /\ job'[r] = None
      /\ ask' \in [Requests -> Asks \cup {None}]
      /\ states' \in [Requests -> {"new", "waiting", "executing", "settled"}]
      /\ states'[r] = "settled"
      /\ \A q \in Requests \ {r} :
            job'[q] = job[q] /\ ask'[q] = ask[q] /\ states'[q] = states[q]
  BY <1>1 DEF SnapshotsTypeOK
<1>3. SnapshotsTypeOK'
  <2>1. MachineTyped' /\ written' \in Contents /\ faults' \in 0..MaxFaults
    BY <1>1 DEF SnapshotsTypeOK, MachineTyped, machine
  <2>2. \A q \in Requests :
           /\ job'[q] # None => states'[q] = "executing"
           /\ states'[q] \in {"waiting", "executing"} => ask'[q] # None
    BY <1>2 DEF SnapshotsTypeOK
  <2> QED BY <1>2, <2>1, <2>2 DEF SnapshotsTypeOK, MachineTyped
<1>4. \A p \in Requests \cap {r} :
         /\ EditGood(p)' /\ ChoiceGood(p)'
         /\ \A q \in Requests \ {p} : EditsApart(q, p)' /\ EditsApart(p, q)'
  <2>1. \A p \in Requests \cap {r} : job'[p] = None
    BY <1>2
  <2> QED BY <2>1, JobsLost
<1> QED BY <1>1, <1>2, <1>3, <1>4, QueueStep

LEMMA Crashed ==
    ASSUME SnapshotsTypeOK, MachineGood, JobsGood, SnapshotCrash
    PROVE  SnapshotsInv'
<1>1. /\ states' = [r \in Requests |-> IF states[r] = "new" THEN "new" ELSE "settled"]
      /\ job' = [r \in Requests |-> None] /\ ask' = [r \in Requests |-> None]
      /\ UNCHANGED machine /\ UNCHANGED <<written, missteps>> /\ faults' \in 0..MaxFaults
  BY FaultType DEF SnapshotCrash
<1>2. SnapshotsTypeOK'
  <2>1. MachineTyped' /\ written' \in Contents
    BY <1>1 DEF SnapshotsTypeOK, MachineTyped, machine
  <2> QED BY <1>1, <2>1 DEF SnapshotsTypeOK, MachineTyped
<1>3. \A p \in Requests \cap Requests :
         /\ EditGood(p)' /\ ChoiceGood(p)'
         /\ \A q \in Requests \ {p} : EditsApart(q, p)' /\ EditsApart(p, q)'
  <2>1. \A p \in Requests : job'[p] = None
    BY <1>1
  <2> QED BY <2>1, JobsLost
<1>4. \A q \in Requests \ Requests : job'[q] = job[q] /\ ask'[q] = ask[q]
  OBVIOUS
<1> QED BY <1>1, <1>2, <1>3, <1>4, QueueStep

-----------------------------------------------------------------------------
(* Every step.                                                             *)

(* Every step of a task.                                                   *)
LEMMA StepKeeps ==
    ASSUME SnapshotsTypeOK, MachineGood, JobsGood, NEW r \in Requests, Step(r)
    PROVE  SnapshotsInv'
<1>1. UNCHANGED <<written, states, ask>>
  BY DEF Step
<1>2. CASE CreateSnapshotWithOptions(r) \/ SnapshotCreateAs(r) \/ CreateRefused(r)
  BY <1>1, <1>2, CreateBegins, Created, CreateIsRefused
<1>3. CASE RevertSnapshot(r) \/ SnapshotRevert(r) \/ createExternalSnapshotRestoreOverlay(r)
           \/ EditDomain(r) \/ SnapshotCurrent(r) \/ StartReverted(r)
  BY <1>1, <1>3, RevertBegins, Reverted, RevertOverlaid, RevertEdited, RevertPointed, RevertStarted
<1>4. CASE DeleteSnapshot(r) \/ DeleteAllSnapshots(r) \/ LookAtDisk(r)
  BY <1>1, <1>4, OneDeletionBegins, NextDeletionBegins, Looked
<1>5. CASE deleteExternalSnapshot(r) \/ NothingToFold(r) \/ FoldRunning(r) \/ FoldKept(r)
           \/ commitInactiveExternalOverlay(r) \/ replaceVMDiskSource(r)
  BY <1>1, <1>5, DeletedExternal, NothingFolded, RunningFolded, KeptFolded, InactiveCommitted,
     DiskReplaced
<1>6. CASE deleteSnapshotMetadataOnly(r) \/ SnapshotDelete(r)
           \/ cleanupSnapshotResidualFiles(r) \/ CommandFails(r)
  BY <1>1, <1>6, MetadataDeleted, DeletedByLibvirt, ResidualsRemoved, CommandFailed
<1> QED BY <1>2, <1>3, <1>4, <1>5, <1>6 DEF Step

LEMMA SnapshotsStart == InitSnapshots => SnapshotsInv
<1> SUFFICES ASSUME InitSnapshots PROVE SnapshotsInv
  OBVIOUS
<1>1. /\ files = [f \in {0} |-> [base |-> None, data |-> 0, words |-> {}, managed |-> FALSE]]
      /\ lastFile = 0 /\ disk = 0 /\ power = "off" /\ snaps = Nothing /\ current = None
      /\ seen = 0 /\ written = 0 /\ states = [r \in Requests |-> "new"]
      /\ ask = [r \in Requests |-> None] /\ job = [r \in Requests |-> None]
      /\ faults = 0
  BY DEF InitSnapshots, SnapshotQueue!Init
<1>2. 0 \in Contents /\ 0 \in 0..MaxFaults
  BY SnapshotsAssumption DEF Contents
<1>3. /\ DOMAIN files = {0} /\ files[0].base = None /\ files[0].data = 0
      /\ files \in [DOMAIN files -> Images]
  BY <1>1, <1>2 DEF Images
<1>4. DOMAIN snaps = {} /\ snaps \in Lists
  <2>1. snaps \in [{} -> Entries] /\ DOMAIN snaps = {}
    BY <1>1 DEF Nothing
  <2>2. {} \in SUBSET SnapshotNames
    OBVIOUS
  <2> QED BY <2>1, <2>2 DEF Lists
<1>5. SnapshotsTypeOK
  BY <1>1, <1>2, <1>3, <1>4 DEF SnapshotsTypeOK
<1>6. MachineGood
  <2>1. Forest(files)
    BY <1>3 DEF Forest
  <2>2. ReadsIn(files, 0) = 0
    BY <1>3, <2>1, ReadsIs
  <2>3. Apart(snaps) /\ Lineage /\ Acyclic(snaps)
    BY <1>4 DEF Apart, Lineage, Acyclic
  <2> QED BY <1>1, <1>4, <2>1, <2>2, <2>3 DEF MachineGood, Reads
<1>7. JobsGood
  BY <1>1 DEF JobsGood, EditGood, ChoiceGood, EditsApart, At
<1> QED BY <1>5, <1>6, <1>7 DEF SnapshotsInv

(* Every step of the machine.                                              *)
LEMMA SnapshotsStep == SnapshotsInv /\ [SnapshotsNext]_snapshotVars => SnapshotsInv'
<1> SUFFICES ASSUME SnapshotsInv, [SnapshotsNext]_snapshotVars PROVE SnapshotsInv'
  OBVIOUS
<1>1. CASE UNCHANGED snapshotVars
  <2>1. SnapshotsTypeOK /\ SnapshotsTypeOK'
    BY <1>1 DEF SnapshotsInv, SnapshotsTypeOK, snapshotVars, machine
  <2>2. CASE missteps # {}
    BY <1>1, <2>1, <2>2 DEF SnapshotsInv, snapshotVars
  <2>3. CASE missteps = {}
    <3>1. MachineGood /\ JobsGood
      BY <2>3 DEF SnapshotsInv
    <3>2. UNCHANGED machine
      BY <1>1 DEF snapshotVars
    <3>3. \A q \in Requests \ {} : job'[q] = job[q] /\ ask'[q] = ask[q]
      BY <1>1 DEF snapshotVars
    <3>4. \A p \in Requests \cap {} :
             /\ EditGood(p)' /\ ChoiceGood(p)'
             /\ \A q \in Requests \ {p} : EditsApart(q, p)' /\ EditsApart(p, q)'
      OBVIOUS
    <3> QED BY <2>1, <3>1, <3>2, <3>3, <3>4, QueueStep
  <2> QED BY <2>2, <2>3
<1>2. CASE SnapshotsNext
  <2>1. SnapshotsTypeOK /\ MachineGood /\ JobsGood
    BY <1>2 DEF SnapshotsInv, SnapshotsNext
  <2>2. CASE GuestChanges \/ GuestPowersOff \/ StartMachine \/ SnapshotCrash
    BY <2>1, <2>2, GuestWrote, PoweredOff, MachineStarted, Crashed
  <2>3. ASSUME NEW r \in Requests, Submit(r) \/ ExecuteSnapshot(r) \/ Step(r) \/ Return(r)
        PROVE  SnapshotsInv'
    BY <2>1, <2>3, Submitted, Executed, StepKeeps, Returned
  <2> QED BY <1>2, <2>2, <2>3 DEF SnapshotsNext
<1> QED BY <1>1, <1>2

(* The invariant of the snapshots: the values are of their types, and as   *)
(* long as nothing named as a misstep has happened the disk reads what it  *)
(* should, every kept snapshot has its files unchanged and unwritten, and  *)
(* every task relies on what is still so.                                  *)
THEOREM SnapshotsInvariant == SnapshotsSpec => []SnapshotsInv
<1> QED BY SnapshotsStart, SnapshotsStep, PTL DEF SnapshotsSpec

(* Whatever snapshots are made, gone back to and deleted, by tasks that    *)
(* overlap, fail and are lost in crashes, the disk of the machine reads    *)
(* what the guest last wrote or went back to.                              *)
THEOREM CurrentIsKept == SnapshotsSpec => []CurrentKept
<1>1. SnapshotsInv => CurrentKept
  BY DEF SnapshotsInv, MachineGood, CurrentKept
<1> QED BY <1>1, SnapshotsInvariant, PTL

(* A snapshot that no task has begun to delete can be gone back to, and    *)
(* that gives what the disk held when it was taken.                        *)
THEOREM SnapshotsAreKept == SnapshotsSpec => []SnapshotKept
<1>1. SnapshotsInv => SnapshotKept
  <2> SUFFICES ASSUME SnapshotsInv, missteps = {}, NEW s \in DOMAIN snaps, ~ snaps[s].touched
               PROVE  Restorable(s) /\ Given(s) = snaps[s].want
    BY DEF SnapshotKept
  <2>1. SnapshotsTypeOK /\ MachineGood
    BY DEF SnapshotsInv
  <2>2. Survives(files, disk, snaps[s]) /\ snaps[s].origin \in DOMAIN files
    BY <2>1, KnownEntry
  <2>3. Restorable(s)
    BY <2>2 DEF Survives, Restorable, Reads, External
  <2>4. Given(s) = GivenIn(files, snaps[s])
    BY <2>2 DEF Given, GivenIn, Reads, Base
  <2> QED BY <2>2, <2>3, <2>4 DEF Survives
<1> QED BY <1>1, SnapshotsInvariant, PTL

=============================================================================
