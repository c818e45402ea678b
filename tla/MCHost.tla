------------------------------- MODULE MCHost -------------------------------
(* What the panel does on its host: the calendar of schedules, the events  *)
(* its users are sent, batches, traffic quotas, migrations to another node *)
(* and dynamic memory, under the names they have in their modules.  A      *)
(* behaviour takes one part, and the variables of the others stay as they  *)
(* are in one initial state.                                               *)
EXTENDS ScheduleClock, TaskEvents, BatchCreate, TrafficQuota, NodeMigration, DynamicMemory, TLC

CONSTANTS r1, r2, v1, v2, t1, t2, w1, ann, root, c1

VARIABLE part

MCCreatedBy == [t \in Tasks |-> IF t = t1 THEN ann ELSE root]
MCViewer == [c \in Clients |-> ann]
MCOrder == <<v1, v2>>

Symmetric == Permutations({r1, r2})

eventVars == <<vars, evars>>
allVars == <<part, clockVars, eventVars, batchVars, trafficVars, migrationVars, memoryVars>>

NoClock == plan = [type |-> "once", runAt |-> 0] /\ base = 0 /\ next = None
NoEvents == Init /\ InitEvents
NoBatch == InitBatch /\ batchKind = "vm"
NoTraffic == InitTraffic /\ holder = "switch" /\ quota = 0
NoMigration == InitMigration /\ src.on
NoMemory == InitMemory /\ backend = [v \in VMs |-> "balloon"]

MCInit ==
    /\ part \in {"clock", "events", "batch", "traffic", "migration", "memory"}
    /\ IF part = "clock" THEN InitClock ELSE NoClock
    /\ NoEvents
    /\ IF part = "batch" THEN InitBatch ELSE NoBatch
    /\ IF part = "traffic" THEN InitTraffic ELSE NoTraffic
    /\ IF part = "migration" THEN InitMigration ELSE NoMigration
    /\ IF part = "memory" THEN InitMemory ELSE NoMemory

MCNext ==
    \/ /\ part = "clock" /\ ClockNext
       /\ UNCHANGED <<part, eventVars, batchVars, trafficVars, migrationVars, memoryVars>>
    \/ /\ part = "events" /\ EventsNext
       /\ UNCHANGED <<part, clockVars, batchVars, trafficVars, migrationVars, memoryVars>>
    \/ /\ part = "batch" /\ BatchNext
       /\ UNCHANGED <<part, clockVars, eventVars, trafficVars, migrationVars, memoryVars>>
    \/ /\ part = "traffic" /\ TrafficNext
       /\ UNCHANGED <<part, clockVars, eventVars, batchVars, migrationVars, memoryVars>>
    \/ /\ part = "migration" /\ MigrationNext
       /\ UNCHANGED <<part, clockVars, eventVars, batchVars, trafficVars, memoryVars>>
    \/ /\ part = "memory" /\ MemoryNext
       /\ UNCHANGED <<part, clockVars, eventVars, batchVars, trafficVars, migrationVars>>

MCSpec == MCInit /\ [][MCNext]_allVars
=============================================================================
