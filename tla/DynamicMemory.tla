---------------------------- MODULE DynamicMemory ----------------------------
(***************************************************************************)
(* The scheduler of dynamic memory (service/vm/memory/scheduler.go): in a  *)
(* round it looks at the host once and then at one running machine after   *)
(* another, and gives a machine memory or takes some back.  Meanwhile an   *)
(* administrator sets the memory of a machine by hand, which pauses the    *)
(* scheduler for it.  Sizes are in some unit; a guest follows at once.     *)
(***************************************************************************)
EXTENDS Integers, FiniteSets, NoValue

CONSTANTS
    VMs, Order,             \* the machines, and as libvirt lists them
    MinMemory, Initial, MaxMemory,   \* of each machine
    Step, VirtioStep,       \* 256 MB and 1024 MB
    Uses,                   \* what guests may use
    LowRounds, HighRounds,  \* 2 and 5 in the code
    Cooldown, Pause,        \* rounds in 120 seconds, and in ten minutes
    HostFree, Reserve       \* of the host: what it has at first, and its reserve

(* What is asked for by hand, and rounds of the scheduler.                 *)
Requested == [vm : VMs, target : MinMemory..MaxMemory]
Rounds == [at : 1..Cardinality(VMs), host : Int, vm : VMs \cup {None}, paused : BOOLEAN]

ASSUME MemoryAssumption ==
    /\ IsFiniteSet(VMs) /\ VMs # {} /\ Order \in [1..Cardinality(VMs) -> VMs]
    /\ {MinMemory, Initial, MaxMemory} \subseteq Nat /\ MinMemory =< Initial /\ Initial =< MaxMemory
    /\ {Step, VirtioStep, LowRounds, HighRounds} \subseteq Nat \ {0} /\ Uses \subseteq Nat
    /\ {Cooldown, Pause} \subseteq Nat
    /\ {HostFree, Reserve} \subseteq Int /\ HostFree >= Reserve
    /\ None \notin VMs \cup Int \cup Requested \cup Rounds

VARIABLES
    backend,            \* "balloon" or "virtio"
    actual, available,  \* of each machine, and what the host has left
    pause, cool,        \* rounds for which it is paused, and cools down
    low, high,          \* rounds in which it had too little and too much
    round,              \* the round under way: where it is, what was read
    manual,             \* the administrator's request under way
    given,              \* history: what was set by hand and is to last
    breaches            \* history: how the reserve came to be broken

memoryVars == <<backend, actual, available, pause, cool, low, high, round, manual, given, breaches>>

MaxInt(a, b) == IF a > b THEN a ELSE b
MinInt(a, b) == IF a < b THEN a ELSE b
Breaks(w) == breaches' = IF available' < Reserve THEN breaches \cup w ELSE {}
Sets(v, m) == /\ actual' = [actual EXCEPT ![v] = m]
              /\ available' = available - (m - actual[v])

InitMemory ==
    /\ backend \in [VMs -> {"balloon", "virtio"}]
    /\ actual = [v \in VMs |-> Initial] /\ available = HostFree
    /\ pause = [v \in VMs |-> 0] /\ cool = [v \in VMs |-> 0]
    /\ low = [v \in VMs |-> 0] /\ high = [v \in VMs |-> 0]
    /\ round = None /\ manual = None
    /\ given = [v \in VMs |-> None] /\ breaches = {}

-----------------------------------------------------------------------------
(* The administrator.                                                      *)

(* SetVMMemoryCurrent writes that the scheduler is to pause, then sets the *)
(* memory.                                                                 *)
Allowed(v) == (IF backend[v] = "virtio" THEN Initial ELSE MinMemory)..MaxMemory

PauseScheduler(v, m) ==
    /\ manual = None /\ m \in Allowed(v)
    /\ manual' = [vm |-> v, target |-> m]
    /\ pause' = [pause EXCEPT ![v] = Pause]
    /\ UNCHANGED <<backend, actual, available, cool, low, high, round, given, breaches>>

SetVMMemoryCurrent ==
    /\ manual # None /\ manual' = None
    /\ Sets(manual.vm, manual.target)
    /\ given' = [given EXCEPT ![manual.vm] = IF pause[manual.vm] > 0 THEN manual.target ELSE None]
    /\ Breaks({"manual"})
    /\ UNCHANGED <<backend, pause, cool, low, high, round>>

-----------------------------------------------------------------------------
(* The scheduler.                                                          *)

(* getHostMemoryPressure, after the interval: the time counted in rounds.  *)
BeginRound ==
    /\ round = None
    /\ round' = [at |-> 1, host |-> available, vm |-> None, paused |-> FALSE]
    /\ pause' = [v \in VMs |-> MaxInt(pause[v] - 1, 0)]
    /\ cool' = [v \in VMs |-> MaxInt(cool[v] - 1, 0)]
    /\ given' = [v \in VMs |-> IF pause'[v] = 0 THEN None ELSE given[v]]
    /\ UNCHANGED <<backend, actual, available, low, high, manual, breaches>>

Following == IF round.at = Cardinality(VMs) THEN None
             ELSE [at |-> round.at + 1, host |-> round.host, vm |-> None, paused |-> round.paused]

(* Fault: a pause is not looked at.                                        *)
ReadHeedless ==
    /\ round # None /\ round.vm = None
    /\ LET v == Order[round.at] IN
       round' = IF cool[v] > 0 THEN Following
                ELSE [round EXCEPT !.vm = v, !.paused = pause[v] > 0]
    /\ UNCHANGED <<backend, actual, available, pause, cool, low, high, manual, given, breaches>>

(* The metadata is read here, and not again.                               *)
ReadVMMemoryMetadata ==
    /\ round # None /\ round.vm = None
    /\ LET v == Order[round.at] IN
       round' = IF pause[v] > 0 \/ cool[v] > 0 THEN Following
                ELSE [round EXCEPT !.vm = v, !.paused = FALSE]
    /\ UNCHANGED <<backend, actual, available, pause, cool, low, high, manual, given, breaches>>

TooLow(v, u) == 100 * (actual[v] - u) < 15 * actual[v]
TooHigh(v, u) == 100 * (actual[v] - u) > 35 * actual[v]

Targets(v, m) ==
    /\ Sets(v, m)
    /\ cool' = [cool EXCEPT ![v] = Cooldown]
    /\ low' = [low EXCEPT ![v] = 0] /\ high' = [high EXCEPT ![v] = 0]
    /\ Breaks(IF m > actual[v] /\ round.host # available THEN {"stale"} ELSE {})
    /\ given' = IF round.paused THEN given ELSE [given EXCEPT ![v] = None]

Counts(v, l, h) ==
    /\ low' = [low EXCEPT ![v] = MinInt(l, LowRounds)]
    /\ high' = [high EXCEPT ![v] = MinInt(h, HighRounds)]
    /\ UNCHANGED <<actual, available, cool, given, breaches>>

GrowTarget(v, u) ==
    LET most == MaxInt((u * 135) \div 100, (actual[v] * 125) \div 100)
    IN MinInt(MaxInt(most, actual[v] + Step), MaxMemory)

ReclaimFloor == IF round.host < Reserve THEN MinMemory ELSE Initial

(* The target is at least the floor, and then a step below the present     *)
(* size whatever the floor.                                                *)
ReclaimTarget(v, u, floor) ==
    MinInt(MaxInt((u * 125) \div 100, floor), actual[v] - Step)

HostAllows(v, m) == round.host - (m - actual[v]) >= Reserve

(* Fault: memory is taken back without a look at the floor.                *)
ScheduleFloorless(v, u) ==
    LET l == IF TooLow(v, u) THEN low[v] + 1 ELSE 0
        h == IF TooHigh(v, u) THEN high[v] + 1 ELSE 0
    IN IF l >= LowRounds /\ actual[v] < MaxMemory
       THEN IF HostAllows(v, GrowTarget(v, u)) THEN Targets(v, GrowTarget(v, u)) ELSE Counts(v, l, h)
       ELSE IF h >= HighRounds /\ actual[v] > Step
       THEN Targets(v, ReclaimTarget(v, u, ReclaimFloor))
       ELSE Counts(v, l, h)

scheduleVMMemory(v, u) ==
    LET l == IF TooLow(v, u) THEN low[v] + 1 ELSE 0
        h == IF TooHigh(v, u) THEN high[v] + 1 ELSE 0
    IN IF l >= LowRounds /\ actual[v] < MaxMemory
       THEN IF HostAllows(v, GrowTarget(v, u)) THEN Targets(v, GrowTarget(v, u)) ELSE Counts(v, l, h)
       ELSE IF h >= HighRounds /\ actual[v] > ReclaimFloor
       THEN Targets(v, ReclaimTarget(v, u, ReclaimFloor))
       ELSE Counts(v, l, h)

(* calculateVirtioMemScheduleTarget; shrinking leaves 70 percent in use.   *)
VirtioTarget(v, u) ==
    LET shrunk == MaxInt((u * 100 + 69) \div 70, Initial)
    IN CASE 100 * u > 70 * actual[v] /\ actual[v] < MaxMemory ->
              MinInt(actual[v] + VirtioStep, MaxMemory)
         [] 100 * u < 50 * actual[v] /\ actual[v] > Initial -> MinInt(shrunk, actual[v])
         [] OTHER -> actual[v]

scheduleVMVirtioMem(v, u) ==
    LET m == VirtioTarget(v, u) IN
    IF u > 0 /\ m # actual[v] /\ (m > actual[v] => HostAllows(v, m))
    THEN Targets(v, m)
    ELSE UNCHANGED <<actual, available, cool, low, high, given, breaches>>

Schedule ==
    /\ round # None /\ round.vm # None
    /\ \E use \in Uses :
         LET u == MinInt(use, actual[round.vm]) IN
         IF backend[round.vm] = "virtio" THEN scheduleVMVirtioMem(round.vm, u)
         ELSE scheduleVMMemory(round.vm, u)
    /\ round' = Following
    /\ UNCHANGED <<backend, pause, manual>>

MemoryNext ==
    \/ BeginRound \/ ReadVMMemoryMetadata \/ Schedule \/ SetVMMemoryCurrent
    \/ \E v \in VMs : \E m \in {MinMemory, Initial, MaxMemory} : PauseScheduler(v, m)

MemorySpec == InitMemory /\ [][MemoryNext]_memoryVars

-----------------------------------------------------------------------------
MemoryTypeOK ==
    /\ backend \in [VMs -> {"balloon", "virtio"}] /\ actual \in [VMs -> Int] /\ available \in Int
    /\ pause \in [VMs -> 0..Pause] /\ cool \in [VMs -> 0..Cooldown]
    /\ low \in [VMs -> 0..LowRounds] /\ high \in [VMs -> 0..HighRounds]
    /\ round \in Rounds \cup {None} /\ manual \in Requested \cup {None}
    /\ given \in [VMs -> Int \cup {None}] /\ breaches \subseteq {"stale", "manual"}

(* However guests, rounds and requests follow each other, the host keeps   *)
(* its reserve and a machine is never beyond its maximum, nor below its    *)
(* minimum by a whole step (the code takes a step even from just above the *)
(* floor).  It is exposed to what a machine earlier in the round, or an    *)
(* administrator, took since the round looked at the host.                 *)
SizesKept ==
    /\ available >= Reserve \/ breaches # {}
    /\ \A v \in VMs :
         /\ actual[v] =< MaxMemory
         /\ actual[v] > IF backend[v] = "virtio" THEN Initial - 1 ELSE MinMemory - Step

(* What the administrator sets by hand lasts for as long as the pause,     *)
(* unless the scheduler had read the machine's metadata before (which the  *)
(* history takes as the end of what was asked).                            *)
ManualKept ==
    \A v \in VMs : given[v] # None /\ manual = None => actual[v] = given[v]
=============================================================================
