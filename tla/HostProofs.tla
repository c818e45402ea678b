------------------------------ MODULE HostProofs ------------------------------
(*****************************************************************************)
(* Theorems about batches of machines (BatchCreate), dynamic memory         *)
(* (DynamicMemory) and migrations to another node (NodeMigration), for any  *)
(* machines, requests, sizes and bounds on errors.                          *)
(*****************************************************************************)
EXTENDS BatchCreate, DynamicMemory, NodeMigration, FiniteSetTheorems, TLAPS

(* BatchCreate.                                                             *)

(* What there is of each machine of a batch, by how far its goroutine is;  *)
(* and of what a goroutine that ended has done, only errors and cancels    *)
(* whose cleaning up failed (left) leave anything but a whole machine.     *)
Undone(i) == have[i] = {} \/ i \in left
StageAt(i) ==
    /\ item[i] # "done" => results[i] = None
    /\ item[i] \in {"none", "queued", "begin"} => have[i] = {}
    /\ item[i] \in {"disk", "define"} => batchKind = "vm"
    /\ item[i] \in {"start", "started", "booting"} => batchKind = "vm" /\ have[i] = Whole
    /\ item[i] \in {"setup", "made"} => have[i] = Whole
    /\ item[i] = "done" =>
         /\ results[i] = "ok" => have[i] = Whole
         /\ results[i] # "ok" => Undone(i)
         /\ results[i] = None => i \in late \/ (cancelled /\ batchKind = "vm")
StageInv == \A i \in Index : StageAt(i)

(* The loop hands out the indices in turn and is over when it returns.     *)
LoopInv ==
    /\ \A i \in Index : item[i] = "none" <=> i >= index
    /\ loop = "acquire" => index =< Count
    /\ loop = "wait" => index > Count
    /\ cancelled \/ late # {} => batchCtx
    /\ ret # None => Working = {} /\ loop \in {"wait", "drain"}
    /\ ret = "success" => loop = "wait" /\ ~ cancelled /\ (batchKind = "vm" \/ ~ batchCtx)

BatchInv == BatchTypeOK /\ StageInv /\ LoopInv

LEMMA BatchStarts == InitBatch => BatchInv
<1> SUFFICES ASSUME InitBatch PROVE BatchInv
  OBVIOUS
<1> USE BatchAssumption DEF InitBatch
<1>1. BatchTypeOK
  <2>1. index \in 1..Count + 1 /\ errors \in 0..MaxErrors
    OBVIOUS
  <2>2. have \in [Index -> SUBSET Whole]
    OBVIOUS
  <2>3. /\ item \in [Index -> {"none", "queued", "begin", "disk", "define", "start", "started",
                            "booting", "setup", "made", "done"}]
        /\ results \in [Index -> {None, "ok", "error"}]
    OBVIOUS
  <2> QED BY <2>1, <2>2, <2>3 DEF BatchTypeOK, BatchKinds
<1>2. StageInv
  BY DEF StageInv, StageAt, Index
<1>3. LoopInv
  BY DEF LoopInv, Index
<1> QED BY <1>1, <1>2, <1>3 DEF BatchInv

(* The loop, and the user.                                                 *)
LEMMA LoopGoesOn ==
    ASSUME BatchInv, Cancel \/ Loop \/ Acquire \/ ReturnBatch
    PROVE  BatchInv'
<1> USE BatchAssumption DEF BatchInv
<1>1. CASE Cancel
  BY <1>1 DEF Cancel, BatchTypeOK, StageInv, StageAt, LoopInv, Undone, Whole, Working
<1>2. CASE Loop
  BY <1>2 DEF Loop, BatchTypeOK, StageInv, StageAt, LoopInv, Undone, Whole, Working, Index
<1>3. CASE Acquire
  BY <1>3 DEF Acquire, GoItem, BatchTypeOK, StageInv, StageAt, LoopInv, Undone, Whole, Working,
     Index
<1>4. CASE ReturnBatch
  BY <1>4 DEF ReturnBatch, BatchTypeOK, StageInv, StageAt, LoopInv, Undone, Whole, Working
<1> QED BY <1>1, <1>2, <1>3, <1>4

(* A step of one goroutine that leaves the others alone.                   *)
ItemMoves(i) ==
    /\ item[i] \notin {"none", "done"} /\ item'[i] # "none"
    /\ \A j \in Index \ {i} :
         item'[j] = item[j] /\ have'[j] = have[j] /\ results'[j] = results[j]
    /\ BatchTypeOK'
    /\ left \subseteq left' /\ late \subseteq late'
    /\ cancelled => cancelled'
    /\ cancelled' \/ late' # {} => batchCtx'
    /\ UNCHANGED <<batchKind, loop, index, ret>>

LEMMA ItemStep ==
    ASSUME BatchInv, NEW i \in Index, ItemMoves(i), StageAt(i)'
    PROVE  BatchInv'
<1> USE DEF BatchInv
<1>1. ret = None
  BY DEF ItemMoves, LoopInv, Working
<1>2. StageInv'
  <2> SUFFICES ASSUME NEW j \in Index, j # i PROVE StageAt(j)'
    BY DEF StageInv
  <2>1. item'[j] = item[j] /\ have'[j] = have[j] /\ results'[j] = results[j]
    BY DEF ItemMoves, BatchTypeOK
  <2> QED BY <2>1 DEF ItemMoves, StageInv, StageAt, Undone, Whole
<1>3. LoopInv'
  <2>1. \A j \in Index : item'[j] = "none" <=> item[j] = "none"
    BY DEF ItemMoves, BatchTypeOK
  <2> QED BY <1>1, <2>1, BatchAssumption DEF ItemMoves, LoopInv
<1> QED BY <1>2, <1>3 DEF ItemMoves

LEMMA ItemGoesOn ==
    ASSUME BatchInv, NEW i \in Index,
           \/ Look(i) \/ CreateDisk(i) \/ CheckItemCanceled(i) \/ DefineDomain(i) \/ StartVM(i)
           \/ cloneContainer(i) \/ SetUpContainer(i) \/ Made(i)
    PROVE  BatchInv'
<1> USE BatchAssumption
<1>0. BatchTypeOK /\ StageAt(i) /\ (cancelled \/ late # {} => batchCtx)
  BY DEF BatchInv, StageInv, LoopInv
<1>1. CASE Look(i)
  <2>1. ItemMoves(i) /\ StageAt(i)'
    BY <1>0, <1>1 DEF Look, ItemMoves, StageAt, Undone, Whole, BatchTypeOK, ItemAt, GoItem
  <2> QED BY <2>1, ItemStep
<1>2. CASE CreateDisk(i)
  <2>0. /\ \E d \in SUBSET Whole : have' = [have EXCEPT ![i] = d]
        /\ \E to \in {"disk", "done"} : item' = [item EXCEPT ![i] = to]
        /\ \E what \in {None, "error"} : results' = [results EXCEPT ![i] = what]
        /\ errors' \in 0..MaxErrors /\ left' \subseteq Index
        /\ UNCHANGED <<batchKind, loop, index, batchCtx, cancelled, ret, late>>
    <3>1. CASE Proceeds(i, {"disk"}, "disk") /\ Clean
      BY <1>0, <1>2, <3>1 DEF CreateDisk, Proceeds, Clean, Unlooped, Has, GoItem, ItemAt,
         StageAt, Whole, BatchTypeOK
    <3>2. ASSUME NEW d \in SUBSET {"disk"}, Failed(i, d), Leaves(i, d) PROVE <2>0!:
      <4>1. d \in SUBSET Whole
        BY <1>2 DEF CreateDisk, Whole
      <4>2. /\ have' = [have EXCEPT ![i] = d] /\ item' = [item EXCEPT ![i] = "done"]
            /\ results' = [results EXCEPT ![i] = "error"]
            /\ errors' \in 0..MaxErrors
            /\ UNCHANGED <<batchCtx, cancelled>>
        BY <1>0, <3>2 DEF Failed, ItemFault, Has, Report, GoItem, BatchTypeOK
      <4>3. left' \subseteq Index
        BY <1>0, <3>2 DEF Leaves, BatchTypeOK
      <4> QED BY <1>2, <4>1, <4>2, <4>3 DEF CreateDisk, Unlooped
    <3> QED BY <1>2, <3>1, <3>2 DEF CreateDisk
  <2>1. BatchTypeOK'
    BY <1>0, <2>0 DEF BatchTypeOK, Whole
  <2>2. ItemMoves(i)
    BY <2>1, <1>0, <1>2 DEF CreateDisk, ItemMoves, StageAt, Undone, Whole, BatchTypeOK, ItemAt,
       GoItem, Proceeds, Failed, Clean, Leaves, Unlooped, ItemFault, Has, Report
  <2>3. StageAt(i)'
    BY <1>0, <1>2 DEF CreateDisk, StageAt, Undone, Whole, BatchTypeOK, ItemAt, GoItem, Proceeds,
       Failed, Clean, Leaves, Unlooped, ItemFault, Has, Report
  <2> QED BY <2>2, <2>3, ItemStep
<1>3. CASE CheckItemCanceled(i)
  <2>0. /\ \E d \in SUBSET have[i] : have' = [have EXCEPT ![i] = d]
        /\ \E to \in {"define", "booting", "made", "done"} : item' = [item EXCEPT ![i] = to]
        /\ errors' \in 0..MaxErrors /\ left' \subseteq Index
        /\ batchCtx' \in BOOLEAN /\ cancelled' \in BOOLEAN
        /\ UNCHANGED <<batchKind, loop, index, results, ret, late>>
    <3>1. CASE batchCtx /\ Canceled(i)
      BY <1>0, <1>3, <3>1 DEF CheckItemCanceled, Canceled, Leaves, ItemFault, Unlooped, Has,
         GoItem, BatchTypeOK
    <3>2. CASE ~ batchCtx
      BY <1>0, <1>3, <3>2 DEF CheckItemCanceled, Proceeds, Clean, Unlooped, Has, GoItem, ItemAt,
         BatchTypeOK
    <3> QED BY <1>3, <3>1, <3>2 DEF CheckItemCanceled
  <2>1. BatchTypeOK'
    BY <1>0, <2>0 DEF BatchTypeOK, Whole
  <2>2. ItemMoves(i)
    BY <2>1, <1>0, <1>3 DEF CheckItemCanceled, ItemMoves, StageAt, Undone, Whole, BatchTypeOK,
       ItemAt, GoItem, Proceeds, Canceled, Clean, Leaves, Unlooped, ItemFault, Has
  <2>3. StageAt(i)'
    BY <1>0, <1>3 DEF CheckItemCanceled, StageAt, Undone, Whole, BatchTypeOK, ItemAt, GoItem,
       Proceeds, Canceled, Clean, Leaves, Unlooped, ItemFault, Has
  <2> QED BY <2>2, <2>3, ItemStep
<1>4. CASE DefineDomain(i)
  <2>1. ItemMoves(i) /\ StageAt(i)'
    BY <1>0, <1>4 DEF DefineDomain, ItemMoves, StageAt, Undone, Whole, BatchTypeOK, ItemAt,
       GoItem, Proceeds, Failed, Clean, Unlooped, ItemFault, Has, Report
  <2> QED BY <2>1, ItemStep
<1>5. CASE StartVM(i)
  <2>1. ItemMoves(i) /\ StageAt(i)'
    BY <1>0, <1>5 DEF StartVM, ItemMoves, StageAt, Undone, Whole, BatchTypeOK, ItemAt, GoItem,
       Proceeds, Failed, Clean, Leaves, Unlooped, ItemFault, Has, Report
  <2> QED BY <2>1, ItemStep
<1>6. CASE cloneContainer(i)
  <2>1. ItemMoves(i) /\ StageAt(i)'
    BY <1>0, <1>6 DEF cloneContainer, ItemMoves, StageAt, Undone, Whole, BatchTypeOK, ItemAt,
       GoItem, Proceeds, Failed, Clean, Leaves, Unlooped, ItemFault, Has, Report
  <2> QED BY <2>1, ItemStep
<1>7. CASE SetUpContainer(i)
  <2>1. ItemMoves(i) /\ StageAt(i)'
    BY <1>0, <1>7 DEF SetUpContainer, ItemMoves, StageAt, Undone, Whole, BatchTypeOK, ItemAt,
       GoItem, Proceeds, Failed, Clean, Leaves, Unlooped, ItemFault, Has, Report
  <2> QED BY <2>1, ItemStep
<1>8. CASE Made(i)
  <2>1. BatchTypeOK'
    BY <1>0, <1>8 DEF Made, StageAt, Undone, Whole, BatchTypeOK, ItemAt, GoItem, Report
  <2>2. ItemMoves(i)
    BY <2>1, <1>0, <1>8 DEF Made, ItemMoves, StageAt, Undone, Whole, BatchTypeOK, ItemAt,
       GoItem, Report
  <2>3. StageAt(i)'
    BY <1>0, <1>8 DEF Made, StageAt, Undone, Whole, BatchTypeOK, ItemAt, GoItem, Report
  <2> QED BY <2>2, <2>3, ItemStep
<1> QED BY <1>1, <1>2, <1>3, <1>4, <1>5, <1>6, <1>7, <1>8

(* The inductive invariant of a batch of any size.                         *)
THEOREM BatchInvariant == BatchSpec => []BatchInv
<1>1. BatchInv /\ [BatchNext]_batchVars => BatchInv'
  <2> SUFFICES ASSUME BatchInv, [BatchNext]_batchVars PROVE BatchInv'
    OBVIOUS
  <2>1. CASE UNCHANGED batchVars
    BY <2>1 DEF batchVars, BatchInv, BatchTypeOK, StageInv, StageAt, LoopInv, Undone, Whole,
       Working
  <2>2. CASE BatchNext
    BY <2>2, LoopGoesOn, ItemGoesOn DEF BatchNext
  <2> QED BY <2>1, <2>2
<1> QED BY BatchStarts, <1>1, PTL DEF BatchSpec

(* A batch keeps its types.                                                *)
THEOREM BatchTypes == BatchSpec => []BatchTypeOK
<1>1. BatchInv => BatchTypeOK
  BY DEF BatchInv
<1> QED BY BatchInvariant, <1>1, PTL

(* A batch of machines or containers that ended well says of each one what *)
(* came of it, and those it reports are there (clone/batch.go,             *)
(* lxc/batch.go): for any number of them, of errors and of slots.          *)
THEOREM SuccessTellsAll == BatchSpec => []SuccessIsComplete
<1>1. BatchInv => SuccessIsComplete
  <2> SUFFICES ASSUME BatchInv, ret = "success", NEW i \in Index
               PROVE  /\ results[i] = None => batchKind = "vm" /\ i \in late
                      /\ results[i] = "ok" => have[i] = Whole
    BY DEF SuccessIsComplete
  <2>1. item[i] = "done"
    BY BatchAssumption DEF BatchInv, BatchTypeOK, LoopInv, Working, Index
  <2> QED BY <2>1, BatchAssumption DEF BatchInv, StageInv, StageAt, LoopInv
<1> QED BY BatchInvariant, <1>1, PTL

(* What a batch did not make has left nothing behind, whatever failed and  *)
(* whenever it was canceled, but for errors of the cleaning up and steps   *)
(* without one (clone/core.go, lxc/create.go).                             *)
THEOREM NothingIsHalfMade == BatchSpec => []NothingHalfMade
<1>1. BatchInv => NothingHalfMade
  <2> SUFFICES ASSUME BatchInv, ret # None, NEW i \in Index \ left
               PROVE  have[i] = IF results[i] = "ok" THEN Whole ELSE {}
    BY DEF NothingHalfMade
  <2>1. item[i] \in {"none", "done"}
    BY DEF BatchInv, LoopInv, Working
  <2> QED BY <2>1, BatchAssumption DEF BatchInv, StageInv, StageAt, Undone
<1> QED BY BatchInvariant, <1>1, PTL

-----------------------------------------------------------------------------
(* DynamicMemory.                                                           *)

(* What is asked for by hand is within a machine's limits; machines are    *)
(* within them; what is missing of the reserve has a name; what was set by *)
(* hand is still so; and a round stands at machines it found not paused.   *)
Least(v) == IF backend[v] = "virtio" THEN Initial ELSE MinMemory - Step + 1
ManualInv == manual # None => manual.target \in Allowed(manual.vm)
LimitsInv == \A v \in VMs : actual[v] =< MaxMemory /\ actual[v] >= Least(v)
ReserveInv == available >= Reserve \/ breaches # {}
GivenInv == \A v \in VMs : given[v] # None => actual[v] = given[v]
RoundInv == round # None => ~ round.paused

MemoryInv == MemoryTypeOK /\ ManualInv /\ LimitsInv /\ ReserveInv /\ GivenInv /\ RoundInv

LEMMA MachinesAreCounted == Cardinality(VMs) \in Nat \ {0}
  BY MemoryAssumption, FS_CardinalityType, FS_EmptySet

LEMMA SizesType ==
    /\ MinMemory \in Nat /\ Initial \in Nat /\ MaxMemory \in Nat
    /\ MinMemory =< Initial /\ Initial =< MaxMemory
    /\ Step \in Nat \ {0} /\ VirtioStep \in Nat \ {0}
    /\ LowRounds \in Nat \ {0} /\ HighRounds \in Nat \ {0}
    /\ Cooldown \in Nat /\ Pause \in Nat /\ Reserve \in Int /\ HostFree \in Int
  BY MemoryAssumption

LEMMA MemoryStarts == InitMemory => MemoryInv
<1> SUFFICES ASSUME InitMemory PROVE MemoryInv
  OBVIOUS
<1> USE SizesType, MemoryAssumption DEF InitMemory
<1>1. MemoryTypeOK
  BY DEF MemoryTypeOK
<1>2. ManualInv /\ LimitsInv /\ ReserveInv /\ GivenInv /\ RoundInv
  BY DEF ManualInv, LimitsInv, ReserveInv, GivenInv, RoundInv, Least
<1> QED BY <1>1, <1>2 DEF MemoryInv

(* A round goes on to the next machine, or is over.                        *)
LEMMA FollowingType ==
    ASSUME MemoryTypeOK, round # None, ~ round.paused
    PROVE  Following \in Rounds \cup {None} /\ (Following # None => ~ Following.paused)
<1>1. round.at \in 1..Cardinality(VMs) /\ Cardinality(VMs) \in Nat /\ round \in Rounds
  BY MachinesAreCounted DEF MemoryTypeOK, Rounds
<1>2. CASE round.at = Cardinality(VMs)
  BY <1>2 DEF Following
<1>3. CASE round.at # Cardinality(VMs)
  <2>1. round.at + 1 \in 1..Cardinality(VMs) /\ round.host \in Int /\ round.paused = FALSE
    BY <1>1, <1>3 DEF Rounds
  <2>2. Following = [at |-> round.at + 1, host |-> round.host, vm |-> None, paused |-> FALSE]
    BY <1>3, <2>1 DEF Following
  <2> QED BY <2>1, <2>2 DEF Rounds
<1> QED BY <1>2, <1>3

(* Memory set within the limits: the reserve is broken by growth alone,    *)
(* and then under a name.                                                  *)
LEMMA SetKeeps ==
    ASSUME MemoryInv, NEW v \in VMs, NEW m \in Int, NEW w \in SUBSET {"stale", "manual"},
           Sets(v, m), Breaks(w), m =< MaxMemory, m >= Least(v),
           m > actual[v] /\ w = {} => available - (m - actual[v]) >= Reserve,
           backend' = backend, given' \in [VMs -> Int \cup {None}],
           given'[v] \in {None, m}, \A u \in VMs \ {v} : given'[u] \in {None, given[u]}
    PROVE  /\ actual' \in [VMs -> Int] /\ available' \in Int
           /\ breaches' \subseteq {"stale", "manual"}
           /\ LimitsInv' /\ ReserveInv' /\ GivenInv'
<1> USE SizesType, MemoryAssumption DEF MemoryInv
<1>1. /\ actual' = [actual EXCEPT ![v] = m] /\ available' = available - (m - actual[v])
      /\ actual \in [VMs -> Int] /\ available \in Int /\ breaches \subseteq {"stale", "manual"}
  BY DEF Sets, MemoryTypeOK
<1>2. LimitsInv'
  BY <1>1 DEF LimitsInv, Least
<1>3. actual' \in [VMs -> Int] /\ available' \in Int /\ actual[v] \in Int
  BY <1>1
<1>4. breaches' = IF available' < Reserve THEN breaches \cup w ELSE {}
  BY DEF Breaks
<1>5. ReserveInv'
  BY <1>1, <1>3, <1>4 DEF ReserveInv
<1>6. GivenInv'
  BY <1>1 DEF GivenInv
<1> QED BY <1>1, <1>2, <1>3, <1>4, <1>5, <1>6

(* What the scheduler sets.                                                *)
LEMMA TargetsKeep ==
    ASSUME MemoryInv, round # None, NEW v \in VMs, NEW m \in Int,
           Targets(v, m), m =< MaxMemory, m >= Least(v), m > actual[v] => HostAllows(v, m),
           round' = Following, UNCHANGED <<backend, pause, manual>>
    PROVE  MemoryInv'
<1> USE SizesType, MemoryAssumption DEF MemoryInv
<1> DEFINE w == IF m > actual[v] /\ round.host # available THEN {"stale"} ELSE {}
<1>1. /\ ~ round.paused /\ round.host \in Int /\ actual[v] \in Int /\ available \in Int
  BY DEF RoundInv, MemoryTypeOK, Rounds
<1>2. m > actual[v] /\ w = {} => available - (m - actual[v]) >= Reserve
  BY <1>1 DEF HostAllows
<1>3. given' = [given EXCEPT ![v] = None]
  BY <1>1 DEF Targets
<1>4. /\ given' \in [VMs -> Int \cup {None}] /\ given'[v] = None
      /\ \A u \in VMs \ {v} : given'[u] = given[u]
  BY <1>3 DEF MemoryTypeOK
<1>5. Sets(v, m) /\ Breaks(w) /\ w \in SUBSET {"stale", "manual"}
  BY DEF Targets
<1> HIDE DEF w
<1>6. /\ actual' \in [VMs -> Int] /\ available' \in Int /\ breaches' \subseteq {"stale", "manual"}
      /\ LimitsInv' /\ ReserveInv' /\ GivenInv'
  BY <1>2, <1>4, <1>5, SetKeeps
<1>7. /\ cool' \in [VMs -> 0..Cooldown]
      /\ low' \in [VMs -> 0..LowRounds] /\ high' \in [VMs -> 0..HighRounds]
  <2>1. {Cooldown, LowRounds, HighRounds} \subseteq Nat
    OBVIOUS
  <2>2. cool' \in [VMs -> 0..Cooldown]
    BY <2>1 DEF Targets, MemoryTypeOK
  <2> QED BY <2>1, <2>2 DEF Targets, MemoryTypeOK
<1>8. round' \in Rounds \cup {None} /\ RoundInv'
  BY FollowingType, <1>1 DEF RoundInv
<1>9. ManualInv'
  BY DEF ManualInv, Allowed
<1> QED BY <1>4, <1>6, <1>7, <1>8, <1>9 DEF MemoryTypeOK

(* What it leaves as it is.                                                *)
LEMMA LeavesKeep ==
    ASSUME MemoryInv, round # None, round' = Following,
           UNCHANGED <<backend, actual, available, pause, cool, manual, given, breaches>>,
           low' \in [VMs -> 0..LowRounds], high' \in [VMs -> 0..HighRounds]
    PROVE  MemoryInv'
<1>1. round' \in Rounds \cup {None} /\ RoundInv'
  BY FollowingType DEF RoundInv, MemoryInv
<1> QED BY <1>1 DEF MemoryInv, MemoryTypeOK, ManualInv, Allowed, LimitsInv, Least, ReserveInv,
   GivenInv

LEMMA CountsKeep ==
    ASSUME MemoryInv, round # None, NEW v \in VMs, NEW l \in Nat, NEW h \in Nat, Counts(v, l, h),
           round' = Following, UNCHANGED <<backend, pause, manual>>
    PROVE  MemoryInv'
<1>1. MinInt(l, LowRounds) \in 0..LowRounds /\ MinInt(h, HighRounds) \in 0..HighRounds
  BY MemoryAssumption, SizesType DEF MinInt
<1>2. low' \in [VMs -> 0..LowRounds] /\ high' \in [VMs -> 0..HighRounds]
  BY <1>1 DEF Counts, MemoryInv, MemoryTypeOK
<1> QED BY <1>2, LeavesKeep DEF Counts

(* The targets of the balloon's scheduler ...                              *)
LEMMA BalloonSchedules ==
    ASSUME MemoryInv, round # None, NEW v \in VMs, NEW u \in Int, backend[v] # "virtio",
           scheduleVMMemory(v, u), round' = Following, UNCHANGED <<backend, pause, manual>>
    PROVE  MemoryInv'
<1> USE SizesType, MemoryAssumption
<1> DEFINE l == IF TooLow(v, u) THEN low[v] + 1 ELSE 0
           h == IF TooHigh(v, u) THEN high[v] + 1 ELSE 0
<1>1. /\ actual[v] \in Int /\ actual[v] =< MaxMemory /\ actual[v] > MinMemory - Step
      /\ Least(v) = MinMemory - Step + 1
  BY DEF MemoryInv, MemoryTypeOK, LimitsInv, Least
<1>2. l \in Nat /\ h \in Nat
  BY DEF MemoryInv, MemoryTypeOK
<1>3. CASE HostAllows(v, GrowTarget(v, u)) /\ Targets(v, GrowTarget(v, u))
  <2> DEFINE most == MaxInt((u * 135) \div 100, (actual[v] * 125) \div 100)
  <2>1. (u * 135) \div 100 \in Int /\ (actual[v] * 125) \div 100 \in Int
    BY <1>1
  <2>2. most \in Int
    BY <2>1 DEF MaxInt
  <2>3. GrowTarget(v, u) = MinInt(MaxInt(most, actual[v] + Step), MaxMemory)
    BY DEF GrowTarget
  <2> HIDE DEF most
  <2>4. GrowTarget(v, u) \in Int /\ GrowTarget(v, u) =< MaxMemory /\ GrowTarget(v, u) >= Least(v)
    BY <1>1, <2>2, <2>3 DEF MaxInt, MinInt
  <2> QED BY <1>3, <2>4, TargetsKeep
<1>4. CASE actual[v] > ReclaimFloor /\ Targets(v, ReclaimTarget(v, u, ReclaimFloor))
  <2> DEFINE kept == (u * 125) \div 100
  <2>1. kept \in Int
    OBVIOUS
  <2>2. ReclaimFloor \in Int /\ ReclaimFloor >= MinMemory
    BY DEF ReclaimFloor
  <2>3. ReclaimTarget(v, u, ReclaimFloor) = MinInt(MaxInt(kept, ReclaimFloor), actual[v] - Step)
    BY DEF ReclaimTarget
  <2> HIDE DEF kept
  <2> DEFINE m == ReclaimTarget(v, u, ReclaimFloor)
  <2>4. m \in Int /\ m =< MaxMemory /\ m >= Least(v) /\ ~ (m > actual[v])
    BY <1>1, <1>4, <2>1, <2>2, <2>3 DEF MaxInt, MinInt
  <2> QED BY <1>4, <2>4, TargetsKeep
<1>5. CASE Counts(v, l, h)
  BY <1>2, <1>5, CountsKeep
<1> QED BY <1>3, <1>4, <1>5 DEF scheduleVMMemory

(* ... and of the virtio one.                                              *)
LEMMA VirtioSchedules ==
    ASSUME MemoryInv, round # None, NEW v \in VMs, NEW u \in Int, backend[v] = "virtio",
           scheduleVMVirtioMem(v, u), round' = Following, UNCHANGED <<backend, pause, manual>>
    PROVE  MemoryInv'
<1> USE SizesType, MemoryAssumption
<1> DEFINE m == VirtioTarget(v, u)
<1>1. actual[v] \in Int /\ actual[v] =< MaxMemory /\ actual[v] >= Initial /\ Least(v) = Initial
  BY DEF MemoryInv, MemoryTypeOK, LimitsInv, Least
<1>2. (u * 100 + 69) \div 70 \in Int
  OBVIOUS
<1> DEFINE shrunk == MaxInt((u * 100 + 69) \div 70, Initial)
<1>3. shrunk \in Int /\ shrunk >= Initial
  BY <1>2 DEF MaxInt
<1>4. \/ m = MinInt(actual[v] + VirtioStep, MaxMemory)
      \/ m = MinInt(shrunk, actual[v])
      \/ m = actual[v]
  BY DEF VirtioTarget
<1> HIDE DEF m, shrunk
<1>5. m \in Int /\ m =< MaxMemory /\ m >= Least(v)
  BY <1>1, <1>3, <1>4 DEF MinInt
<1>6. CASE (m > actual[v] => HostAllows(v, m)) /\ Targets(v, m)
  BY <1>5, <1>6, TargetsKeep
<1>7. CASE UNCHANGED <<actual, available, cool, low, high, given, breaches>>
  BY <1>7, LeavesKeep DEF MemoryInv, MemoryTypeOK
<1> QED BY <1>6, <1>7 DEF scheduleVMVirtioMem, m

LEMMA ScheduleKeeps ==
    ASSUME MemoryInv, Schedule
    PROVE  MemoryInv'
<1>1. round # None /\ round.vm \in VMs /\ actual \in [VMs -> Int]
  BY DEF Schedule, MemoryInv, MemoryTypeOK, Rounds
<1>2. PICK use \in Uses :
        LET u == MinInt(use, actual[round.vm]) IN
        IF backend[round.vm] = "virtio" THEN scheduleVMVirtioMem(round.vm, u)
        ELSE scheduleVMMemory(round.vm, u)
  BY DEF Schedule
<1>3. MinInt(use, actual[round.vm]) \in Int
  BY <1>1, MemoryAssumption DEF MinInt
<1>4. round' = Following /\ UNCHANGED <<backend, pause, manual>>
  BY DEF Schedule
<1> QED BY <1>1, <1>2, <1>3, <1>4, BalloonSchedules, VirtioSchedules

(* A round begins, and looks at a machine's metadata.                      *)
LEMMA RoundGoesOn ==
    ASSUME MemoryInv, BeginRound \/ ReadVMMemoryMetadata
    PROVE  MemoryInv'
<1> USE SizesType, MemoryAssumption, MachinesAreCounted DEF MemoryInv
<1>1. CASE BeginRound
  <2>1. /\ round' = [at |-> 1, host |-> available, vm |-> None, paused |-> FALSE]
        /\ UNCHANGED <<backend, actual, available, low, high, manual, breaches>>
    BY <1>1 DEF BeginRound
  <2>2. round' \in Rounds /\ ~ round'.paused
    BY <2>1 DEF Rounds, MemoryTypeOK
  <2>3. pause' \in [VMs -> 0..Pause] /\ cool' \in [VMs -> 0..Cooldown]
    <3>1. ASSUME NEW v \in VMs
          PROVE  /\ MaxInt(pause[v] - 1, 0) \in 0..Pause
                 /\ MaxInt(cool[v] - 1, 0) \in 0..Cooldown
      <4>1. pause[v] \in 0..Pause /\ cool[v] \in 0..Cooldown
        BY DEF MemoryTypeOK
      <4> QED BY <4>1, SizesType DEF MaxInt
    <3> QED BY <1>1, <3>1 DEF BeginRound
  <2>4. given' \in [VMs -> Int \cup {None}] /\ \A v \in VMs : given'[v] \in {None, given[v]}
    BY <1>1 DEF BeginRound, MemoryTypeOK
  <2> QED BY <2>1, <2>2, <2>3, <2>4 DEF MemoryTypeOK, ManualInv, Allowed, LimitsInv, Least,
     ReserveInv, GivenInv, RoundInv
<1>2. CASE ReadVMMemoryMetadata
  <2>1. /\ round # None /\ round \in Rounds /\ ~ round.paused
        /\ UNCHANGED <<backend, actual, available, pause, cool, low, high, manual, given, breaches>>
    BY <1>2 DEF ReadVMMemoryMetadata, RoundInv, MemoryTypeOK
  <2>2. Order[round.at] \in VMs
    BY <2>1 DEF Rounds
  <2>3. round' = Following \/ round' = [round EXCEPT !.vm = Order[round.at], !.paused = FALSE]
    BY <1>2 DEF ReadVMMemoryMetadata
  <2>4. round' \in Rounds \cup {None} /\ RoundInv'
    BY <2>1, <2>2, <2>3, FollowingType DEF Rounds, RoundInv
  <2> QED BY <2>1, <2>4 DEF MemoryTypeOK, ManualInv, Allowed, LimitsInv, Least, ReserveInv,
     GivenInv
<1> QED BY <1>1, <1>2

(* Memory is set by hand.                                                  *)
LEMMA HandKeeps ==
    ASSUME MemoryInv, SetVMMemoryCurrent \/ \E v \in VMs : \E m \in Int : PauseScheduler(v, m)
    PROVE  MemoryInv'
<1> USE SizesType, MemoryAssumption
<1>1. ASSUME NEW v \in VMs, NEW m \in Int, PauseScheduler(v, m) PROVE MemoryInv'
  <2>1. /\ manual' = [vm |-> v, target |-> m] /\ m \in Allowed(v)
        /\ pause' = [pause EXCEPT ![v] = Pause]
        /\ UNCHANGED <<backend, actual, available, cool, low, high, round, given, breaches>>
    BY <1>1 DEF PauseScheduler
  <2>2. manual' \in Requested
    BY <2>1 DEF Allowed, Requested
  <2>3. ManualInv'
    BY <2>1 DEF ManualInv, Allowed
  <2>4. pause' \in [VMs -> 0..Pause]
    BY <2>1 DEF MemoryInv, MemoryTypeOK
  <2>5. MemoryTypeOK'
    BY <2>1, <2>2, <2>4 DEF MemoryInv, MemoryTypeOK
  <2> QED BY <2>1, <2>3, <2>5 DEF MemoryInv, LimitsInv, Least, ReserveInv, GivenInv, RoundInv
<1>2. CASE SetVMMemoryCurrent
  <2> DEFINE v == manual.vm
             m == manual.target
  <2>1. manual # None /\ v \in VMs /\ m \in Int /\ m \in Allowed(v)
    BY <1>2 DEF SetVMMemoryCurrent, MemoryInv, MemoryTypeOK, Requested, ManualInv
  <2>2. m =< MaxMemory /\ m >= Least(v)
    BY <2>1 DEF Allowed, Least
  <2>3. /\ Sets(v, m) /\ Breaks({"manual"}) /\ manual' = None
        /\ given' = [given EXCEPT ![v] = IF pause[v] > 0 THEN m ELSE None]
        /\ UNCHANGED <<backend, pause, cool, low, high, round>>
    BY <1>2 DEF SetVMMemoryCurrent
  <2> HIDE DEF v, m
  <2>4. /\ given' \in [VMs -> Int \cup {None}] /\ given'[v] \in {None, m}
        /\ \A u \in VMs \ {v} : given'[u] \in {None, given[u]}
    BY <2>1, <2>3 DEF MemoryInv, MemoryTypeOK
  <2>5. /\ actual' \in [VMs -> Int] /\ available' \in Int /\ breaches' \subseteq {"stale", "manual"}
        /\ LimitsInv' /\ ReserveInv' /\ GivenInv'
    BY <2>1, <2>2, <2>3, <2>4, SetKeeps
  <2> QED BY <2>3, <2>4, <2>5 DEF MemoryInv, MemoryTypeOK, ManualInv, RoundInv
<1> QED BY <1>1, <1>2

(* The inductive invariant of the scheduler and the requests, for any      *)
(* machines, sizes and steps.                                              *)
THEOREM MemoryInvariant == MemorySpec => []MemoryInv
<1>1. MemoryInv /\ [MemoryNext]_memoryVars => MemoryInv'
  <2> SUFFICES ASSUME MemoryInv, [MemoryNext]_memoryVars PROVE MemoryInv'
    OBVIOUS
  <2>1. CASE UNCHANGED memoryVars
    BY <2>1 DEF memoryVars, MemoryInv, MemoryTypeOK, ManualInv, Allowed, LimitsInv, Least,
       ReserveInv, GivenInv, RoundInv
  <2>2. {MinMemory, Initial, MaxMemory} \subseteq Int
    BY MemoryAssumption
  <2>3. CASE MemoryNext
    BY <2>2, <2>3, RoundGoesOn, ScheduleKeeps, HandKeeps DEF MemoryNext
  <2> QED BY <2>1, <2>3
<1> QED BY MemoryStarts, <1>1, PTL DEF MemorySpec

(* Sizes, counters, rounds and requests keep their types.                  *)
THEOREM MemoryTypes == MemorySpec => []MemoryTypeOK
<1>1. MemoryInv => MemoryTypeOK
  BY DEF MemoryInv
<1> QED BY MemoryInvariant, <1>1, PTL

(* The host keeps its reserve, unless a stale look or an administrator     *)
(* takes it, and every machine stays within its most and, but for less     *)
(* than a step, its least (vm/memory/scheduler.go).                        *)
THEOREM SizesAreKept == MemorySpec => []SizesKept
<1>1. MemoryInv => SizesKept
  <2> SUFFICES ASSUME MemoryInv PROVE SizesKept
    OBVIOUS
  <2>1. available >= Reserve \/ breaches # {}
    BY DEF MemoryInv, ReserveInv
  <2>2. ASSUME NEW v \in VMs
        PROVE  /\ actual[v] =< MaxMemory
               /\ actual[v] > IF backend[v] = "virtio" THEN Initial - 1 ELSE MinMemory - Step
    BY SizesType DEF MemoryInv, MemoryTypeOK, LimitsInv, Least
  <2> QED BY <2>1, <2>2 DEF SizesKept
<1> QED BY MemoryInvariant, <1>1, PTL

(* Memory set by hand lasts for as long as the pause (vm/memory/config.go).*)
THEOREM ManualIsKept == MemorySpec => []ManualKept
<1>1. MemoryInv => ManualKept
  BY DEF MemoryInv, GivenInv, ManualKept
<1> QED BY MemoryInvariant, <1>1, PTL

-----------------------------------------------------------------------------
(* NodeMigration.                                                           *)

(* Users look before they act; what has ended has an outcome, what waits   *)
(* a request; what a handler defines has layers.                           *)
LookedInv == user # None => ~ user.saw
EndedInv == \A t \in Requests : outcome[t] # None => phase[t] = "settled"
AskedInv == \A t \in Requests : phase[t] = "waiting" => req[t] # None
LayersInv == \A t \in Requests : At(t, "copy") \/ At(t, "copying") \/ At(t, "define") =>
               carried[t].layers # 0

(* The CPU is limited here while the machine runs here, or there while it  *)
(* is defined there.                                                       *)
LimitedInv == /\ throttle = "source" => src.on
              /\ throttle = "target" => tgt.def # None

(* While none of the windows is open that MigratedIsWhole names, one task  *)
(* is at work at a time; until it has moved the machine nothing is defined *)
(* at the target, and a cold copy is of a machine that is shut off.        *)
Undisturbed == windows \cap {"race", "stale", "twice", "kept"} = {}
Moved == tgt.def = 1 /\ tgt.file = src.writes /\ ~ src.on
Freed == throttle = None \/ "limited" \in windows

UsedInv == tgt.used => \E t \in Requests : outcome[t] = "success"
AloneInv == \A t, u \in Requests : carried[t] # None /\ carried[u] # None => t = u
Shut(t) == ~ src.on /\ carried[t].layers = 1 /\ tgt.def = None
OnItsWay(t) ==
    LET p == carried[t].pc IN
    /\ p \in {"copy", "copying", "define"} => Shut(t)
    /\ p = "copying" => carried[t].from = src.writes
    /\ p = "define" => tgt.file = src.writes
    /\ p \in {"assess", "prepare", "nvram", "migrate", "cleanup", "failed"} => tgt.def = None
    /\ p \in {"moved", "adopt"} => Moved
    /\ p = "adopt" => Freed
WayInv == \A t \in Requests : carried[t] # None => OnItsWay(t)
WholeInv == \A t \in Requests : outcome[t] = "success" => Moved /\ Freed

(* While none of those is open that FailedLeavesNothing names, everything  *)
(* at the target belongs to a task that will clean it up or move the       *)
(* machine, or to one that has.                                            *)
Quiet == windows \cap {"copy", "prepare", "uncleaned", "unadopted", "crash"} = {}
Does(S) == \E t \in Requests : carried[t] # None /\ carried[t].pc \in S
Succeeded == \E t \in Requests : outcome[t] = "success"
Holding == {"nvram", "migrate", "cleanup"}
HoldInv == \A t \in Requests : carried[t] # None /\ carried[t].pc \in Holding =>
             /\ tgt.file # None
             /\ \A u \in Requests : carried[u] # None /\ carried[u].pc \in Holding => u = t
FileInv == tgt.file # None => Succeeded \/ Does({"define", "moved", "adopt"} \cup Holding)
DefInv == tgt.def # None \/ tgt.on \/ tgt.used => Succeeded \/ Does({"moved", "adopt"})
NVRAMInv == tgt.nvram =>
    \/ Succeeded \/ Does({"moved", "adopt"})
    \/ \E t \in Requests : /\ carried[t] # None /\ carried[t].pc \in {"migrate", "cleanup"}
                           /\ "nvram" \in carried[t].made
ThrottleInv == throttle # None =>
    Succeeded \/ Does({"prepare", "nvram", "migrate", "cleanup", "failed", "moved", "adopt"})

GuardInv == LookedInv /\ EndedInv /\ AskedInv /\ LayersInv /\ LimitedInv /\ UsedInv
MoveInv == AloneInv /\ WayInv /\ WholeInv
TraceInv == HoldInv /\ FileInv /\ DefInv /\ NVRAMInv /\ ThrottleInv
MigrationInv == MigrationTypeOK /\ GuardInv /\ (Undisturbed => MoveInv) /\ (Quiet => TraceInv)

LEMMA MigrationStarts == InitMigration => MigrationInv
<1> SUFFICES ASSUME InitMigration PROVE MigrationInv
  OBVIOUS
<1> USE MigrationAssumption DEF InitMigration, Queue!Init, Nowhere
<1>1. MigrationTypeOK
  BY DEF MigrationTypeOK, Queue!Phases
<1>2. GuardInv
  BY DEF GuardInv, LookedInv, EndedInv, AskedInv, LayersInv, LimitedInv, UsedInv, At
<1>3. MoveInv
  BY DEF MoveInv, AloneInv, WayInv, WholeInv
<1>4. TraceInv
  BY DEF TraceInv, HoldInv, FileInv, DefInv, NVRAMInv, ThrottleInv, Holding
<1> QED BY <1>1, <1>2, <1>3, <1>4 DEF MigrationInv

(* What a step does to its task: it goes on to a stage, or ends.           *)
Continues(t, p) ==
    /\ carried' \in [Requests -> Jobs \cup {None}] /\ carried'[t] \in Jobs /\ carried'[t].pc = p
    /\ \A u \in Requests \ {t} : carried'[u] = carried[u]
    /\ \A u \in Requests : carried'[u] # None <=> carried[u] # None
    /\ phase' = phase /\ outcome' = outcome
SameJob(t) ==
    /\ carried'[t].layers = carried[t].layers /\ carried'[t].from = carried[t].from
    /\ carried'[t].made = carried[t].made
Ends(t, v) ==
    /\ phase' \in [Requests -> Queue!Phases] /\ carried' \in [Requests -> Jobs \cup {None}]
    /\ outcome' \in [Requests -> {None, "success", "failed"}]
    /\ phase[t] = "executing" /\ phase'[t] = "settled" /\ carried'[t] = None /\ outcome'[t] = v
    /\ \A u \in Requests \ {t} : /\ phase'[u] = phase[u] /\ carried'[u] = carried[u]
                                /\ outcome'[u] = outcome[u]
    /\ \A u \in Requests : carried'[u] # None <=> phase'[u] = "executing"

Becomes(t, p, l, f, k) ==
    \/ Go(t, p) /\ l = carried[t].layers /\ f = carried[t].from /\ k = carried[t].made
    \/ /\ carried' = [carried EXCEPT ![t].pc = p, ![t].layers = l]
       /\ f = carried[t].from /\ k = carried[t].made
    \/ /\ carried' = [carried EXCEPT ![t].pc = p, ![t].from = f]
       /\ l = carried[t].layers /\ k = carried[t].made
    \/ /\ carried' = [carried EXCEPT ![t].pc = p, ![t].made = k]
       /\ l = carried[t].layers /\ f = carried[t].from
    \/ /\ carried' = [carried EXCEPT ![t].pc = p, ![t].made = k, ![t].layers = l]
       /\ f = carried[t].from

LEMMA GoesOn ==
    ASSUME MigrationTypeOK, NEW t \in Requests, carried[t] # None, Stays,
           NEW p \in Stages, NEW l \in 0..2, NEW f \in {None} \cup 0..MaxWrites,
           NEW k \in SUBSET {"file", "nvram"},
           Becomes(t, p, l, f, k)
    PROVE  /\ Continues(t, p)
           /\ carried'[t].layers = l /\ carried'[t].from = f /\ carried'[t].made = k
<1>1. carried[t] \in Jobs /\ carried \in [Requests -> Jobs \cup {None}]
  BY DEF MigrationTypeOK
<1>2. /\ DOMAIN carried' = Requests /\ carried' = [u \in Requests |-> carried'[u]]
      /\ \A u \in Requests \ {t} : carried'[u] = carried[u]
  BY <1>1 DEF Becomes, Go
<1>3. carried'[t] = [pc |-> p, mode |-> carried[t].mode, layers |-> l, from |-> f, made |-> k]
  BY <1>1 DEF Becomes, Go, Jobs
<1>4. carried'[t] \in Jobs
  BY <1>1, <1>3 DEF Jobs
<1> QED BY <1>1, <1>2, <1>3, <1>4, MigrationAssumption DEF Continues, Stays

LEMMA Returns ==
    ASSUME MigrationTypeOK, NEW t \in Requests, NEW v \in {"success", "failed"}, Return(t, v)
    PROVE  Ends(t, v)
  BY DEF MigrationTypeOK, Return, Queue!Settle, Queue!Move, Queue!Phases, Ends

LEMMA Goes ==
    ASSUME MigrationTypeOK, NEW t \in Requests, carried[t] # None, Stays, NEW p \in Stages, Go(t, p)
    PROVE  Continues(t, p) /\ SameJob(t)
<1>1. /\ carried[t].layers \in 0..2 /\ carried[t].from \in {None} \cup 0..MaxWrites
      /\ carried[t].made \in SUBSET {"file", "nvram"}
  BY DEF MigrationTypeOK, Jobs
<1>2. Becomes(t, p, carried[t].layers, carried[t].from, carried[t].made)
  BY DEF Becomes
<1> QED BY <1>1, <1>2, GoesOn DEF SameJob

(* What the steps of a task do, one after another.                         *)
Frame(t, from) == At(t, from) /\ UNCHANGED <<req, ctx, user>> /\ faults' \in 0..MaxFaults
SameTarget == tgt' = tgt
FileBecomes(f) == /\ tgt'.file = f /\ tgt' = [file |-> f, def |-> tgt.def, nvram |-> tgt.nvram,
                                            on |-> tgt.on, used |-> tgt.used]

LEMMA ValidateDoes ==
    ASSUME MigrationTypeOK, NEW t \in Requests, Validate(t)
    PROVE  /\ Frame(t, "validate") /\ SameTarget /\ UNCHANGED <<src, throttle>>
           /\ \/ /\ Continues(t, "copy") /\ ~ src.on /\ TargetIsFree
                 /\ carried'[t].layers = src.layers
                 /\ windows' = windows \cup When(src.layers # 1, "stale")
              \/ /\ Continues(t, "assess") /\ TargetIsFree
                 /\ windows' = windows \cup When(src.layers # 1, "stale")
              \/ Ends(t, "failed") /\ windows' = windows
<1> USE MigrationAssumption
<1>1. Frame(t, "validate") /\ SameTarget /\ UNCHANGED <<src, throttle>> /\ carried[t] # None
  BY DEF Validate, Frame, SameTarget, At, Unasked, Fault, MigrationTypeOK
<1> DEFINE cached == carried[t].mode # None
           mode == DetectMigrationModeFromState
           valid == IF cached THEN carried[t].mode = mode /\ TargetIsFree ELSE ~ Blocked
           p == IF mode = "cold" THEN "copy" ELSE "assess"
<1>2. CASE Return(t, "failed") /\ windows' = windows
  BY <1>1, <1>2, Returns
<1>3. CASE /\ valid /\ Stays /\ Window(When(src.layers # 1, "stale"))
           /\ carried' = [carried EXCEPT ![t].pc = p, ![t].layers = src.layers]
  <2>1. TargetIsFree
    BY <1>3 DEF Blocked
  <2>2. p \in Stages /\ ((p = "copy" /\ ~ src.on) \/ p = "assess")
    BY DEF Stages, DetectMigrationModeFromState
  <2>3. /\ src.layers \in 0..2 /\ carried[t].from \in {None} \cup 0..MaxWrites
        /\ carried[t].made \in SUBSET {"file", "nvram"}
    BY <1>1 DEF MigrationTypeOK, Jobs
  <2> HIDE DEF p
  <2>4. Becomes(t, p, src.layers, carried[t].from, carried[t].made)
    BY <1>3 DEF Becomes
  <2>5. Continues(t, p) /\ carried'[t].layers = src.layers
    <3>1. Stays /\ carried[t] # None /\ p \in Stages
      BY <1>1, <1>3, <2>2
    <3> QED BY ONLY <2>3, <2>4, <3>1, MigrationTypeOK, t \in Requests, GoesOn
  <2> QED BY <1>1, <1>3, <2>1, <2>2, <2>5 DEF Window
<1> QED BY <1>2, <1>3 DEF Validate

LEMMA TestTargetDoes ==
    ASSUME MigrationTypeOK, NEW t \in Requests, TestTarget(t)
    PROVE  /\ Frame(t, "copy") /\ SameTarget /\ UNCHANGED <<src, throttle, windows>>
           /\ \/ /\ Continues(t, "copying") /\ carried'[t].layers = carried[t].layers
                 /\ ~ src.on => carried'[t].from = src.writes
              \/ Ends(t, "failed")
<1> USE MigrationAssumption
<1>1. /\ Frame(t, "copy") /\ SameTarget /\ UNCHANGED <<src, throttle, windows>> /\ carried[t] # None
  BY DEF TestTarget, Cold, Frame, SameTarget, At, Unasked, Fails, Fault, MigrationTypeOK
<1> DEFINE f == IF src.on THEN None ELSE src.writes
<1>2. CASE Return(t, "failed")
  BY <1>1, <1>2, Returns
<1>3. CASE Stays /\ carried' = [carried EXCEPT ![t].pc = "copying", ![t].from = f]
  <2>1. /\ f \in {None} \cup 0..MaxWrites /\ carried[t].layers \in 0..2
        /\ carried[t].made \in SUBSET {"file", "nvram"}
    BY <1>1 DEF MigrationTypeOK, Jobs
  <2>2. "copying" \in Stages
    BY DEF Stages
  <2> HIDE DEF f
  <2>3. Becomes(t, "copying", carried[t].layers, f, carried[t].made)
    BY <1>3 DEF Becomes
  <2>4. Continues(t, "copying") /\ carried'[t].layers = carried[t].layers /\ carried'[t].from = f
    <3>1. Stays /\ carried[t] # None
      BY <1>1, <1>3
    <3> QED BY ONLY <2>1, <2>2, <2>3, <3>1, MigrationTypeOK, t \in Requests, GoesOn
  <2> QED BY <1>1, <2>4 DEF f
<1> QED BY <1>2, <1>3 DEF TestTarget

LEMMA RemoteRsyncFileDoes ==
    ASSUME MigrationTypeOK, NEW t \in Requests, RemoteRsyncFile(t)
    PROVE  /\ Frame(t, "copying") /\ UNCHANGED <<src, throttle>>
           /\ \/ /\ Continues(t, "define") /\ SameJob(t)
                 /\ FileBecomes(Copied(t)) /\ windows' = windows
              \/ Ends(t, "failed") /\ SameTarget /\ windows' = windows
              \/ Ends(t, "failed") /\ FileBecomes(Copied(t)) /\ windows' = windows \cup {"copy"}
<1>1. Frame(t, "copying") /\ UNCHANGED <<src, throttle>> /\ carried[t] # None /\ "define" \in Stages
  BY MigrationAssumption DEF RemoteRsyncFile, Cold, Frame, At, Unasked, Fails, Fault,
     MigrationTypeOK, Stages
<1>2. tgt' = [tgt EXCEPT !.file = Copied(t)] => FileBecomes(Copied(t))
  BY DEF MigrationTypeOK, FileBecomes
<1>3. Return(t, "failed") => Ends(t, "failed")
  BY Returns
<1>4. Go(t, "define") /\ Stays => Continues(t, "define") /\ SameJob(t)
  BY <1>1, Goes
<1> QED BY <1>1, <1>2, <1>3, <1>4 DEF RemoteRsyncFile, Window, SameTarget

LEMMA DefineVMDoes ==
    ASSUME MigrationTypeOK, NEW t \in Requests, DefineVM(t)
    PROVE  /\ Frame(t, "define") /\ UNCHANGED <<src, throttle>>
           /\ \/ /\ Continues(t, "adopt") /\ windows' = windows
                 /\ tgt' = [file |-> tgt.file, def |-> carried[t].layers, nvram |-> tgt.nvram,
                            on |-> tgt.on, used |-> tgt.used]
              \/ Ends(t, "failed") /\ SameTarget /\ windows' = windows \cup {"copy"}
<1>1. Frame(t, "define") /\ UNCHANGED <<src, throttle>> /\ carried[t] # None /\ "adopt" \in Stages
  BY MigrationAssumption DEF DefineVM, Cold, Frame, At, Unasked, Fails, Fault, MigrationTypeOK,
     Stages
<1>2. tgt' = [tgt EXCEPT !.def = carried[t].layers] =>
        tgt' = [file |-> tgt.file, def |-> carried[t].layers, nvram |-> tgt.nvram,
                on |-> tgt.on, used |-> tgt.used]
  BY DEF MigrationTypeOK
<1>3. Return(t, "failed") => Ends(t, "failed")
  BY Returns
<1>4. Go(t, "adopt") /\ Stays => Continues(t, "adopt") /\ SameJob(t)
  BY <1>1, Goes
<1> QED BY <1>1, <1>2, <1>3, <1>4 DEF DefineVM, Window, SameTarget

LEMMA AssessDoes ==
    ASSUME MigrationTypeOK, NEW t \in Requests, Assess(t)
    PROVE  /\ Frame(t, "assess") /\ SameTarget /\ UNCHANGED <<src, windows>>
           /\ \/ Continues(t, "prepare") /\ src.on /\ throttle' \in {throttle, "source"}
              \/ Ends(t, "failed") /\ throttle' = throttle
<1>1. /\ Frame(t, "assess") /\ SameTarget /\ UNCHANGED <<src, windows>>
      /\ carried[t] # None /\ "prepare" \in Stages
  BY MigrationAssumption DEF Assess, Frame, At, SameTarget, Unasked, Fails, Fault,
     MigrationTypeOK, Stages
<1>2. Return(t, "failed") => Ends(t, "failed")
  BY Returns
<1>3. Go(t, "prepare") /\ Stays => Continues(t, "prepare")
  BY <1>1, Goes
<1> QED BY <1>1, <1>2, <1>3 DEF Assess

LEMMA prepareLiveMigrationTargetsDoes ==
    ASSUME MigrationTypeOK, NEW t \in Requests, prepareLiveMigrationTargets(t)
    PROVE  /\ Frame(t, "prepare") /\ UNCHANGED <<src, throttle>>
           /\ \/ /\ Continues(t, "nvram") /\ windows' = windows
                 /\ tgt.file = None /\ FileBecomes(Empty)
              \/ Continues(t, "failed") /\ SameTarget /\ windows' = windows
              \/ Continues(t, "failed") /\ FileBecomes(Empty) /\ windows' = windows \cup {"prepare"}
<1>1. /\ Frame(t, "prepare") /\ UNCHANGED <<src, throttle>> /\ carried[t] # None
      /\ "nvram" \in Stages /\ "failed" \in Stages /\ Stays
  BY MigrationAssumption DEF prepareLiveMigrationTargets, Live, Frame, At, Unasked, Fails,
     Fault, MigrationTypeOK, Stages
<1>2. tgt' = [tgt EXCEPT !.file = Empty] => FileBecomes(Empty)
  BY DEF MigrationTypeOK, FileBecomes
<1>3. Go(t, "failed") => Continues(t, "failed")
  BY <1>1, Goes
<1>4. carried' = [carried EXCEPT ![t].pc = "nvram", ![t].made = {"file"}] => Continues(t, "nvram")
  <2>1. /\ carried[t].layers \in 0..2 /\ carried[t].from \in {None} \cup 0..MaxWrites
        /\ {"file"} \in SUBSET {"file", "nvram"}
    BY <1>1 DEF MigrationTypeOK, Jobs
  <2>2. carried' = [carried EXCEPT ![t].pc = "nvram", ![t].made = {"file"}] =>
          Becomes(t, "nvram", carried[t].layers, carried[t].from, {"file"})
    BY DEF Becomes
  <2> QED BY <1>1, <2>1, <2>2, GoesOn
<1> QED BY <1>1, <1>2, <1>3, <1>4 DEF prepareLiveMigrationTargets, Window, SameTarget

LEMMA prepareMigrationNVRAMOnTargetDoes ==
    ASSUME MigrationTypeOK, NEW t \in Requests, prepareMigrationNVRAMOnTarget(t)
    PROVE  /\ Frame(t, "nvram") /\ UNCHANGED <<src, throttle>>
           /\ \/ /\ Continues(t, "migrate") /\ "nvram" \in carried'[t].made /\ windows' = windows
                 /\ tgt' = [file |-> tgt.file, def |-> tgt.def, nvram |-> TRUE,
                            on |-> tgt.on, used |-> tgt.used]
              \/ Continues(t, "cleanup") /\ SameJob(t) /\ SameTarget /\ windows' = windows
              \/ /\ Continues(t, "cleanup") /\ windows' = windows \cup {"prepare"}
                 /\ tgt' = [file |-> tgt.file, def |-> tgt.def, nvram |-> TRUE,
                            on |-> tgt.on, used |-> tgt.used]
<1>1. /\ Frame(t, "nvram") /\ UNCHANGED <<src, throttle>> /\ carried[t] # None
      /\ "migrate" \in Stages /\ "cleanup" \in Stages /\ Stays
  BY MigrationAssumption DEF prepareMigrationNVRAMOnTarget, Live, Frame, At, Unasked, Fails,
     Fault, MigrationTypeOK, Stages
<1>2. tgt' = [tgt EXCEPT !.nvram = TRUE] =>
        tgt' = [file |-> tgt.file, def |-> tgt.def, nvram |-> TRUE,
                on |-> tgt.on, used |-> tgt.used]
  BY DEF MigrationTypeOK
<1>3. Go(t, "cleanup") => Continues(t, "cleanup") /\ SameJob(t)
  BY <1>1, Goes
<1> DEFINE k == carried[t].made \cup {"nvram"}
<1>4. ASSUME carried' = [carried EXCEPT ![t].pc = "migrate", ![t].made = @ \cup {"nvram"},
                                        ![t].layers = src.layers]
      PROVE  Continues(t, "migrate") /\ "nvram" \in carried'[t].made
  <2>1. /\ src.layers \in 0..2 /\ carried[t].from \in {None} \cup 0..MaxWrites
        /\ k \in SUBSET {"file", "nvram"}
    BY <1>1 DEF MigrationTypeOK, Jobs
  <2>2. carried' = [carried EXCEPT ![t].pc = "migrate", ![t].made = k, ![t].layers = src.layers]
    BY <1>4
  <2> HIDE DEF k
  <2>3. Becomes(t, "migrate", src.layers, carried[t].from, k)
    BY <2>2 DEF Becomes
  <2>4. Continues(t, "migrate") /\ carried'[t].made = k
    BY ONLY <1>1, <2>1, <2>3, MigrationTypeOK, t \in Requests, GoesOn
  <2> QED BY <2>4 DEF k
<1> QED BY <1>1, <1>2, <1>3, <1>4 DEF prepareMigrationNVRAMOnTarget, Window, SameTarget

LEMMA MigrateDoes ==
    ASSUME MigrationTypeOK, NEW t \in Requests, Migrate(t)
    PROVE  /\ Frame(t, "migrate") /\ windows' = windows
           /\ \/ /\ Continues(t, "moved") /\ src.on /\ src.layers = 1 /\ tgt.def = None
                 /\ tgt' = [file |-> src.writes, def |-> 1, nvram |-> tgt.nvram,
                            on |-> TRUE, used |-> tgt.used]
                 /\ src' = [on |-> FALSE, layers |-> src.layers, writes |-> src.writes]
                 /\ throttle' = IF throttle = "source" THEN "target" ELSE throttle
              \/ Continues(t, "cleanup") /\ SameJob(t) /\ SameTarget /\ UNCHANGED <<src, throttle>>
<1>1. /\ Frame(t, "migrate") /\ windows' = windows /\ carried[t] # None
      /\ "moved" \in Stages /\ "cleanup" \in Stages /\ Stays
  BY MigrationAssumption DEF Migrate, Live, Frame, At, Unasked, Fails, Fault, MigrationTypeOK,
     Stages
<1>2. src.layers = 1 /\ tgt' = [tgt EXCEPT !.file = src.writes, !.def = src.layers, !.on = TRUE] =>
        tgt' = [file |-> src.writes, def |-> 1, nvram |-> tgt.nvram, on |-> TRUE, used |-> tgt.used]
  BY DEF MigrationTypeOK
<1>3. src' = [src EXCEPT !.on = FALSE] =>
        src' = [on |-> FALSE, layers |-> src.layers, writes |-> src.writes]
  BY DEF MigrationTypeOK
<1>4. Go(t, "cleanup") => Continues(t, "cleanup") /\ SameJob(t)
  BY <1>1, Goes
<1>5. Go(t, "moved") => Continues(t, "moved")
  BY <1>1, Goes
<1> QED BY <1>1, <1>2, <1>3, <1>4, <1>5 DEF Migrate, SameTarget

LEMMA cleanupLiveMigrationTargetsDoes ==
    ASSUME MigrationTypeOK, NEW t \in Requests, cleanupLiveMigrationTargets(t)
    PROVE  /\ Frame(t, "cleanup") /\ UNCHANGED <<src, throttle>> /\ Continues(t, "failed")
           /\ tgt'.def = tgt.def /\ tgt'.on = tgt.on /\ tgt'.used = tgt.used
           /\ \/ /\ windows' = windows /\ tgt'.file = None
                 /\ tgt'.nvram = IF "nvram" \in carried[t].made THEN FALSE ELSE tgt.nvram
                 /\ tgt' = [file |-> None, def |-> tgt.def,
                            nvram |-> IF "nvram" \in carried[t].made THEN FALSE ELSE tgt.nvram,
                            on |-> tgt.on, used |-> tgt.used]
              \/ SameTarget /\ windows' = windows \cup {"uncleaned"}
<1>1. /\ Frame(t, "cleanup") /\ UNCHANGED <<src, throttle>> /\ carried[t] # None
      /\ "failed" \in Stages /\ Stays /\ Go(t, "failed")
  BY MigrationAssumption DEF cleanupLiveMigrationTargets, Live, Frame, At, Unasked, Fails,
     Fault, MigrationTypeOK, Stages
<1>2. tgt' = [tgt EXCEPT !.file = None,
                         !.nvram = IF "nvram" \in carried[t].made THEN FALSE ELSE @] =>
        tgt' = [file |-> None, def |-> tgt.def,
                nvram |-> IF "nvram" \in carried[t].made THEN FALSE ELSE tgt.nvram,
                on |-> tgt.on, used |-> tgt.used]
  BY DEF MigrationTypeOK
<1>3. Continues(t, "failed")
  BY <1>1, Goes
<1>4. \/ /\ windows' = windows
         /\ tgt' = [file |-> None, def |-> tgt.def,
                    nvram |-> IF "nvram" \in carried[t].made THEN FALSE ELSE tgt.nvram,
                    on |-> tgt.on, used |-> tgt.used]
      \/ SameTarget /\ windows' = windows \cup {"uncleaned"}
  BY <1>2 DEF cleanupLiveMigrationTargets, Window, SameTarget
<1> DEFINE k == IF "nvram" \in carried[t].made THEN FALSE ELSE tgt.nvram
<1> HIDE DEF k
<1>5. \/ /\ windows' = windows
         /\ tgt' = [file |-> None, def |-> tgt.def, nvram |-> k, on |-> tgt.on, used |-> tgt.used]
      \/ SameTarget /\ windows' = windows \cup {"uncleaned"}
  BY <1>4 DEF k
<1>6. /\ tgt'.def = tgt.def /\ tgt'.on = tgt.on /\ tgt'.used = tgt.used
      /\ \/ /\ windows' = windows /\ tgt'.file = None /\ tgt'.nvram = k
            /\ tgt' = [file |-> None, def |-> tgt.def, nvram |-> k,
                       on |-> tgt.on, used |-> tgt.used]
         \/ SameTarget /\ windows' = windows \cup {"uncleaned"}
  BY <1>5 DEF SameTarget
<1> QED BY <1>1, <1>3, <1>6 DEF k

LEMMA RestoreDoes ==
    ASSUME MigrationTypeOK, NEW t \in Requests, Restore(t)
    PROVE  /\ Frame(t, "failed") \/ Frame(t, "moved")
           /\ SameTarget /\ UNCHANGED src
           /\ \/ throttle' = None /\ windows' = windows
              \/ throttle = "target" /\ src.on /\ throttle' = throttle /\ windows' = windows
              \/ throttle = "target" /\ throttle' = throttle /\ windows' = windows \cup {"limited"}
           /\ \/ Frame(t, "moved") /\ Continues(t, "adopt")
              \/ Frame(t, "failed") /\ Ends(t, "failed")
<1>1. /\ Frame(t, "failed") \/ Frame(t, "moved")
      /\ SameTarget /\ UNCHANGED src /\ carried[t] # None /\ "adopt" \in Stages
  BY MigrationAssumption DEF Restore, Frame, At, SameTarget, Unasked, Fails, Fault,
     MigrationTypeOK, Stages
<1>2. \/ throttle' = None /\ windows' = windows
      \/ throttle = "target" /\ src.on /\ throttle' = throttle /\ windows' = windows
      \/ throttle = "target" /\ throttle' = throttle /\ windows' = windows \cup {"limited"}
  BY DEF Restore, Window
<1>3. CASE At(t, "moved")
  <2>1. Go(t, "adopt") /\ Stays /\ Frame(t, "moved")
    BY <1>1, <1>3 DEF Restore, Frame, At
  <2>2. Continues(t, "adopt")
    BY <1>1, <2>1, Goes
  <2> QED BY <1>1, <1>2, <2>1, <2>2
<1>4. CASE ~ At(t, "moved")
  <2>1. Return(t, "failed") /\ Frame(t, "failed")
    BY <1>1, <1>4 DEF Restore, Frame
  <2>2. Ends(t, "failed")
    BY <2>1, Returns
  <2> QED BY <1>1, <1>2, <2>1, <2>2
<1> QED BY <1>3, <1>4

LEMMA AdoptMigratedVMDoes ==
    ASSUME MigrationTypeOK, NEW t \in Requests, AdoptMigratedVM(t)
    PROVE  /\ Frame(t, "adopt") /\ SameTarget /\ UNCHANGED <<src, throttle>>
           /\ \/ Ends(t, "success") /\ windows' = windows
              \/ Ends(t, "failed") /\ windows' = windows \cup {"unadopted"}
<1>1. Frame(t, "adopt") /\ SameTarget /\ UNCHANGED <<src, throttle>>
  BY MigrationAssumption DEF AdoptMigratedVM, Frame, At, SameTarget, Unasked, Fault,
     MigrationTypeOK
<1>2. /\ Return(t, "success") => Ends(t, "success")
      /\ Return(t, "failed") => Ends(t, "failed")
  BY Returns
<1> QED BY <1>1, <1>2 DEF AdoptMigratedVM, Window

(* A task that is taken up, or waits no more.                              *)
LEMMA ExecuteDoes ==
    ASSUME MigrationTypeOK, AskedInv, NEW t \in Requests, Execute(t)
    PROVE  /\ UNCHANGED <<src, tgt, throttle, req, outcome, ctx, user, faults>>
           /\ carried' \in [Requests -> Jobs \cup {None}]
           /\ carried'[t] \in Jobs /\ carried'[t].pc = "validate"
           /\ \A u \in Requests \ {t} : carried'[u] = carried[u] /\ phase'[u] = phase[u]
           /\ carried[t] = None /\ phase[t] = "waiting" /\ phase'[t] = "executing"
           /\ phase' \in [Requests -> Queue!Phases]
           /\ windows' = windows \cup When(\E u \in Requests \ {t} : carried[u] # None, "twice")
<1> USE MigrationAssumption
<1>1. /\ UNCHANGED <<src, tgt, throttle, req, outcome, ctx, user, faults>>
      /\ phase[t] = "waiting" /\ phase' = [phase EXCEPT ![t] = "executing"]
      /\ carried' = [carried EXCEPT ![t] = [pc |-> "validate", mode |-> req[t].mode,
                                  layers |-> 0, from |-> None, made |-> {}]]
      /\ windows' = windows \cup When(\E u \in Requests \ {t} : carried[u] # None, "twice")
  BY DEF Execute, Queue!Execute, Queue!Move, Window, Unasked
<1>2. req[t].mode \in Modes
  BY <1>1 DEF AskedInv, MigrationTypeOK, Previews
<1>3. [pc |-> "validate", mode |-> req[t].mode, layers |-> 0, from |-> None, made |-> {}] \in Jobs
  BY <1>2 DEF Jobs, Stages
<1>4. /\ carried[t] = None /\ carried \in [Requests -> Jobs \cup {None}]
      /\ phase \in [Requests -> Queue!Phases]
  BY <1>1 DEF MigrationTypeOK
<1>5. /\ carried' \in [Requests -> Jobs \cup {None}]
      /\ carried'[t] \in Jobs /\ carried'[t].pc = "validate"
      /\ \A u \in Requests \ {t} : carried'[u] = carried[u]
  BY <1>1, <1>3, <1>4
<1>6. /\ phase' \in [Requests -> Queue!Phases] /\ phase'[t] = "executing"
      /\ \A u \in Requests \ {t} : phase'[u] = phase[u]
  BY <1>1, <1>4 DEF Queue!Phases
<1> QED BY <1>1, <1>4, <1>5, <1>6

(* Types are kept.                                                         *)
Places == [file : {None} \cup 0..Torn, def : {None, 1, 2},
            nvram : BOOLEAN, on : BOOLEAN, used : BOOLEAN]
JobTypes == /\ phase' \in [Requests -> Queue!Phases] /\ carried' \in [Requests -> Jobs \cup {None}]
            /\ \A t \in Requests : carried'[t] # None <=> phase'[t] = "executing"
            /\ outcome' \in [Requests -> {None, "success", "failed"}]
PlaceTypes == /\ src' \in [on : BOOLEAN, layers : 1..2, writes : 0..MaxWrites] /\ tgt' \in Places
              /\ throttle' \in {None, "source", "target"}

LEMMA TargetType ==
    ASSUME MigrationTypeOK
    PROVE  /\ tgt \in Places /\ tgt.file \in {None} \cup 0..Torn /\ tgt.def \in {None, 1, 2}
           /\ tgt.nvram \in BOOLEAN /\ tgt.on \in BOOLEAN /\ tgt.used \in BOOLEAN
           /\ src.on \in BOOLEAN /\ src.layers \in {1, 2} /\ src.writes \in 0..MaxWrites
           /\ src.writes \in 0..Torn /\ Torn \in 0..Torn /\ Empty \in 0..Torn
           /\ Torn # None /\ Empty # None /\ src.writes # None /\ 1 # None /\ 2 # None
  BY MigrationAssumption DEF MigrationTypeOK, Places, Torn, Empty

Progress(t) == \/ \E p \in Stages : Continues(t, p)
               \/ \E v \in {"success", "failed"} : Ends(t, v)

LEMMA JobsKeepTypes ==
    ASSUME MigrationTypeOK, NEW t \in Requests, Progress(t)
    PROVE  JobTypes
  BY DEF MigrationTypeOK, Progress, Continues, Ends, JobTypes

LEMMA WorkKeepsTypes ==
    ASSUME MigrationTypeOK, LayersInv, NEW t \in Requests, Work(t)
    PROVE  MigrationTypeOK'
<1> DEFINE Framed == UNCHANGED <<req, ctx, user>> /\ faults' \in 0..MaxFaults
           Same == SameTarget /\ UNCHANGED <<src, throttle>>
<1>1. Progress(t) => JobTypes
  BY JobsKeepTypes
<1>2. Same => PlaceTypes
  BY TargetType DEF SameTarget, MigrationTypeOK, PlaceTypes
<1>3. JobTypes /\ PlaceTypes /\ Framed => MigrationTypeOK'
  BY DEF JobTypes, PlaceTypes, Places, MigrationTypeOK
<1>4. \A f \in 0..Torn : FileBecomes(f) /\ UNCHANGED <<src, throttle>> => PlaceTypes
  BY TargetType DEF FileBecomes, Places, PlaceTypes, MigrationTypeOK
<1>5. Copied(t) \in 0..Torn
  BY TargetType DEF Copied
<1>6. ASSUME Validate(t) PROVE Progress(t) /\ PlaceTypes /\ Framed
  BY <1>6, ValidateDoes, <1>2 DEF Frame, Progress, Stages
<1>7. ASSUME TestTarget(t) PROVE Progress(t) /\ PlaceTypes /\ Framed
  BY <1>7, TestTargetDoes, <1>2 DEF Frame, Progress, Stages
<1>8. ASSUME RemoteRsyncFile(t) PROVE Progress(t) /\ PlaceTypes /\ Framed
  BY <1>8, RemoteRsyncFileDoes, <1>2, <1>4, <1>5 DEF Frame, Progress, Stages
<1>9. ASSUME DefineVM(t) PROVE Progress(t) /\ PlaceTypes /\ Framed
  BY <1>9, DefineVMDoes, <1>2, TargetType DEF Frame, Progress, Stages, LayersInv, At, Places,
     PlaceTypes, MigrationTypeOK, Jobs
<1>10. ASSUME Assess(t) PROVE Progress(t) /\ PlaceTypes /\ Framed
  BY <1>10, AssessDoes, <1>2, TargetType DEF Frame, Progress, Stages, SameTarget, PlaceTypes,
     MigrationTypeOK
<1>11. ASSUME prepareLiveMigrationTargets(t) PROVE Progress(t) /\ PlaceTypes /\ Framed
  BY <1>11, prepareLiveMigrationTargetsDoes, <1>2, <1>4, TargetType DEF Frame, Progress, Stages
<1>12. ASSUME prepareMigrationNVRAMOnTarget(t) PROVE Progress(t) /\ PlaceTypes /\ Framed
  <2>1. Progress(t) /\ Framed
    BY <1>12, prepareMigrationNVRAMOnTargetDoes DEF Frame, Progress, Stages
  <2>2. [file |-> tgt.file, def |-> tgt.def, nvram |-> TRUE, on |-> tgt.on, used |-> tgt.used]
          \in Places
    BY TargetType DEF Places
  <2>3. PlaceTypes
    BY <1>12, prepareMigrationNVRAMOnTargetDoes, <1>2, <2>2, TargetType DEF PlaceTypes,
       MigrationTypeOK
  <2> QED BY <2>1, <2>3
<1>13. ASSUME Migrate(t) PROVE Progress(t) /\ PlaceTypes /\ Framed
  <2>1. Progress(t) /\ Framed
    BY <1>13, MigrateDoes DEF Frame, Progress, Stages
  <2>2. [file |-> src.writes, def |-> 1, nvram |-> tgt.nvram, on |-> TRUE, used |-> tgt.used]
          \in Places
    BY TargetType DEF Places
  <2>3. [on |-> FALSE, layers |-> src.layers, writes |-> src.writes]
          \in [on : BOOLEAN, layers : 1..2, writes : 0..MaxWrites]
    BY TargetType
  <2>4. CASE SameTarget /\ UNCHANGED <<src, throttle>>
    BY <1>2, <2>1, <2>4
  <2>5. CASE ~ (SameTarget /\ UNCHANGED <<src, throttle>>)
    <3>1. /\ tgt' = [file |-> src.writes, def |-> 1, nvram |-> tgt.nvram,
                     on |-> TRUE, used |-> tgt.used]
          /\ src' = [on |-> FALSE, layers |-> src.layers, writes |-> src.writes]
          /\ throttle' = IF throttle = "source" THEN "target" ELSE throttle
      BY <1>13, <2>5, MigrateDoes
    <3>2. throttle' \in {None, "source", "target"}
      BY <3>1 DEF MigrationTypeOK
    <3> QED BY <2>1, <2>2, <2>3, <3>1, <3>2 DEF PlaceTypes
  <2> QED BY <2>4, <2>5
<1>14. ASSUME cleanupLiveMigrationTargets(t) PROVE Progress(t) /\ PlaceTypes /\ Framed
  <2>1. Progress(t) /\ Framed
    BY <1>14, cleanupLiveMigrationTargetsDoes DEF Frame, Progress, Stages
  <2>2. [file |-> None, def |-> tgt.def,
         nvram |-> IF "nvram" \in carried[t].made THEN FALSE ELSE tgt.nvram,
         on |-> tgt.on, used |-> tgt.used] \in Places
    BY TargetType DEF Places
  <2>3. PlaceTypes
    BY <1>14, cleanupLiveMigrationTargetsDoes, <1>2, <2>2, TargetType DEF PlaceTypes,
       MigrationTypeOK
  <2> QED BY <2>1, <2>3
<1>15. ASSUME Restore(t) PROVE Progress(t) /\ PlaceTypes /\ Framed
  BY <1>15, RestoreDoes, <1>2, TargetType DEF Frame, Progress, Stages, SameTarget, PlaceTypes,
     MigrationTypeOK
<1>16. ASSUME AdoptMigratedVM(t) PROVE Progress(t) /\ PlaceTypes /\ Framed
  BY <1>16, AdoptMigratedVMDoes, <1>2 DEF Frame, Progress, Stages
<1> HIDE DEF Framed, Same
<1> QED BY <1>1, <1>3, <1>6, <1>7, <1>8, <1>9, <1>10, <1>11, <1>12, <1>13, <1>14, <1>15, <1>16
   DEF Work

(* What guards the rest is kept.                                           *)
LEMMA WorkKeepsGuards ==
    ASSUME MigrationTypeOK, GuardInv, NEW t \in Requests, Work(t)
    PROVE  GuardInv'
<1> USE TargetType, MigrationAssumption DEF GuardInv
<1> DEFINE Kept == UNCHANGED <<req, user>> /\ tgt'.used = tgt.used
           Laid == carried'[t] # None /\ carried'[t].pc \in {"copy", "copying", "define"} =>
                     carried'[t].layers # 0
           Sound == Progress(t) /\ Kept /\ Laid /\ LimitedInv'
<1>1. ASSUME Validate(t) PROVE Sound
  BY <1>1, ValidateDoes DEF Frame, SameTarget, Progress, Stages, Continues, Ends, LimitedInv,
     LayersInv, At
<1>2. ASSUME TestTarget(t) PROVE Sound
  BY <1>2, TestTargetDoes DEF Frame, SameTarget, Progress, Stages, Continues, Ends, LimitedInv,
     LayersInv, At
<1>3. ASSUME RemoteRsyncFile(t) PROVE Sound
  BY <1>3, RemoteRsyncFileDoes DEF Frame, SameTarget, FileBecomes, Progress, Stages, Continues,
     SameJob, Ends, LimitedInv, LayersInv, At
<1>4. ASSUME DefineVM(t) PROVE Sound
  <2>1. /\ Progress(t) /\ UNCHANGED <<req, user, src, throttle>>
        /\ tgt'.used = tgt.used /\ carried[t].pc = "define"
    BY <1>4, DefineVMDoes DEF Frame, SameTarget, Progress, Stages, At
  <2>2. tgt'.def = tgt.def \/ tgt'.def = carried[t].layers
    BY <1>4, DefineVMDoes DEF SameTarget
  <2>3. Laid
    BY <1>4, DefineVMDoes DEF Continues, Ends
  <2>4. carried[t].layers # None
    BY <1>4, DefineVMDoes DEF Frame, At, MigrationTypeOK, Jobs
  <2>5. LimitedInv'
    BY <2>1, <2>2, <2>4 DEF LimitedInv
  <2> QED BY <2>1, <2>3, <2>5
<1>5. ASSUME Assess(t) PROVE Sound
  BY <1>5, AssessDoes DEF Frame, SameTarget, Progress, Stages, Continues, Ends, LimitedInv,
     LayersInv, At
<1>6. ASSUME prepareLiveMigrationTargets(t) PROVE Sound
  BY <1>6, prepareLiveMigrationTargetsDoes DEF Frame, SameTarget, FileBecomes, Progress, Stages,
     Continues, Ends, LimitedInv, LayersInv, At
<1>7. ASSUME prepareMigrationNVRAMOnTarget(t) PROVE Sound
  BY <1>7, prepareMigrationNVRAMOnTargetDoes DEF Frame, SameTarget, Progress, Stages, Continues,
     SameJob, Ends, LimitedInv, LayersInv, At
<1>8. ASSUME Migrate(t) PROVE Sound
  BY <1>8, MigrateDoes DEF Frame, SameTarget, Progress, Stages, Continues, SameJob, Ends,
     LimitedInv, LayersInv, At
<1>9. ASSUME cleanupLiveMigrationTargets(t) PROVE Sound
  <2>1. /\ Progress(t) /\ UNCHANGED <<req, user, src, throttle>>
        /\ tgt'.used = tgt.used /\ tgt'.def = tgt.def
    BY <1>9, cleanupLiveMigrationTargetsDoes DEF Frame, SameTarget, Progress, Stages
  <2>2. Laid
    BY <1>9, cleanupLiveMigrationTargetsDoes DEF Continues
  <2>3. LimitedInv'
    BY <2>1 DEF LimitedInv
  <2> QED BY <2>1, <2>2, <2>3
<1>10. ASSUME Restore(t) PROVE Sound
  BY <1>10, RestoreDoes DEF Frame, SameTarget, Progress, Stages, Continues, Ends, LimitedInv,
     LayersInv, At
<1>11. ASSUME AdoptMigratedVM(t) PROVE Sound
  BY <1>11, AdoptMigratedVMDoes DEF Frame, SameTarget, Progress, Stages, Continues, Ends,
     LimitedInv, LayersInv, At
<1>12. Sound
  BY <1>1, <1>2, <1>3, <1>4, <1>5, <1>6, <1>7, <1>8, <1>9, <1>10, <1>11 DEF Work
<1>13. Sound => GuardInv'
  <2> SUFFICES ASSUME Sound PROVE GuardInv'
    OBVIOUS
  <2>1. LookedInv'
    BY DEF LookedInv
  <2>2. EndedInv'
    BY DEF EndedInv, Continues, Ends, Progress
  <2>3. AskedInv'
    BY DEF AskedInv, Continues, Ends, Progress
  <2>4. LayersInv'
    BY DEF LayersInv, At, Continues, Ends, Progress
  <2>5. UsedInv'
    BY DEF UsedInv, EndedInv, Continues, Ends, Progress
  <2> QED BY <2>1, <2>2, <2>3, <2>4, <2>5
<1> QED BY <1>12, <1>13

(* While one task is at work at a time, it moves the machine as a whole.   *)
LEMMA WorkMoves ==
    ASSUME MigrationTypeOK, GuardInv, NEW t \in Requests, Work(t), MoveInv, Undisturbed'
    PROVE  MoveInv'
<1> USE TargetType, MigrationAssumption
<1> DEFINE Sound == /\ Progress(t) /\ carried[t] # None
                    /\ carried'[t] # None => OnItsWay(t)'
                    /\ Ends(t, "success") => Moved' /\ Freed'
                    /\ Moved /\ Freed => Moved' /\ Freed'
<1> USE DEF MoveInv, WayInv, OnItsWay, Shut, Moved, Freed
<1>1. ASSUME Validate(t) PROVE Sound
  BY <1>1, ValidateDoes DEF Frame, SameTarget, Progress, Stages, Continues, Ends, At,
     TargetIsFree, Undisturbed, When
<1>2. ASSUME TestTarget(t) PROVE Sound
  BY <1>2, TestTargetDoes DEF Frame, SameTarget, Progress, Stages, Continues, Ends, At
<1>3. ASSUME RemoteRsyncFile(t) PROVE Sound
  BY <1>3, RemoteRsyncFileDoes DEF Frame, SameTarget, FileBecomes, Progress, Stages, Continues,
     SameJob, Ends, At, UsedInv, WholeInv, GuardInv, Copied
<1>4. ASSUME DefineVM(t) PROVE Sound
  <2>1. /\ carried[t] # None /\ carried[t].pc = "define"
        /\ src' = src /\ throttle' = throttle /\ Undisturbed
    BY <1>4, DefineVMDoes DEF Frame, At, Undisturbed
  <2>2. CASE Ends(t, "failed") /\ SameTarget
    BY <1>4, <2>1, <2>2, DefineVMDoes DEF SameTarget, Ends, Progress
  <2>3. CASE /\ Continues(t, "adopt") /\ windows' = windows
             /\ tgt' = [file |-> tgt.file, def |-> carried[t].layers, nvram |-> tgt.nvram,
                        on |-> tgt.on, used |-> tgt.used]
    <3>1. /\ tgt'.file = tgt.file /\ tgt'.def = 1 /\ tgt.file = src.writes
          /\ ~ src.on /\ tgt.def = None
      BY <2>1, <2>3
    <3>2. throttle = None
      BY <2>1, <3>1 DEF GuardInv, LimitedInv, MigrationTypeOK
    <3>3. Progress(t) /\ carried'[t].pc = "adopt" /\ ~ Ends(t, "success")
      BY <2>3 DEF Continues, Ends, Progress, Stages
    <3> QED BY <2>1, <3>1, <3>2, <3>3
  <2> QED BY <1>4, <2>2, <2>3, DefineVMDoes
<1>5. ASSUME Assess(t) PROVE Sound
  BY <1>5, AssessDoes DEF Frame, SameTarget, Progress, Stages, Continues, Ends, At
<1>6. ASSUME prepareLiveMigrationTargets(t) PROVE Sound
  BY <1>6, prepareLiveMigrationTargetsDoes DEF Frame, SameTarget, FileBecomes, Progress, Stages,
     Continues, Ends, At
<1>7. ASSUME prepareMigrationNVRAMOnTarget(t) PROVE Sound
  BY <1>7, prepareMigrationNVRAMOnTargetDoes DEF Frame, SameTarget, Progress, Stages, Continues,
     SameJob, Ends, At
<1>8. ASSUME Migrate(t) PROVE Sound
  BY <1>8, MigrateDoes DEF Frame, SameTarget, Progress, Stages, Continues, SameJob, Ends, At
<1>9. ASSUME cleanupLiveMigrationTargets(t) PROVE Sound
  <2>1. /\ carried[t] # None /\ carried[t].pc = "cleanup" /\ UNCHANGED <<src, throttle>>
        /\ tgt'.def = tgt.def /\ Continues(t, "failed") /\ Undisturbed
    BY <1>9, cleanupLiveMigrationTargetsDoes DEF Frame, At, SameTarget, Undisturbed
  <2> QED BY <2>1 DEF Continues, Ends, Progress, Stages
<1>10. ASSUME Restore(t) PROVE Sound
  BY <1>10, RestoreDoes DEF Frame, SameTarget, Progress, Stages, Continues, Ends, At
<1>11. ASSUME AdoptMigratedVM(t) PROVE Sound
  BY <1>11, AdoptMigratedVMDoes DEF Frame, SameTarget, Progress, Stages, Continues, Ends, At
<1>12. Sound
  BY <1>1, <1>2, <1>3, <1>4, <1>5, <1>6, <1>7, <1>8, <1>9, <1>10, <1>11 DEF Work
<1>13. AloneInv'
  BY <1>12 DEF AloneInv, Continues, Ends, Progress
<1>14. WayInv'
  BY <1>12 DEF AloneInv, Continues, Ends, Progress
<1>15. WholeInv'
  BY <1>12 DEF WholeInv, Continues, Ends, Progress
<1> QED BY <1>13, <1>14, <1>15

(* Without errors that leave something, what is at the target has an owner.*)
LEMMA WorkTraces ==
    ASSUME MigrationTypeOK, GuardInv, NEW t \in Requests, Work(t), TraceInv, Quiet'
    PROVE  TraceInv'
<1> USE TargetType, MigrationAssumption
<1> USE DEF TraceInv, Does, Succeeded, Holding
<1>1. CASE Validate(t)
  <2>1. HoldInv'
    BY <1>1, ValidateDoes DEF Frame, SameTarget, Continues, Ends, At, Quiet, GuardInv, EndedInv,
       LimitedInv, HoldInv
  <2>2. FileInv'
    BY <1>1, ValidateDoes DEF Frame, SameTarget, Continues, Ends, At, Quiet, GuardInv, EndedInv,
       LimitedInv, FileInv
  <2>3. DefInv'
    BY <1>1, ValidateDoes DEF Frame, SameTarget, Continues, Ends, At, Quiet, GuardInv, EndedInv,
       LimitedInv, DefInv
  <2>4. NVRAMInv'
    BY <1>1, ValidateDoes DEF Frame, SameTarget, Continues, Ends, At, Quiet, GuardInv, EndedInv,
       LimitedInv, NVRAMInv
  <2>5. ThrottleInv'
    BY <1>1, ValidateDoes DEF Frame, SameTarget, Continues, Ends, At, Quiet, GuardInv, EndedInv,
       LimitedInv, ThrottleInv
  <2> QED BY <2>1, <2>2, <2>3, <2>4, <2>5
<1>2. CASE TestTarget(t)
  <2>1. HoldInv'
    BY <1>2, TestTargetDoes DEF Frame, SameTarget, Continues, Ends, At, Quiet, GuardInv,
       EndedInv, LimitedInv, HoldInv
  <2>2. FileInv'
    BY <1>2, TestTargetDoes DEF Frame, SameTarget, Continues, Ends, At, Quiet, GuardInv,
       EndedInv, LimitedInv, FileInv
  <2>3. DefInv'
    BY <1>2, TestTargetDoes DEF Frame, SameTarget, Continues, Ends, At, Quiet, GuardInv,
       EndedInv, LimitedInv, DefInv
  <2>4. NVRAMInv'
    BY <1>2, TestTargetDoes DEF Frame, SameTarget, Continues, Ends, At, Quiet, GuardInv,
       EndedInv, LimitedInv, NVRAMInv
  <2>5. ThrottleInv'
    BY <1>2, TestTargetDoes DEF Frame, SameTarget, Continues, Ends, At, Quiet, GuardInv,
       EndedInv, LimitedInv, ThrottleInv
  <2> QED BY <2>1, <2>2, <2>3, <2>4, <2>5
<1>3. CASE RemoteRsyncFile(t)
  <2>1. HoldInv'
    <3>1. carried[t] # None /\ carried[t].pc = "copying" /\ (tgt'.file # None \/ tgt' = tgt)
      BY <1>3, RemoteRsyncFileDoes DEF Frame, At, SameTarget, FileBecomes, Copied
    <3>2. (Continues(t, "define") \/ Ends(t, "failed"))
      BY <1>3, RemoteRsyncFileDoes
    <3> QED BY <3>1, <3>2 DEF HoldInv, Continues, Ends
  <2>2. FileInv'
    <3>1. carried[t] # None /\ carried[t].pc = "copying"
      BY <1>3, RemoteRsyncFileDoes DEF Frame, At
    <3>2. windows' # windows \cup {"copy"}
      BY DEF Quiet
    <3>3. Continues(t, "define") \/ (Ends(t, "failed") /\ tgt' = tgt)
      BY <1>3, <3>2, RemoteRsyncFileDoes DEF SameTarget
    <3> QED BY <3>1, <3>3 DEF FileInv, Continues, Ends, GuardInv, EndedInv
  <2>3. DefInv'
    BY <1>3, RemoteRsyncFileDoes DEF Frame, SameTarget, FileBecomes, Continues, SameJob, Ends,
       At, Quiet, GuardInv, EndedInv, LimitedInv, DefInv
  <2>4. NVRAMInv'
    BY <1>3, RemoteRsyncFileDoes DEF Frame, SameTarget, FileBecomes, Continues, SameJob, Ends,
       At, Quiet, GuardInv, EndedInv, LimitedInv, NVRAMInv
  <2>5. ThrottleInv'
    BY <1>3, RemoteRsyncFileDoes DEF Frame, SameTarget, FileBecomes, Continues, SameJob, Ends,
       At, Quiet, GuardInv, EndedInv, LimitedInv, ThrottleInv
  <2> QED BY <2>1, <2>2, <2>3, <2>4, <2>5
<1>4. CASE DefineVM(t)
  <2>1. HoldInv'
    BY <1>4, DefineVMDoes DEF Frame, SameTarget, Continues, Ends, At, Quiet, GuardInv, EndedInv,
       LimitedInv, HoldInv
  <2>2. FileInv'
    BY <1>4, DefineVMDoes DEF Frame, SameTarget, Continues, Ends, At, Quiet, GuardInv, EndedInv,
       LimitedInv, FileInv
  <2>3. DefInv'
    BY <1>4, DefineVMDoes DEF Frame, SameTarget, Continues, Ends, At, Quiet, GuardInv, EndedInv,
       LimitedInv, DefInv
  <2>4. NVRAMInv'
    BY <1>4, DefineVMDoes DEF Frame, SameTarget, Continues, Ends, At, Quiet, GuardInv, EndedInv,
       LimitedInv, NVRAMInv
  <2>5. ThrottleInv'
    BY <1>4, DefineVMDoes DEF Frame, SameTarget, Continues, Ends, At, Quiet, GuardInv, EndedInv,
       LimitedInv, ThrottleInv
  <2> QED BY <2>1, <2>2, <2>3, <2>4, <2>5
<1>5. CASE Assess(t)
  <2>1. HoldInv'
    BY <1>5, AssessDoes DEF Frame, SameTarget, Continues, Ends, At, Quiet, GuardInv, EndedInv,
       LimitedInv, HoldInv
  <2>2. FileInv'
    BY <1>5, AssessDoes DEF Frame, SameTarget, Continues, Ends, At, Quiet, GuardInv, EndedInv,
       LimitedInv, FileInv
  <2>3. DefInv'
    BY <1>5, AssessDoes DEF Frame, SameTarget, Continues, Ends, At, Quiet, GuardInv, EndedInv,
       LimitedInv, DefInv
  <2>4. NVRAMInv'
    BY <1>5, AssessDoes DEF Frame, SameTarget, Continues, Ends, At, Quiet, GuardInv, EndedInv,
       LimitedInv, NVRAMInv
  <2>5. ThrottleInv'
    BY <1>5, AssessDoes DEF Frame, SameTarget, Continues, Ends, At, Quiet, GuardInv, EndedInv,
       LimitedInv, ThrottleInv
  <2> QED BY <2>1, <2>2, <2>3, <2>4, <2>5
<1>6. CASE prepareLiveMigrationTargets(t)
  <2>1. HoldInv'
    BY <1>6, prepareLiveMigrationTargetsDoes DEF Frame, SameTarget, FileBecomes, Continues,
       Ends, At, Quiet, GuardInv, EndedInv, LimitedInv, HoldInv
  <2>2. FileInv'
    BY <1>6, prepareLiveMigrationTargetsDoes DEF Frame, SameTarget, FileBecomes, Continues,
       Ends, At, Quiet, GuardInv, EndedInv, LimitedInv, FileInv
  <2>3. DefInv'
    BY <1>6, prepareLiveMigrationTargetsDoes DEF Frame, SameTarget, FileBecomes, Continues,
       Ends, At, Quiet, GuardInv, EndedInv, LimitedInv, DefInv
  <2>4. NVRAMInv'
    BY <1>6, prepareLiveMigrationTargetsDoes DEF Frame, SameTarget, FileBecomes, Continues,
       Ends, At, Quiet, GuardInv, EndedInv, LimitedInv, NVRAMInv
  <2>5. ThrottleInv'
    BY <1>6, prepareLiveMigrationTargetsDoes DEF Frame, SameTarget, FileBecomes, Continues,
       Ends, At, Quiet, GuardInv, EndedInv, LimitedInv, ThrottleInv
  <2> QED BY <2>1, <2>2, <2>3, <2>4, <2>5
<1>7. CASE prepareMigrationNVRAMOnTarget(t)
  <2>1. HoldInv'
    BY <1>7, prepareMigrationNVRAMOnTargetDoes DEF Frame, SameTarget, Continues, SameJob, Ends,
       At, Quiet, GuardInv, EndedInv, LimitedInv, HoldInv
  <2>2. FileInv'
    BY <1>7, prepareMigrationNVRAMOnTargetDoes DEF Frame, SameTarget, Continues, SameJob, Ends,
       At, Quiet, GuardInv, EndedInv, LimitedInv, FileInv
  <2>3. DefInv'
    BY <1>7, prepareMigrationNVRAMOnTargetDoes DEF Frame, SameTarget, Continues, SameJob, Ends,
       At, Quiet, GuardInv, EndedInv, LimitedInv, DefInv
  <2>4. NVRAMInv'
    BY <1>7, prepareMigrationNVRAMOnTargetDoes DEF Frame, SameTarget, Continues, SameJob, Ends,
       At, Quiet, GuardInv, EndedInv, LimitedInv, NVRAMInv
  <2>5. ThrottleInv'
    BY <1>7, prepareMigrationNVRAMOnTargetDoes DEF Frame, SameTarget, Continues, SameJob, Ends,
       At, Quiet, GuardInv, EndedInv, LimitedInv, ThrottleInv
  <2> QED BY <2>1, <2>2, <2>3, <2>4, <2>5
<1>8. CASE Migrate(t)
  <2>1. HoldInv'
    BY <1>8, MigrateDoes DEF Frame, SameTarget, Continues, SameJob, Ends, At, Quiet, GuardInv,
       EndedInv, LimitedInv, HoldInv
  <2>2. FileInv'
    BY <1>8, MigrateDoes DEF Frame, SameTarget, Continues, SameJob, Ends, At, Quiet, GuardInv,
       EndedInv, LimitedInv, FileInv
  <2>3. DefInv'
    BY <1>8, MigrateDoes DEF Frame, SameTarget, Continues, SameJob, Ends, At, Quiet, GuardInv,
       EndedInv, LimitedInv, DefInv
  <2>4. NVRAMInv'
    BY <1>8, MigrateDoes DEF Frame, SameTarget, Continues, SameJob, Ends, At, Quiet, GuardInv,
       EndedInv, LimitedInv, NVRAMInv
  <2>5. ThrottleInv'
    BY <1>8, MigrateDoes DEF Frame, SameTarget, Continues, SameJob, Ends, At, Quiet, GuardInv,
       EndedInv, LimitedInv, ThrottleInv
  <2> QED BY <2>1, <2>2, <2>3, <2>4, <2>5
<1>9. CASE cleanupLiveMigrationTargets(t)
  <2>1. HoldInv'
    <3>1. carried[t] # None /\ carried[t].pc = "cleanup" /\ Continues(t, "failed")
      BY <1>9, cleanupLiveMigrationTargetsDoes DEF Frame, At
    <3> QED BY <3>1 DEF HoldInv, Continues
  <2>2. FileInv'
    BY <1>9, cleanupLiveMigrationTargetsDoes DEF Quiet, FileInv
  <2>3. DefInv'
    BY <1>9, cleanupLiveMigrationTargetsDoes DEF Frame, SameTarget, Continues, Ends, At, Quiet,
       GuardInv, EndedInv, LimitedInv, DefInv
  <2>4. NVRAMInv'
    <3>1. /\ carried[t] # None /\ carried[t].pc = "cleanup" /\ Continues(t, "failed")
          /\ tgt'.nvram = IF "nvram" \in carried[t].made THEN FALSE ELSE tgt.nvram
      BY <1>9, cleanupLiveMigrationTargetsDoes DEF Frame, At, Quiet
    <3> QED BY <3>1 DEF NVRAMInv, HoldInv, Continues
  <2>5. ThrottleInv'
    <3>1. /\ carried[t] # None /\ carried[t].pc = "cleanup"
          /\ Continues(t, "failed") /\ throttle' = throttle
      BY <1>9, cleanupLiveMigrationTargetsDoes DEF Frame, At
    <3> QED BY <3>1 DEF ThrottleInv, Continues
  <2> QED BY <2>1, <2>2, <2>3, <2>4, <2>5
<1>10. CASE Restore(t)
  <2>1. HoldInv'
    BY <1>10, RestoreDoes DEF Frame, SameTarget, Continues, Ends, At, Quiet, GuardInv, EndedInv,
       LimitedInv, HoldInv
  <2>2. FileInv'
    BY <1>10, RestoreDoes DEF Frame, SameTarget, Continues, Ends, At, Quiet, GuardInv, EndedInv,
       LimitedInv, FileInv
  <2>3. DefInv'
    BY <1>10, RestoreDoes DEF Frame, SameTarget, Continues, Ends, At, Quiet, GuardInv, EndedInv,
       LimitedInv, DefInv
  <2>4. NVRAMInv'
    BY <1>10, RestoreDoes DEF Frame, SameTarget, Continues, Ends, At, Quiet, GuardInv, EndedInv,
       LimitedInv, NVRAMInv
  <2>5. ThrottleInv'
    <3>1. CASE Frame(t, "moved") /\ Continues(t, "adopt")
      BY <3>1 DEF ThrottleInv, Continues
    <3>2. CASE Frame(t, "failed") /\ Ends(t, "failed")
      <4>1. throttle' # None => Succeeded \/ Does({"moved", "adopt"})
        BY <1>10, RestoreDoes DEF GuardInv, LimitedInv, DefInv
      <4> QED BY <3>2, <4>1 DEF ThrottleInv, Frame, At, Ends, GuardInv, EndedInv
    <3> QED BY <1>10, <3>1, <3>2, RestoreDoes
  <2> QED BY <2>1, <2>2, <2>3, <2>4, <2>5
<1>11. CASE AdoptMigratedVM(t)
  <2>1. HoldInv'
    BY <1>11, AdoptMigratedVMDoes DEF Frame, SameTarget, Continues, Ends, At, Quiet, GuardInv,
       EndedInv, LimitedInv, HoldInv
  <2>2. FileInv'
    BY <1>11, AdoptMigratedVMDoes DEF Frame, SameTarget, Continues, Ends, At, Quiet, GuardInv,
       EndedInv, LimitedInv, FileInv
  <2>3. DefInv'
    BY <1>11, AdoptMigratedVMDoes DEF Frame, SameTarget, Continues, Ends, At, Quiet, GuardInv,
       EndedInv, LimitedInv, DefInv
  <2>4. NVRAMInv'
    BY <1>11, AdoptMigratedVMDoes DEF Frame, SameTarget, Continues, Ends, At, Quiet, GuardInv,
       EndedInv, LimitedInv, NVRAMInv
  <2>5. ThrottleInv'
    BY <1>11, AdoptMigratedVMDoes DEF Frame, SameTarget, Continues, Ends, At, Quiet, GuardInv,
       EndedInv, LimitedInv, ThrottleInv
  <2> QED BY <2>1, <2>2, <2>3, <2>4, <2>5
<1> QED BY <1>1, <1>2, <1>3, <1>4, <1>5, <1>6, <1>7, <1>8, <1>9, <1>10, <1>11 DEF Work

LEMMA WorkKeeps ==
    ASSUME MigrationInv, NEW t \in Requests, Work(t)
    PROVE  MigrationInv'
<1>1. windows \subseteq windows'
  BY ValidateDoes, TestTargetDoes, RemoteRsyncFileDoes, DefineVMDoes, AssessDoes,
     prepareLiveMigrationTargetsDoes, prepareMigrationNVRAMOnTargetDoes, MigrateDoes,
     cleanupLiveMigrationTargetsDoes, RestoreDoes, AdoptMigratedVMDoes DEF Work, MigrationInv
<1>2. (Undisturbed' => Undisturbed) /\ (Quiet' => Quiet)
  BY <1>1 DEF Undisturbed, Quiet
<1> QED BY <1>2, WorkKeepsTypes, WorkKeepsGuards, WorkMoves, WorkTraces DEF MigrationInv,
   GuardInv

(* The guest, users and requests, and a crash.                             *)
LEMMA OthersKeep ==
    ASSUME MigrationInv,
           \/ GuestWrites \/ GuestStops \/ UserLooks \/ UserActs \/ UsedThere \/ Crash
           \/ \E r \in Requests : CreateVMMigrationPreview(r) \/ MigrateVM(r) \/ Submit(r)
           \/ \E t \in Requests : CancelWaiting(t) \/ CancelMigration(t) \/ Execute(t)
    PROVE  MigrationInv'
<1> USE MigrationAssumption, TargetType DEF MigrationInv
<1>1. CASE GuestWrites
  <2>1. MigrationTypeOK'
    BY <1>1 DEF MigrationTypeOK, Looks, Queue!Phases, GuestWrites, Others
  <2>2. GuardInv'
    BY <1>1 DEF GuardInv, LookedInv, EndedInv, AskedInv, LayersInv, At, LimitedInv, UsedInv,
       GuestWrites, Others, MigrationTypeOK
  <2>3. Undisturbed' => MoveInv'
    BY <1>1 DEF MoveInv, AloneInv, WayInv, OnItsWay, Shut, Moved, Freed, WholeInv, Undisturbed,
       GuestWrites, Others, MigrationTypeOK
  <2>4. Quiet' => TraceInv'
    BY <1>1 DEF TraceInv, HoldInv, Holding, FileInv, DefInv, NVRAMInv, ThrottleInv, Does,
       Succeeded, Quiet, GuestWrites, Others
  <2> QED BY <2>1, <2>2, <2>3, <2>4 DEF MigrationInv
<1>2. CASE GuestStops
  <2>1. MigrationTypeOK'
    BY <1>2 DEF MigrationTypeOK, Looks, Queue!Phases, GuestStops, Others
  <2>2. GuardInv'
    BY <1>2 DEF GuardInv, LookedInv, EndedInv, AskedInv, LayersInv, At, LimitedInv, UsedInv,
       GuestStops, Others, MigrationTypeOK
  <2>3. Undisturbed' => MoveInv'
    BY <1>2 DEF MoveInv, AloneInv, WayInv, OnItsWay, Shut, Moved, Freed, WholeInv, Undisturbed,
       GuestStops, Others, MigrationTypeOK
  <2>4. Quiet' => TraceInv'
    BY <1>2 DEF TraceInv, HoldInv, Holding, FileInv, DefInv, NVRAMInv, ThrottleInv, Does,
       Succeeded, Quiet, GuestStops, Others
  <2> QED BY <2>1, <2>2, <2>3, <2>4 DEF MigrationInv
<1>3. CASE UserLooks
  <2>1. MigrationTypeOK'
    BY <1>3 DEF MigrationTypeOK, Looks, Queue!Phases, UserLooks, Others, EnsureVMNotMigrating,
       IsVMUnderMigration
  <2>2. GuardInv'
    BY <1>3 DEF GuardInv, LookedInv, EndedInv, AskedInv, LayersInv, At, LimitedInv, UsedInv,
       UserLooks, Others, EnsureVMNotMigrating, IsVMUnderMigration, MigrationTypeOK
  <2>3. Undisturbed' => MoveInv'
    BY <1>3 DEF MoveInv, AloneInv, WayInv, OnItsWay, Shut, Moved, Freed, WholeInv, Undisturbed,
       UserLooks, Others, EnsureVMNotMigrating, IsVMUnderMigration, MigrationTypeOK
  <2>4. Quiet' => TraceInv'
    BY <1>3 DEF TraceInv, HoldInv, Holding, FileInv, DefInv, NVRAMInv, ThrottleInv, Does,
       Succeeded, Quiet, UserLooks, Others, EnsureVMNotMigrating, IsVMUnderMigration
  <2> QED BY <2>1, <2>2, <2>3, <2>4 DEF MigrationInv
<1>4. CASE UserActs
  <2>0. /\ UNCHANGED <<tgt, throttle, req, phase, carried, outcome, ctx, faults>> /\ user' = None
        /\ \E on \in BOOLEAN, layers \in {1, 2} :
             /\ src' = [on |-> on, layers |-> layers, writes |-> src.writes]
             /\ src.on => on
        /\ windows \subseteq windows'
        /\ Undisturbed' => ~ IsVMUnderMigration /\ tgt.def = None
    <3>1. /\ UNCHANGED <<tgt, throttle, req, phase, carried, outcome, ctx, faults>> /\ user' = None
          /\ src' = IF user.op = "start" THEN [src EXCEPT !.on = TRUE]
                    ELSE IF src.on THEN [src EXCEPT !.layers = 2] ELSE src
          /\ windows' = windows \cup (When(IsVMUnderMigration /\ ~ user.saw, "race")
                                      \cup When(tgt.def # None, "kept"))
          /\ ~ user.saw
      BY <1>4 DEF UserActs, Others, Window, GuardInv, LookedInv
    <3>2. \E on \in BOOLEAN, layers \in {1, 2} :
             /\ src' = [on |-> on, layers |-> layers, writes |-> src.writes]
             /\ src.on => on
      <4>1. src = [on |-> src.on, layers |-> src.layers, writes |-> src.writes]
        BY DEF MigrationTypeOK
      <4>2. \/ src' = [on |-> TRUE, layers |-> src.layers, writes |-> src.writes]
            \/ src' = [on |-> src.on, layers |-> 2, writes |-> src.writes]
            \/ src' = [on |-> src.on, layers |-> src.layers, writes |-> src.writes]
        BY <3>1, <4>1
      <4> QED BY <4>2
    <3> QED BY <3>1, <3>2 DEF Undisturbed, When
  <2>1. MigrationTypeOK'
    BY <2>0 DEF MigrationTypeOK
  <2>2. GuardInv'
    BY <2>0 DEF GuardInv, LookedInv, EndedInv, AskedInv, LayersInv, At, LimitedInv, UsedInv
  <2>3. Undisturbed' => MoveInv'
    <3> SUFFICES ASSUME Undisturbed' PROVE MoveInv'
      OBVIOUS
    <3>1. Undisturbed /\ tgt.def = None /\ \A t \in Requests : carried[t] = None
      BY <2>0 DEF Undisturbed, IsVMUnderMigration, MigrationTypeOK
    <3>2. \A t \in Requests : outcome[t] # "success"
      BY <3>1 DEF MoveInv, WholeInv, Moved
    <3> QED BY <2>0, <3>1, <3>2 DEF MoveInv, AloneInv, WayInv, WholeInv
  <2>4. Quiet' => TraceInv'
    BY <2>0 DEF TraceInv, HoldInv, Holding, FileInv, DefInv, NVRAMInv, ThrottleInv, Does,
       Succeeded, Quiet
  <2> QED BY <2>1, <2>2, <2>3, <2>4
<1>5. CASE UsedThere
  <2>1. MigrationTypeOK'
    BY <1>5 DEF MigrationTypeOK, Looks, Queue!Phases, UsedThere
  <2>2. GuardInv'
    BY <1>5 DEF GuardInv, LookedInv, EndedInv, AskedInv, LayersInv, At, LimitedInv, UsedInv,
       UsedThere, MigrationTypeOK
  <2>3. Undisturbed' => MoveInv'
    BY <1>5 DEF MoveInv, AloneInv, WayInv, OnItsWay, Shut, Moved, Freed, WholeInv, Undisturbed,
       UsedThere, MigrationTypeOK
  <2>4. Quiet' => TraceInv'
    BY <1>5 DEF TraceInv, HoldInv, Holding, FileInv, DefInv, NVRAMInv, ThrottleInv, Does,
       Succeeded, Quiet, UsedThere
  <2> QED BY <2>1, <2>2, <2>3, <2>4 DEF MigrationInv
<1>6. CASE Crash
  <2>1. MigrationTypeOK'
    BY <1>6 DEF MigrationTypeOK, Looks, Queue!Phases, Crash, Fault, Window
  <2>2. GuardInv'
    BY <1>6 DEF GuardInv, LookedInv, EndedInv, AskedInv, LayersInv, At, LimitedInv, UsedInv,
       Crash, Fault, Window, MigrationTypeOK
  <2>3. Undisturbed' => MoveInv'
    BY <1>6 DEF MoveInv, AloneInv, WayInv, OnItsWay, Shut, Moved, Freed, WholeInv, Undisturbed,
       Crash, Fault, Window, MigrationTypeOK
  <2>4. Quiet' => TraceInv'
    BY <1>6 DEF TraceInv, HoldInv, Holding, FileInv, DefInv, NVRAMInv, ThrottleInv, Does,
       Succeeded, Quiet, Crash, Fault, Window
  <2> QED BY <2>1, <2>2, <2>3, <2>4 DEF MigrationInv
<1>7. ASSUME NEW t \in Requests, CreateVMMigrationPreview(t) PROVE MigrationInv'
  <2>1. MigrationTypeOK'
    BY <1>7 DEF MigrationTypeOK, Previews, Modes, DetectMigrationModeFromState,
       CreateVMMigrationPreview, Queue!Accept, Queue!Skip, Queue!Move, Queue!Phases
  <2>2. GuardInv'
    BY <1>7 DEF GuardInv, LookedInv, EndedInv, AskedInv, LayersInv, At, LimitedInv, UsedInv,
       CreateVMMigrationPreview, Queue!Accept, Queue!Skip, Queue!Move, Queue!Phases,
       MigrationTypeOK
  <2>3. Undisturbed' => MoveInv'
    BY <1>7 DEF MoveInv, AloneInv, WayInv, OnItsWay, Shut, Moved, Freed, WholeInv, Undisturbed,
       CreateVMMigrationPreview, Queue!Accept, Queue!Skip, Queue!Move, Queue!Phases,
       MigrationTypeOK
  <2>4. Quiet' => TraceInv'
    BY <1>7 DEF TraceInv, HoldInv, Holding, FileInv, DefInv, NVRAMInv, ThrottleInv, Does,
       Succeeded, Quiet, CreateVMMigrationPreview, Queue!Accept, Queue!Skip, Queue!Move,
       Queue!Phases
  <2> QED BY <2>1, <2>2, <2>3, <2>4 DEF MigrationInv
<1>8. ASSUME NEW t \in Requests, MigrateVM(t) PROVE MigrationInv'
  <2>1. MigrationTypeOK'
    BY <1>8 DEF MigrationTypeOK, Previews, Modes, MigrateVM, Queue!Accept, Queue!Skip,
       Queue!Move, Queue!Phases
  <2>2. GuardInv'
    BY <1>8 DEF GuardInv, LookedInv, EndedInv, AskedInv, LayersInv, At, LimitedInv, UsedInv,
       MigrateVM, Queue!Accept, Queue!Skip, Queue!Move, Queue!Phases, MigrationTypeOK
  <2>3. Undisturbed' => MoveInv'
    BY <1>8 DEF MoveInv, AloneInv, WayInv, OnItsWay, Shut, Moved, Freed, WholeInv, Undisturbed,
       MigrateVM, Queue!Accept, Queue!Skip, Queue!Move, Queue!Phases, MigrationTypeOK
  <2>4. Quiet' => TraceInv'
    BY <1>8 DEF TraceInv, HoldInv, Holding, FileInv, DefInv, NVRAMInv, ThrottleInv, Does,
       Succeeded, Quiet, MigrateVM, Queue!Accept, Queue!Skip, Queue!Move, Queue!Phases
  <2> QED BY <2>1, <2>2, <2>3, <2>4 DEF MigrationInv
<1>9. ASSUME NEW t \in Requests, Submit(t) PROVE MigrationInv'
  <2>1. MigrationTypeOK'
    BY <1>9 DEF MigrationTypeOK, Previews, Modes, Submit, Queue!Accept, Queue!Skip, Queue!Move,
       Queue!Phases
  <2>2. GuardInv'
    BY <1>9 DEF GuardInv, LookedInv, EndedInv, AskedInv, LayersInv, At, LimitedInv, UsedInv,
       Submit, Queue!Accept, Queue!Skip, Queue!Move, Queue!Phases, MigrationTypeOK
  <2>3. Undisturbed' => MoveInv'
    BY <1>9 DEF MoveInv, AloneInv, WayInv, OnItsWay, Shut, Moved, Freed, WholeInv, Undisturbed,
       Submit, Queue!Accept, Queue!Skip, Queue!Move, Queue!Phases, MigrationTypeOK
  <2>4. Quiet' => TraceInv'
    BY <1>9 DEF TraceInv, HoldInv, Holding, FileInv, DefInv, NVRAMInv, ThrottleInv, Does,
       Succeeded, Quiet, Submit, Queue!Accept, Queue!Skip, Queue!Move, Queue!Phases
  <2> QED BY <2>1, <2>2, <2>3, <2>4 DEF MigrationInv
<1>10. ASSUME NEW t \in Requests, CancelWaiting(t) PROVE MigrationInv'
  <2>1. MigrationTypeOK'
    BY <1>10 DEF MigrationTypeOK, Previews, Modes, CancelWaiting, Queue!Accept, Queue!Skip,
       Queue!Move, Queue!Phases
  <2>2. GuardInv'
    BY <1>10 DEF GuardInv, LookedInv, EndedInv, AskedInv, LayersInv, At, LimitedInv, UsedInv,
       CancelWaiting, Queue!Accept, Queue!Skip, Queue!Move, Queue!Phases, MigrationTypeOK
  <2>3. Undisturbed' => MoveInv'
    BY <1>10 DEF MoveInv, AloneInv, WayInv, OnItsWay, Shut, Moved, Freed, WholeInv, Undisturbed,
       CancelWaiting, Queue!Accept, Queue!Skip, Queue!Move, Queue!Phases, MigrationTypeOK
  <2>4. Quiet' => TraceInv'
    BY <1>10 DEF TraceInv, HoldInv, Holding, FileInv, DefInv, NVRAMInv, ThrottleInv, Does,
       Succeeded, Quiet, CancelWaiting, Queue!Accept, Queue!Skip, Queue!Move, Queue!Phases
  <2> QED BY <2>1, <2>2, <2>3, <2>4 DEF MigrationInv
<1>11. ASSUME NEW t \in Requests, CancelMigration(t) PROVE MigrationInv'
  <2>1. MigrationTypeOK'
    BY <1>11 DEF MigrationTypeOK, Previews, Modes, CancelMigration, Queue!Accept, Queue!Skip,
       Queue!Move, Queue!Phases
  <2>2. GuardInv'
    BY <1>11 DEF GuardInv, LookedInv, EndedInv, AskedInv, LayersInv, At, LimitedInv, UsedInv,
       CancelMigration, Queue!Accept, Queue!Skip, Queue!Move, Queue!Phases, MigrationTypeOK
  <2>3. Undisturbed' => MoveInv'
    BY <1>11 DEF MoveInv, AloneInv, WayInv, OnItsWay, Shut, Moved, Freed, WholeInv, Undisturbed,
       CancelMigration, Queue!Accept, Queue!Skip, Queue!Move, Queue!Phases, MigrationTypeOK
  <2>4. Quiet' => TraceInv'
    BY <1>11 DEF TraceInv, HoldInv, Holding, FileInv, DefInv, NVRAMInv, ThrottleInv, Does,
       Succeeded, Quiet, CancelMigration, Queue!Accept, Queue!Skip, Queue!Move, Queue!Phases
  <2> QED BY <2>1, <2>2, <2>3, <2>4 DEF MigrationInv
<1>12. ASSUME NEW t \in Requests, Execute(t) PROVE MigrationInv'
  <2>0. /\ UNCHANGED <<src, tgt, throttle, req, outcome, ctx, user, faults>>
        /\ carried' \in [Requests -> Jobs \cup {None}]
        /\ carried'[t] \in Jobs /\ carried'[t].pc = "validate"
        /\ \A u \in Requests \ {t} : carried'[u] = carried[u] /\ phase'[u] = phase[u]
        /\ carried[t] = None /\ phase[t] = "waiting" /\ phase'[t] = "executing"
        /\ phase' \in [Requests -> Queue!Phases]
        /\ windows' = windows \cup When(\E u \in Requests \ {t} : carried[u] # None, "twice")
    BY <1>12, ExecuteDoes DEF GuardInv
  <2>1. MigrationTypeOK'
    BY <2>0 DEF MigrationTypeOK
  <2>2. GuardInv'
    BY <2>0 DEF GuardInv, LookedInv, EndedInv, AskedInv, LayersInv, At, LimitedInv, UsedInv,
       MigrationTypeOK
  <2>3. Undisturbed' => MoveInv'
    BY <2>0 DEF MoveInv, AloneInv, WayInv, OnItsWay, Shut, Moved, Freed, WholeInv, Undisturbed,
       When
  <2>4. Quiet' => TraceInv'
    <3> SUFFICES ASSUME Quiet' PROVE TraceInv'
      OBVIOUS
    <3>1. TraceInv
      BY <2>0 DEF Quiet
    <3>2. /\ Succeeded => Succeeded'
          /\ \A S : Does(S) => Does(S)'
      BY <2>0 DEF Succeeded, Does
    <3>3. HoldInv'
      BY <2>0, <3>1 DEF TraceInv, HoldInv, Holding
    <3>4. FileInv' /\ DefInv' /\ ThrottleInv'
      BY <2>0, <3>1, <3>2 DEF TraceInv, FileInv, DefInv, ThrottleInv, Holding
    <3>5. NVRAMInv'
      BY <2>0, <3>1, <3>2 DEF TraceInv, NVRAMInv
    <3> QED BY <3>3, <3>4, <3>5 DEF TraceInv
  <2> QED BY <2>1, <2>2, <2>3, <2>4 DEF MigrationInv
<1> QED BY <1>1, <1>2, <1>3, <1>4, <1>5, <1>6, <1>7, <1>8, <1>9, <1>10, <1>11, <1>12

(* The inductive invariant of a migration, for any requests and errors.    *)
THEOREM MigrationInvariant == MigrationSpec => []MigrationInv
<1>1. MigrationInv /\ [MigrationNext]_migrationVars => MigrationInv'
  <2> SUFFICES ASSUME MigrationInv, [MigrationNext]_migrationVars PROVE MigrationInv'
    OBVIOUS
  <2>1. CASE UNCHANGED migrationVars
    BY <2>1 DEF migrationVars, MigrationInv, MigrationTypeOK, GuardInv, LookedInv, EndedInv,
       AskedInv, LayersInv, LimitedInv, UsedInv, MoveInv, AloneInv, WayInv, OnItsWay, Shut,
       Moved, Freed, WholeInv, TraceInv, HoldInv, FileInv, DefInv, NVRAMInv, ThrottleInv, Does,
       Succeeded, Undisturbed, Quiet, At
  <2>2. CASE MigrationNext
    BY <2>2, WorkKeeps, OthersKeep DEF MigrationNext
  <2> QED BY <2>1, <2>2
<1> QED BY MigrationStarts, <1>1, PTL DEF MigrationSpec

(* Machines, tasks, previews and requests keep their types.                *)
THEOREM MigrationTypes == MigrationSpec => []MigrationTypeOK
<1>1. MigrationInv => MigrationTypeOK
  BY DEF MigrationInv
<1> QED BY MigrationInvariant, <1>1, PTL

(* A task that ended well has moved the machine with every change of its   *)
(* disk (vm/migration/execute.go), but for the races the property names.   *)
THEOREM MigrationMovesTheWhole == MigrationSpec => []MigratedIsWhole
<1>1. MigrationInv => MigratedIsWhole
  BY DEF MigrationInv, MoveInv, WholeInv, Moved, Freed, Undisturbed, MigratedIsWhole
<1> QED BY MigrationInvariant, <1>1, PTL

(* When every try has failed nothing is left at the target, but for the    *)
(* errors the property names.                                              *)
THEOREM FailureLeavesNothing == MigrationSpec => []FailedLeavesNothing
<1>1. MigrationInv => FailedLeavesNothing
  <2> SUFFICES ASSUME MigrationInv, Quiet,
                      \A t \in Requests : carried[t] = None /\ outcome[t] # "success"
               PROVE  tgt = Nowhere /\ throttle = None
    BY DEF FailedLeavesNothing, Quiet
  <2>1. ~ Succeeded /\ \A S : ~ Does(S)
    BY DEF Succeeded, Does
  <2>2. /\ tgt.file = None /\ tgt.def = None /\ ~ tgt.on /\ ~ tgt.used /\ ~ tgt.nvram
        /\ throttle = None
    BY <2>1 DEF MigrationInv, TraceInv, FileInv, DefInv, NVRAMInv, ThrottleInv
  <2>3. tgt = Nowhere
    BY <2>2 DEF Nowhere, MigrationInv, MigrationTypeOK
  <2> QED BY <2>2, <2>3
<1> QED BY MigrationInvariant, <1>1, PTL
=============================================================================
