----------------------------- MODULE QuotaProofs ------------------------------
(*****************************************************************************)
(* Theorems about quotas: RuntimeQuota for any machines, tasks, limits and  *)
(* any number of edits, errors, crashes and concurrent observations; and    *)
(* TrafficQuota for any quotas, months and operations.                      *)
(*****************************************************************************)
EXTENDS RuntimeQuota, TrafficQuota, FiniteSetTheorems, TLAPS

(* RuntimeQuota.                                                            *)

(* A copy of the row charges at least the machines that ran on and at most *)
(* all of them; so does the row that is computed from such a copy.         *)
Counts(n) == Cardinality(steady) <= n /\ n <= Cardinality(Machines)

Honest(r) ==
    /\ r.seen <= now
    /\ Counts(r.count)
    /\ Cardinality(steady) * r.seen <= r.used
    /\ r.used <= Cardinality(Machines) * (r.seen + slack)

LookOK(c) ==
    c # None =>
        /\ c.pc \in {"row", "list", "persist"} => c.at <= now
        /\ c.pc \in {"row", "persist"} => Counts(c.count)
        /\ c.pc \in {"list", "persist"} => Honest(c.row)

(* The collector has asked libvirt before it reads the rows, and does not  *)
(* ask again.                                                              *)
Holds(o, c) == o = "collector" => c = None \/ c.pc # "list"

QuotaInv ==
    /\ TypeOK
    /\ Honest(row)
    /\ \A o \in Observers : LookOK(look[o]) /\ Holds(o, look[o])
    /\ FlagIsBacked

-----------------------------------------------------------------------------
LEMMA MachinesFinite ==
    ASSUME kind \in Kinds
    PROVE  /\ IsFiniteSet(Machines)
           /\ Machines \subseteq VMs
           /\ Cardinality(Machines) \in Nat
           /\ Cardinality(VMs) \in Nat
           /\ Cardinality(Machines) <= Cardinality(VMs)
           /\ \A S \in SUBSET Machines :
                IsFiniteSet(S) /\ Cardinality(S) \in Nat /\ Cardinality(S) <= Cardinality(Machines)
           /\ \A S \in SUBSET Machines : \A T \in SUBSET S : Cardinality(T) <= Cardinality(S)
<1>1. Machines \subseteq VMs
  BY QuotaAssumption DEF Machines
<1>2. IsFiniteSet(Machines)
  BY <1>1, QuotaAssumption, FS_Subset
<1>3. Cardinality(Machines) \in Nat /\ Cardinality(VMs) \in Nat
  BY <1>2, QuotaAssumption, FS_CardinalityType
<1>4. Cardinality(Machines) <= Cardinality(VMs)
  BY <1>1, QuotaAssumption, FS_Subset
<1>5. ASSUME NEW S \in SUBSET Machines
      PROVE  IsFiniteSet(S) /\ Cardinality(S) \in Nat /\ Cardinality(S) <= Cardinality(Machines)
  <2>1. IsFiniteSet(S) /\ Cardinality(S) <= Cardinality(Machines)
    BY <1>2, FS_Subset
  <2> QED BY <2>1, FS_CardinalityType
<1>6. ASSUME NEW S \in SUBSET Machines, NEW T \in SUBSET S
      PROVE  Cardinality(T) <= Cardinality(S)
  BY <1>5, FS_Subset
<1> QED BY <1>1, <1>2, <1>3, <1>4, <1>5, <1>6

(* Multiplication by a number of machines is monotone.                     *)
LEMMA TimesMonotone ==
    ASSUME NEW k \in Nat, NEW m \in Nat, NEW a \in Nat, NEW b \in Nat, k <= m, a <= b
    PROVE  k * a <= m * b /\ k * a \in Nat /\ m * b \in Nat
<1> DEFINE d == m - k
           e == b - a
<1>1. d \in Nat /\ e \in Nat /\ m = k + d /\ b = a + e
  OBVIOUS
<1> HIDE DEF d, e
<1>2. m * b = (k * a) + (k * e) + (d * a) + (d * e)
  BY <1>1
<1>3. k * a \in Nat /\ k * e \in Nat /\ d * a \in Nat /\ d * e \in Nat
  BY <1>1
<1> QED BY <1>2, <1>3

(* An honest copy stays honest while time passes, machines stop and rows   *)
(* are overwritten by older observations.                                  *)
LEMMA HonestStays ==
    ASSUME TypeOK, TypeOK', kind' = kind, now <= now', slack <= slack',
           steady' \subseteq steady
    PROVE  /\ \A n \in 0..Cardinality(VMs) : Counts(n) => Counts(n)'
           /\ \A r \in Rows : Honest(r) => Honest(r)'
           /\ \A c \in Looks \cup {None} : LookOK(c) => LookOK(c)'
<1>1. /\ Machines' = Machines /\ Cardinality(Machines) \in Nat
      /\ Cardinality(steady) \in Nat /\ Cardinality(steady') \in Nat
      /\ Cardinality(steady') <= Cardinality(steady)
      /\ Cardinality(VMs) \in Nat
  <2>1. Machines' = Machines /\ kind \in Kinds /\ steady \subseteq Machines
    BY DEF Machines, TypeOK
  <2> QED BY <2>1, MachinesFinite
<1>2. now \in Nat /\ now' \in Nat /\ slack \in Nat /\ slack' \in Nat
  BY QuotaAssumption DEF TypeOK
<1>3. \A n \in 0..Cardinality(VMs) : Counts(n) => Counts(n)'
  BY <1>1 DEF Counts
<1>4. ASSUME NEW r \in Rows, Honest(r) PROVE Honest(r)'
  <2>1. r.seen \in Nat /\ r.used \in Nat /\ r.count \in 0..Cardinality(VMs)
    BY DEF Rows
  <2>2. r.seen <= now' /\ Counts(r.count)'
    BY <1>2, <1>3, <1>4, <2>1 DEF Honest
  <2>3. Cardinality(steady') * r.seen <= r.used
    <3>1. Cardinality(steady') * r.seen <= Cardinality(steady) * r.seen
      BY <1>1, <2>1, TimesMonotone
    <3>2. Cardinality(steady') * r.seen \in Nat /\ Cardinality(steady) * r.seen \in Nat
      BY <1>1, <2>1
    <3> QED BY <1>4, <2>1, <3>1, <3>2 DEF Honest
  <2>4. r.used <= Cardinality(Machines) * (r.seen + slack')
    <3>1. Cardinality(Machines) * (r.seen + slack) <= Cardinality(Machines) * (r.seen + slack')
      BY <1>1, <1>2, <2>1, TimesMonotone
    <3>2. /\ Cardinality(Machines) * (r.seen + slack) \in Nat
          /\ Cardinality(Machines) * (r.seen + slack') \in Nat
      BY <1>1, <1>2, <2>1
    <3> QED BY <1>4, <2>1, <3>1, <3>2 DEF Honest
  <2> QED BY <1>1, <2>2, <2>3, <2>4 DEF Honest
<1>5. ASSUME NEW c \in Looks \cup {None}, LookOK(c) PROVE LookOK(c)'
  <2>1. CASE c \in Asked
    BY <1>2, <1>3, <1>5, <2>1 DEF LookOK, Asked
  <2>2. CASE c \in Listing
    BY <1>2, <1>4, <1>5, <2>2 DEF LookOK, Listing
  <2>3. CASE c \in Writing
    BY <1>2, <1>3, <1>4, <1>5, <2>3 DEF LookOK, Writing
  <2>4. CASE c \in Settling \cup Staged
    BY <2>4 DEF LookOK, Settling, Staged
  <2> QED BY <2>1, <2>2, <2>3, <2>4 DEF Looks, LookOK
<1> QED BY <1>3, <1>4, <1>5

(* The row that an observation writes is honest: if its copy is older than *)
(* the row's last observation, the time it adds back is in slack.          *)
LEMMA UsedIsHonest ==
    ASSUME TypeOK, NEW r \in Rows, Honest(r), NEW at \in Nat, at <= now,
           NEW n \in 0..Cardinality(VMs), Counts(n)
    PROVE  LET back == IF at < r.seen THEN r.seen - at ELSE 0
               new == [used |-> Used(r, at), count |-> n, seen |-> at] IN
           /\ new \in Rows
           /\ back \in Nat
           /\ new.seen <= now /\ Counts(new.count)
           /\ Cardinality(steady) * new.seen <= new.used
           /\ new.used <= Cardinality(Machines) * (new.seen + (slack + back))
<1> DEFINE back == IF at < r.seen THEN r.seen - at ELSE 0
           new == [used |-> Used(r, at), count |-> n, seen |-> at]
           N == Cardinality(Machines)
           S == Cardinality(steady)
<1>1. /\ N \in Nat /\ S \in Nat
      /\ r.seen \in Nat /\ r.used \in Nat /\ r.count \in Nat /\ slack \in Nat
      /\ S <= r.count /\ r.count <= N
      /\ S * r.seen <= r.used /\ r.used <= N * (r.seen + slack)
  <2>1. kind \in Kinds /\ steady \subseteq Machines
    BY DEF TypeOK
  <2>2. N \in Nat /\ S \in Nat
    BY <2>1, MachinesFinite
  <2>3. r.seen \in Nat /\ r.used \in Nat /\ r.count \in Nat /\ slack \in Nat
    BY DEF Rows, TypeOK
  <2> QED BY <2>2, <2>3 DEF Honest, Counts
<1> HIDE DEF N, S
<1>2. CASE at >= r.seen
  <2> DEFINE d == at - r.seen
  <2>1. d \in Nat /\ at = r.seen + d /\ back = 0 /\ Used(r, at) = r.used + (d * r.count)
    BY <1>1, <1>2 DEF Used
  <2> HIDE DEF d
  <2>2. S * d <= d * r.count /\ d * r.count <= N * d /\ d * r.count \in Nat
        /\ S * d \in Nat /\ N * d \in Nat
    <3>1. S * d <= r.count * d /\ r.count * d <= N * d
      BY <1>1, <2>1, TimesMonotone
    <3> QED BY <1>1, <2>1, <3>1
  <2>3. S * at = (S * r.seen) + (S * d)
    BY <1>1, <2>1
  <2>4. N * (at + slack) = (N * (r.seen + slack)) + (N * d)
    BY <1>1, <2>1
  <2>5. S * r.seen \in Nat /\ N * (r.seen + slack) \in Nat
    BY <1>1
  <2>6. S * at <= Used(r, at) /\ Used(r, at) <= N * (at + slack) /\ Used(r, at) \in Nat
    BY <1>1, <2>1, <2>2, <2>3, <2>4, <2>5
  <2>7. slack + back = slack
    BY <1>1, <2>1
  <2> QED BY <2>1, <2>6, <2>7 DEF Rows, N, S
<1>3. CASE at < r.seen
  <2> DEFINE d == r.seen - at
  <2>1. d \in Nat /\ r.seen = at + d /\ back = d /\ Used(r, at) = r.used
    BY <1>1, <1>3 DEF Used
  <2> HIDE DEF d
  <2>2. at + (slack + back) = r.seen + slack
    BY <1>1, <2>1
  <2>3. S * at <= S * r.seen /\ S * at \in Nat /\ S * r.seen \in Nat
    BY <1>1, <1>3, TimesMonotone
  <2>4. S * at <= Used(r, at)
    BY <1>1, <2>1, <2>3
  <2>5. Used(r, at) <= N * (at + (slack + back))
    BY <1>1, <2>1, <2>2
  <2> QED BY <1>1, <2>1, <2>4, <2>5 DEF Rows, N, S
<1> QED BY <1>1, <1>2, <1>3

-----------------------------------------------------------------------------
LEMMA QuotaInit == Init => QuotaInv
<1> SUFFICES ASSUME Init PROVE QuotaInv
  OBVIOUS
<1>1. /\ kind \in Kinds /\ on \subseteq Machines /\ steady = on
      /\ now = 0 /\ slack = 0
      /\ row = [used |-> 0, count |-> Cardinality(on), seen |-> 0]
      /\ look = [o \in Observers |-> None]
  BY DEF Init
<1>2. /\ Cardinality(Machines) \in Nat /\ Cardinality(VMs) \in Nat
      /\ Cardinality(Machines) <= Cardinality(VMs)
      /\ Cardinality(on) \in Nat /\ Cardinality(on) <= Cardinality(Machines)
  BY <1>1, MachinesFinite
<1>3. row \in Rows
  BY <1>1, <1>2 DEF Rows
<1>4. TypeOK
  <2>1. phase \in [Tasks -> Queue!Phases]
    BY DEF Init, Queue!Init, Queue!Phases
  <2>2. /\ now \in 0..Horizon /\ row.seen <= now /\ slack \in Nat
        /\ edits \in 0..MaxEdits /\ faults \in 0..MaxFaults
    BY <1>1, QuotaAssumption DEF Init
  <2>3. /\ starting \subseteq Machines /\ limit \in Limits
        /\ flag \in BOOLEAN /\ dropped \in BOOLEAN
        /\ look \in [Observers -> Looks \cup {None}]
    BY <1>1 DEF Init
  <2> QED BY <1>1, <1>3, <2>1, <2>2, <2>3 DEF TypeOK
<1>5. Honest(row)
  BY <1>1, <1>2 DEF Honest, Counts
<1>6. \A o \in Observers : LookOK(look[o]) /\ Holds(o, look[o])
  BY <1>1 DEF LookOK, Holds
<1> QED BY <1>4, <1>5, <1>6 DEF QuotaInv, FlagIsBacked, Init

(* At most one observer moves; what it now holds is honest.                *)
Moved(o, c) == look' = look \/ look' = [look EXCEPT ![o] = c]

LEMMA OneMoves ==
    ASSUME QuotaInv, TypeOK', kind' = kind, now <= now', slack <= slack',
           steady' \subseteq steady, row' = row \/ Honest(row)',
           NEW o \in Observers, NEW c \in Looks \cup {None}, Moved(o, c), LookOK(c),
           Holds(o, c), FlagIsBacked'
    PROVE  QuotaInv'
<1> USE DEF QuotaInv
<1>1. /\ \A r \in Rows : Honest(r) => Honest(r)'
      /\ \A d \in Looks \cup {None} : LookOK(d) => LookOK(d)'
  BY HonestStays
<1>2. /\ row \in Rows /\ Observers' = Observers
      /\ look \in [Observers -> Looks \cup {None}]
  BY DEF TypeOK, Observers
<1>3. Honest(row)'
  <2>1. CASE row' = row
    <3>1. Honest(row)
      OBVIOUS
    <3>2. ASSUME NEW r \in Rows, r = row, Honest(r)' PROVE Honest(row)'
      BY <2>1, <3>2 DEF Honest
    <3> QED BY <1>1, <1>2, <3>1, <3>2
  <2> QED BY <2>1
<1>4. \A p \in Observers : look'[p] \in {look[p], c} /\ look[p] \in Looks \cup {None}
  BY <1>2 DEF Moved
<1>5. ASSUME NEW p \in Observers PROVE LookOK(look[p])' /\ Holds(p, look'[p])
  <2>0. Holds(p, look'[p])
    BY <1>2, <1>4 DEF Moved, Holds
  <2>1. PICK d \in Looks \cup {None} : d = look'[p] /\ LookOK(d)
    BY <1>4
  <2>2. LookOK(d)'
    BY <1>1, <2>1
  <2> QED BY <2>0, <2>1, <2>2 DEF LookOK
<1> QED BY <1>2, <1>3, <1>5 DEF Holds

(* The steps that touch neither the row nor an observation.                *)
LEMMA OthersKeep ==
    ASSUME QuotaInv,
           \/ Tick
           \/ \E v \in VMs : MachineStops(v) \/ CheckRuntimeQuotaAvailable(v) \/ StartVM(v)
           \/ \E t \in Tasks : CancelTask(t)
    PROVE  QuotaInv'
<1> USE DEF QuotaInv
<1> DEFINE Calm == /\ TypeOK' /\ FlagIsBacked' /\ kind' = kind /\ now <= now'
                   /\ slack' = slack /\ steady' \subseteq steady
                   /\ row' = row /\ look' = look
<1>0. /\ now \in Nat /\ row.seen \in Nat /\ row.seen <= now
      /\ phase \in [Tasks -> Queue!Phases]
  BY QuotaAssumption DEF TypeOK, Rows
<1>1. ASSUME Tick PROVE Calm
  BY <1>0, <1>1, QuotaAssumption DEF Tick, TypeOK, Machines, Observers, FlagIsBacked, history
<1>2. ASSUME NEW v \in VMs, MachineStops(v) PROVE Calm
  BY <1>0, <1>2 DEF MachineStops, TypeOK, Machines, Observers, FlagIsBacked
<1>3. ASSUME NEW v \in VMs, CheckRuntimeQuotaAvailable(v) PROVE Calm
  BY <1>0, <1>3
  DEF CheckRuntimeQuotaAvailable, TypeOK, Machines, Observers, FlagIsBacked, history
<1>4. ASSUME NEW v \in VMs, StartVM(v) PROVE Calm
  BY <1>0, <1>4 DEF StartVM, TypeOK, Machines, Observers, FlagIsBacked, history
<1>5. ASSUME NEW t \in Tasks, CancelTask(t) PROVE Calm
  <2>1. /\ phase' = [phase EXCEPT ![t] = "settled"]
        /\ dropped' = flag
        /\ UNCHANGED <<kind, now, on, starting, limit, row, flag, look, edits, faults,
                       steady, slack>>
    BY <1>5 DEF CancelTask, Queue!Skip, Queue!Move
  <2>2. phase' \in [Tasks -> Queue!Phases]
    BY <1>0, <2>1 DEF Queue!Phases
  <2>3. TypeOK'
    BY <2>1, <2>2 DEF TypeOK, Machines, Observers
  <2>4. FlagIsBacked'
    BY <2>1 DEF FlagIsBacked
  <2> QED BY <1>0, <2>1, <2>3, <2>4
<1>6. Calm
  BY <1>1, <1>2, <1>3, <1>4, <1>5
<1>7. /\ Moved("edit", None) /\ LookOK(None) /\ Holds("edit", None)
      /\ "edit" \in Observers /\ slack <= slack'
  BY <1>6 DEF Moved, LookOK, Holds, Observers, TypeOK
<1> QED BY <1>6, <1>7, OneMoves

(* What is known of the state a step starts from.                          *)
LEMMA Known ==
    ASSUME QuotaInv
    PROVE  /\ now \in Nat /\ slack \in Nat /\ row \in Rows /\ row.seen \in Nat /\ row.seen <= now
           /\ phase \in [Tasks -> Queue!Phases]
           /\ look \in [Observers -> Looks \cup {None}]
           /\ Counts(Cardinality(on))
           /\ Cardinality(on) \in 0..Cardinality(VMs)
           /\ \A o \in Observers : Busy(o) => look[o] \in Looks /\ LookOK(look[o])
           /\ "collector" \in Observers /\ "edit" \in Observers /\ Tasks \subseteq Observers
           /\ kind' = kind => Machines' = Machines
<1> USE DEF QuotaInv, TypeOK
<1>1. /\ now \in Nat /\ slack \in Nat /\ row \in Rows /\ row.seen \in Nat /\ row.seen <= now
      /\ phase \in [Tasks -> Queue!Phases]
      /\ look \in [Observers -> Looks \cup {None}]
  BY QuotaAssumption DEF Rows
<1>2. Counts(Cardinality(on)) /\ Cardinality(on) \in 0..Cardinality(VMs)
  <2>1. kind \in Kinds /\ on \in SUBSET Machines /\ steady \in SUBSET on
    OBVIOUS
  <2>2. /\ Cardinality(on) \in Nat /\ Cardinality(on) <= Cardinality(Machines)
        /\ Cardinality(Machines) <= Cardinality(VMs)
        /\ Cardinality(Machines) \in Nat /\ Cardinality(VMs) \in Nat
        /\ Cardinality(steady) <= Cardinality(on)
    BY <2>1, MachinesFinite
  <2> QED BY <2>2 DEF Counts
<1>3. \A o \in Observers : Busy(o) => look[o] \in Looks /\ LookOK(look[o])
  BY <1>1 DEF Busy
<1>4. "collector" \in Observers /\ "edit" \in Observers /\ Tasks \subseteq Observers
  BY DEF Observers
<1>5. kind' = kind => Machines' = Machines
  BY DEF Machines
<1> QED BY <1>1, <1>2, <1>3, <1>4, <1>5

(* What an observation carries at each of its stages.                      *)
LEMMA StageOf ==
    ASSUME NEW c \in Looks
    PROVE  /\ c.pc = "row" => c \in Asked
           /\ c.pc = "list" => c \in Listing
           /\ c.pc = "persist" => c \in Writing
           /\ c.pc = "settle" => c \in Settling
  BY DEF Looks, Asked, Listing, Writing, Settling, Staged

LEMMA StagedOK ==
    ASSUME NEW c, c = None \/ c \in Settling \/ c \in Staged
    PROVE  c \in Looks \cup {None} /\ LookOK(c) /\ \A o : Holds(o, c)
  BY DEF LookOK, Holds, Looks, Settling, Staged

LEMMA EndedOK ==
    ASSUME NEW o \in Observers
    PROVE  Ended(o) \in Looks \cup {None} /\ LookOK(Ended(o)) /\ Holds(o, Ended(o))
  BY StagedOK DEF Ended, Staged

(* The steps of an observation that write no row and leave the tasks.      *)
LEMMA LookingKeeps ==
    ASSUME QuotaInv,
           \/ UpdateQuota
           \/ Collect
           \/ SyncAllUserRuntimeQuotaStates
           \/ \E o \in Observers \ {"collector"} :
                 SyncUserRuntimeQuotaState(o) \/ GetRuntimeActiveVMSetFails(o)
           \/ \E o \in Observers : maybeRelease(o)
    PROVE  QuotaInv'
<1> DEFINE Calm(o, c) ==
      /\ o \in Observers
      /\ c \in Looks \cup {None} /\ LookOK(c) /\ Holds(o, c)
      /\ look' = [look EXCEPT ![o] = c]
      /\ limit' \in Limits /\ edits' \in 0..MaxEdits /\ faults' \in 0..MaxFaults
      /\ UNCHANGED <<kind, now, on, starting, row, phase, steady, slack>>
      /\ flag' \in BOOLEAN /\ dropped' \in BOOLEAN
      /\ (flag' => flag) /\ (flag' /\ dropped => dropped')
<1>0. /\ QuotaInv /\ TypeOK
      /\ limit \in Limits /\ edits \in 0..MaxEdits /\ faults \in 0..MaxFaults
      /\ flag \in BOOLEAN /\ dropped \in BOOLEAN
  BY DEF QuotaInv, TypeOK
<1>1. ASSUME UpdateQuota PROVE Calm("edit", [pc |-> "begin"])
  <2>1. edits' \in 0..MaxEdits
    BY <1>0, <1>1, QuotaAssumption DEF UpdateQuota
  <2> QED BY <1>0, <1>1, <2>1, Known, StagedOK DEF UpdateQuota, Set, Staged
<1>2. ASSUME Collect
      PROVE  Calm("collector", [pc |-> "row", at |-> now, count |-> Cardinality(on)])
  <2> DEFINE c == [pc |-> "row", at |-> now, count |-> Cardinality(on)]
  <2>1. c \in Looks /\ LookOK(c) /\ Holds("collector", c)
    BY Known DEF Looks, Asked, LookOK, Holds
  <2> QED BY <1>0, <1>2, <2>1, Known DEF Collect, Set, Unobserved
<1>3. ASSUME SyncAllUserRuntimeQuotaStates PROVE \E c : Calm("collector", c)
  <2> DEFINE l == look["collector"]
             c == [pc |-> "persist", at |-> l.at, count |-> l.count,
                   row |-> row, limit |-> limit]
  <2>1. l \in Asked /\ LookOK(l) /\ l # None
    BY <1>3, Known, StageOf DEF SyncAllUserRuntimeQuotaStates, At, Busy
  <2>2. c \in Writing
    BY <1>0, <2>1, Known DEF Asked, Writing
  <2>3. LookOK(c) /\ Holds("collector", c)
    BY <1>0, <2>1 DEF Asked, LookOK, Holds, QuotaInv
  <2>4. look' = [look EXCEPT !["collector"] = c]
    BY <1>3 DEF SyncAllUserRuntimeQuotaStates, Set
  <2> HIDE DEF c
  <2> QED
    BY <1>0, <1>3, <2>2, <2>3, <2>4, Known
    DEF SyncAllUserRuntimeQuotaStates, Unobserved, Looks
<1>4. ASSUME NEW o \in Observers \ {"collector"}, SyncUserRuntimeQuotaState(o) PROVE \E c : Calm(o, c)
  <2> DEFINE c == [pc |-> "list", at |-> now, row |-> row, limit |-> limit]
  <2>1. c \in Listing /\ LookOK(c) /\ Holds(o, c)
    BY <1>0, Known DEF Listing, LookOK, Holds, QuotaInv
  <2>2. look' = [look EXCEPT ![o] = c]
    BY <1>4 DEF SyncUserRuntimeQuotaState, Set
  <2> HIDE DEF c
  <2> QED
    BY <1>0, <1>4, <2>1, <2>2, Known DEF SyncUserRuntimeQuotaState, Unobserved, Looks
<1>5. ASSUME NEW o \in Observers \ {"collector"}, GetRuntimeActiveVMSetFails(o) PROVE Calm(o, Ended(o))
  <2>1. faults' \in 0..MaxFaults
    BY <1>0, <1>5, QuotaAssumption DEF GetRuntimeActiveVMSetFails, Fault
  <2> QED
    BY <1>0, <1>5, <2>1, EndedOK DEF GetRuntimeActiveVMSetFails, Set, Unobserved
<1>6. ASSUME NEW o \in Observers, maybeRelease(o) PROVE Calm(o, Ended(o))
  BY <1>0, <1>6, EndedOK DEF maybeRelease, Set, Unobserved
<1>7. PICK o, c : Calm(o, c)
  BY <1>1, <1>2, <1>3, <1>4, <1>5, <1>6
<1>8. TypeOK'
  <2>1. Observers' = Observers /\ Machines' = Machines /\ look' \in [Observers -> Looks \cup {None}]
    BY <1>7, Known DEF Observers
  <2> QED BY <1>0, <1>7, <2>1 DEF TypeOK
<1>9. FlagIsBacked'
  BY <1>0, <1>7 DEF QuotaInv, FlagIsBacked
<1>10. /\ o \in Observers /\ c \in Looks \cup {None} /\ LookOK(c) /\ Holds(o, c) /\ Moved(o, c)
       /\ kind' = kind /\ now <= now' /\ slack <= slack' /\ steady' \subseteq steady
       /\ row' = row
  BY <1>7, Known DEF Moved
<1> HIDE DEF Calm
<1> QED BY <1>8, <1>9, <1>10, OneMoves

(* The step that writes the row: the observation's copy was honest, so the *)
(* row is.                                                                 *)
LEMMA PersistKeeps ==
    ASSUME QuotaInv, NEW o \in Observers, persistUserRuntimeQuotaState(o)
    PROVE  QuotaInv'
<1> USE DEF QuotaInv
<1> DEFINE c == Copy(o)
           back == IF c.at < c.row.seen THEN c.row.seen - c.at ELSE 0
           new == [used |-> Used(c.row, c.at), count |-> c.count, seen |-> c.at]
           d == [pc |-> "settle",
                 enforce |-> Reached(c.row, c.limit, c.at) /\ c.count > 0]
<1>0. /\ look[o] \in Looks /\ LookOK(look[o]) /\ look[o] # None
      /\ look[o].pc \in {"list", "persist"}
      /\ o = "collector" => look[o].pc = "persist"
  BY Known DEF persistUserRuntimeQuotaState, At, Busy, Holds
<1>1. /\ c.at \in Nat /\ c.at <= now
      /\ c.row \in Rows /\ Honest(c.row)
      /\ c.count \in 0..Cardinality(VMs) /\ Counts(c.count)
  <2>1. CASE look[o].pc = "persist"
    <3>1. look[o] \in Writing
      BY <1>0, <2>1, StageOf
    <3> QED BY <1>0, <2>1, <3>1, Known DEF Copy, Writing, LookOK
  <2>2. CASE look[o].pc = "list" /\ o # "collector"
    <3>1. look[o] \in Listing
      BY <1>0, <2>2, StageOf
    <3> QED BY <1>0, <2>2, <3>1, Known DEF Copy, Listing, LookOK
  <2> QED BY <1>0, <2>1, <2>2
<1>2. /\ row' = new
      /\ slack' = slack + back
      /\ look' = [look EXCEPT ![o] = d]
      /\ UNCHANGED <<kind, now, on, starting, limit, phase, edits, steady, flag, faults, dropped>>
  BY DEF persistUserRuntimeQuotaState, Set, Unobserved
<1>3. d \in Settling
  BY DEF Settling
<1> HIDE DEF c, d
<1>4. /\ new \in Rows /\ back \in Nat
      /\ new.seen <= now /\ Counts(new.count)
      /\ Cardinality(steady) * new.seen <= new.used
      /\ new.used <= Cardinality(Machines) * (new.seen + (slack + back))
  BY <1>1, UsedIsHonest
<1> HIDE DEF new, back
<1>5. Machines' = Machines /\ Observers' = Observers
  BY <1>2 DEF Machines, Observers
<1>6. Honest(row)'
  BY <1>2, <1>4, <1>5 DEF Honest, Counts
<1>7. slack' \in Nat /\ slack <= slack'
  BY <1>2, <1>4, Known
<1>8. TypeOK'
  BY <1>2, <1>3, <1>4, <1>5, <1>7, Known DEF TypeOK, Looks
<1>9. FlagIsBacked'
  BY <1>2 DEF FlagIsBacked
<1>10. d \in Looks \cup {None} /\ LookOK(d) /\ Holds(o, d) /\ Moved(o, d)
       /\ now <= now' /\ steady' \subseteq steady
  BY <1>2, <1>3, StagedOK, Known DEF Moved
<1> QED BY <1>2, <1>6, <1>7, <1>8, <1>9, <1>10, OneMoves

(* The flag and the shutdown tasks.                                        *)
LEMMA TaskKeeps ==
    ASSUME QuotaInv,
           \/ \E o \in Observers : maybeSubmit(o)
           \/ \E t \in Tasks : \/ Execute(t) \/ stopUserVMsForDisable(t)
                               \/ releaseRuntimeQuotaEnforcement(t)
    PROVE  QuotaInv'
<1> DEFINE Calm(o, c) ==
      /\ o \in Observers
      /\ c \in Looks \cup {None} /\ LookOK(c) /\ Holds(o, c)
      /\ look' = [look EXCEPT ![o] = c]
      /\ on' \subseteq on /\ steady' \subseteq on' /\ steady' \subseteq steady
      /\ faults' \in 0..MaxFaults
      /\ UNCHANGED <<kind, now, starting, limit, row, edits, slack>>
      /\ flag' \in BOOLEAN /\ dropped' \in BOOLEAN
      /\ phase' \in [Tasks -> Queue!Phases]
      /\ FlagIsBacked'
<1>0. /\ QuotaInv /\ TypeOK /\ FlagIsBacked
      /\ faults \in 0..MaxFaults /\ steady \subseteq on
      /\ flag \in BOOLEAN /\ dropped \in BOOLEAN
      /\ phase \in [Tasks -> Queue!Phases]
  BY DEF QuotaInv, TypeOK
<1>1. ASSUME NEW o \in Observers, maybeSubmit(o) PROVE Calm(o, Ended(o))
  <2>1. /\ look' = [look EXCEPT ![o] = Ended(o)]
        /\ UNCHANGED <<kind, now, on, starting, limit, row, edits, steady, slack, dropped>>
    BY <1>1 DEF maybeSubmit, Set
  <2>2. CASE flag' = TRUE /\ (\E t \in Tasks : Queue!Accept(t)) /\ UNCHANGED faults
    <3>1. PICK t \in Tasks : phase' = [phase EXCEPT ![t] = "waiting"]
      BY <2>2 DEF Queue!Accept, Queue!Move
    <3>2. phase' \in [Tasks -> Queue!Phases] /\ phase'[t] = "waiting"
      BY <1>0, <3>1 DEF Queue!Phases
    <3> QED BY <1>0, <2>1, <2>2, <3>2, EndedOK DEF FlagIsBacked
  <2>3. CASE UNCHANGED <<flag, phase>> /\ faults' \in 0..MaxFaults
    <3>1. FlagIsBacked'
      BY <1>0, <2>1, <2>3 DEF FlagIsBacked
    <3> QED BY <1>0, <2>1, <2>3, <3>1, EndedOK
  <2>4. Fault => faults' \in 0..MaxFaults
    BY <1>0, QuotaAssumption DEF Fault
  <2> QED BY <1>0, <1>1, <2>2, <2>3, <2>4 DEF maybeSubmit
<1>2. ASSUME NEW t \in Tasks, Execute(t) PROVE Calm(t, [pc |-> "stop"])
  <2>1. phase' = [phase EXCEPT ![t] = "executing"]
    BY <1>2 DEF Execute, Queue!Execute, Queue!Move
  <2>2. phase' \in [Tasks -> Queue!Phases]
    BY <1>0, <2>1 DEF Queue!Phases
  <2>3. FlagIsBacked'
    BY <1>0, <1>2, <2>1 DEF Execute, FlagIsBacked
  <2>4. [pc |-> "stop"] \in Staged
    BY DEF Staged
  <2> QED BY <1>0, <1>2, <2>2, <2>3, <2>4, Known, StagedOK DEF Execute, Set
<1>3. ASSUME NEW t \in Tasks, stopUserVMsForDisable(t) PROVE \E c : Calm(t, c)
  <2>1. PICK c \in Staged : look' = [look EXCEPT ![t] = c]
    BY <1>3 DEF stopUserVMsForDisable, Set, Staged
  <2>2. /\ on' \subseteq on /\ steady' = steady \cap on'
        /\ UNCHANGED <<kind, now, starting, limit, row, flag, phase, edits, slack, dropped>>
    BY <1>3 DEF stopUserVMsForDisable
  <2>3. faults' \in 0..MaxFaults
    BY <1>0, <1>3, QuotaAssumption DEF stopUserVMsForDisable, Fault
  <2>4. FlagIsBacked'
    BY <1>0, <2>2 DEF FlagIsBacked
  <2> QED BY <1>0, <2>1, <2>2, <2>3, <2>4, Known, StagedOK
<1>4. ASSUME NEW t \in Tasks, releaseRuntimeQuotaEnforcement(t) PROVE Calm(t, None)
  <2>1. phase' \in [Tasks -> Queue!Phases]
    BY <1>0, <1>4 DEF releaseRuntimeQuotaEnforcement, Queue!Settle, Queue!Move, Queue!Phases
  <2>2. flag' = FALSE /\ dropped' = FALSE
        /\ look' = [look EXCEPT ![t] = None]
        /\ UNCHANGED <<kind, now, on, starting, limit, row, edits, faults, steady, slack>>
    BY <1>4 DEF releaseRuntimeQuotaEnforcement, Set
  <2> QED BY <1>0, <2>1, <2>2, Known, StagedOK DEF FlagIsBacked
<1>5. PICK o, c : Calm(o, c)
  BY <1>1, <1>2, <1>3, <1>4
<1>6. TypeOK'
  <2>1. Observers' = Observers /\ Machines' = Machines /\ look' \in [Observers -> Looks \cup {None}]
    BY <1>5, Known DEF Observers
  <2> QED BY <1>0, <1>5, <2>1 DEF TypeOK
<1>7. /\ o \in Observers /\ c \in Looks \cup {None} /\ LookOK(c) /\ Holds(o, c) /\ Moved(o, c)
      /\ kind' = kind /\ now <= now' /\ slack <= slack' /\ steady' \subseteq steady
      /\ row' = row /\ FlagIsBacked'
  BY <1>5, Known DEF Moved
<1> HIDE DEF Calm
<1> QED BY <1>6, <1>7, OneMoves

LEMMA CrashKeeps ==
    ASSUME QuotaInv, Crash
    PROVE  QuotaInv'
<1> USE DEF QuotaInv
<1>1. /\ look' = [o \in Observers |-> None]
      /\ flag' = FALSE /\ dropped' = FALSE /\ starting' = {}
      /\ UNCHANGED <<kind, now, on, limit, row, edits, steady, slack>>
  BY DEF Crash
<1>2. phase' \in [Tasks -> Queue!Phases] /\ faults' \in 0..MaxFaults
  BY QuotaAssumption DEF Crash, Fault, TypeOK, Queue!Phases
<1>3. Machines' = Machines /\ Observers' = Observers
  BY <1>1 DEF Machines, Observers
<1>4. TypeOK'
  BY <1>1, <1>2, <1>3 DEF TypeOK
<1>5. Honest(row)'
  BY <1>1, <1>3 DEF Honest, Counts
<1> QED BY <1>1, <1>3, <1>4, <1>5 DEF LookOK, Holds, FlagIsBacked

LEMMA QuotaStep == QuotaInv /\ [Next]_vars => QuotaInv'
<1> SUFFICES ASSUME QuotaInv, [Next]_vars PROVE QuotaInv'
  OBVIOUS
<1>1. CASE UNCHANGED vars
  BY <1>1
  DEF vars, history, QuotaInv, TypeOK, Honest, Counts, LookOK, Holds, FlagIsBacked,
      Machines, Observers
<1>2. CASE Next
  <2>1. /\ "collector" \in Observers /\ "edit" \in Observers /\ Tasks \subseteq Observers
    BY DEF Observers
  <2> QED
    BY <1>2, <2>1, OthersKeep, LookingKeeps, PersistKeeps, TaskKeeps, CrashKeeps
    DEF Next, Collector, Observe, Task
<1> QED BY <1>1, <1>2

-----------------------------------------------------------------------------
(* The inductive invariant: the row and every copy of it are honest.       *)
THEOREM QuotaInvariant == Spec => []QuotaInv
<1>1. Init => QuotaInv
  BY QuotaInit
<1>2. QuotaInv /\ [Next]_vars => QuotaInv'
  BY QuotaStep
<1> QED
  BY <1>1, <1>2, PTL DEF Spec

THEOREM QuotaTypes == Spec => []TypeOK
<1>1. QuotaInv => TypeOK
  BY DEF QuotaInv
<1> QED
  BY <1>1, QuotaInvariant, PTL

(* However many observations read the row before one of them writes it,    *)
(* the time of a machine is charged once (persistUserRuntimeQuotaState).   *)
THEOREM RunningIsChargedOnce == Spec => []ChargedOnce
<1>1. QuotaInv => ChargedOnce
  BY DEF QuotaInv, Honest, ChargedOnce
<1> QED
  BY <1>1, QuotaInvariant, PTL

(* While the flag is up, a task that takes it down is on its way, unless   *)
(* the task was canceled before it was executed.                           *)
THEOREM FlagHasATask == Spec => []FlagIsBacked
<1>1. QuotaInv => FlagIsBacked
  BY DEF QuotaInv
<1> QED
  BY <1>1, QuotaInvariant, PTL

-----------------------------------------------------------------------------
(* TrafficQuota.                                                            *)

(* Whoever is to set a rate.                                               *)
Pending == \E p \in Ops : op[p] # None /\ op[p].pc \in {"apply", "write"}

(* Months to come have no record, and a turn is of a later month.          *)
MonthsInv == due => month > 1
ToComeInv == \A m \in 1..Months : m > month => rec[m] = None

(* Who changes whether a record is limited will set the rate.              *)
SavesInv ==
    \A p \in Ops : op[p] # None /\ op[p].pc = "save" =>
      op[p].month =< month /\ (op[p].new.limited # op[p].old.limited => op[p].do # "none")

(* A rate that is not the record's has somebody who will set it, or is the *)
(* one of the month before, which the job at the turn will look at.        *)
RateInv ==
    parted = {} /\ slow # IsTrafficLimited =>
      Pending \/ (due /\ Record(month - 1).limited)

TrafficInv == TrafficTypeOK /\ MonthsInv /\ ToComeInv /\ SavesInv /\ RateInv

LEMMA TrafficStarts == InitTraffic => TrafficInv
<1> SUFFICES ASSUME InitTraffic PROVE TrafficInv
  OBVIOUS
<1> USE TrafficAssumption DEF InitTraffic
<1>0. 1 \in 1..Months /\ 0 \in 0..MaxRaw
  OBVIOUS
<1>1. TrafficTypeOK
  <2>1. rec \in [1..Months -> Records \cup {None}] /\ op \in [Ops -> Steps \cup {None}]
    OBVIOUS
  <2> QED BY <1>0, <2>1 DEF TrafficTypeOK
<1>2. MonthsInv /\ ToComeInv /\ SavesInv
  BY DEF MonthsInv, ToComeInv, SavesInv
<1>3. RateInv
  BY <1>0 DEF RateInv, IsTrafficLimited, Record
<1> QED BY <1>1, <1>2, <1>3 DEF TrafficInv

(* The record of a month, which may have to be made.                       *)
LEMMA RecordType ==
    ASSUME TrafficTypeOK, NEW m \in 1..Months
    PROVE  Record(m) \in Records
  BY TrafficAssumption DEF TrafficTypeOK, Record, Records

(* Traffic is counted from its offset on.                                  *)
LEMMA ClampType ==
    ASSUME NEW n \in 0..MaxRaw, NEW offset \in 0..MaxRaw
    PROVE  ClampTrafficBytes(n, offset) \in 0..MaxRaw
  BY TrafficAssumption DEF ClampTrafficBytes

(* An operation that starts and leaves records and rates alone.            *)
LEMMA Starts ==
    ASSUME TrafficInv, NEW p \in Ops, op[p] = None, NEW o \in Steps \cup {None}, GoOp(p, o),
           UNCHANGED <<holder, bandwidth, month, raw, rec, slow, parted>>, quota' \in Quotas,
           o # None /\ o.pc = "save" =>
             o.month =< month /\ (o.new.limited # o.old.limited => o.do # "none"),
           \/ UNCHANGED due
           \/ due' = FALSE /\ (Record(month - 1).limited => o # None /\ o.pc = "apply")
    PROVE  TrafficInv'
<1> USE DEF TrafficInv
<1>1. op' = [op EXCEPT ![p] = o]
  BY DEF GoOp
<1>2. TrafficTypeOK'
  BY <1>1 DEF TrafficTypeOK
<1>3. MonthsInv' /\ ToComeInv'
  BY DEF MonthsInv, ToComeInv, TrafficTypeOK
<1>4. SavesInv'
  <2> SUFFICES ASSUME NEW q \in Ops, op'[q] # None, op'[q].pc = "save"
               PROVE  /\ op'[q].month =< month'
                      /\ op'[q].new.limited # op'[q].old.limited => op'[q].do # "none"
    BY DEF SavesInv
  <2>1. CASE q = p
    BY <1>1, <2>1 DEF TrafficTypeOK
  <2>2. CASE q # p
    BY <1>1, <2>2 DEF TrafficTypeOK, SavesInv
  <2> QED BY <2>1, <2>2
<1>5. RateInv'
  <2> SUFFICES ASSUME parted' = {}, slow' # IsTrafficLimited'
               PROVE  Pending' \/ (due' /\ Record(month - 1)'.limited)
    BY DEF RateInv
  <2>1. IsTrafficLimited' = IsTrafficLimited /\ Record(month - 1)' = Record(month - 1)
    BY DEF IsTrafficLimited, Record
  <2>2. Pending => Pending'
    <3> SUFFICES ASSUME NEW q \in Ops, op[q] # None, op[q].pc \in {"apply", "write"} PROVE Pending'
      BY DEF Pending
    <3>1. q # p /\ op'[q] = op[q]
      BY <1>1 DEF TrafficTypeOK
    <3> QED BY <3>1 DEF Pending
  <2>3. o # None /\ o.pc = "apply" => Pending'
    BY <1>1 DEF Pending, TrafficTypeOK
  <2> QED BY <2>1, <2>2, <2>3 DEF RateInv
<1> QED BY <1>2, <1>3, <1>4, <1>5

(* The first halves of the operations.                                     *)
LEMMA FirstHalves ==
    ASSUME TrafficInv,
           \/ CheckAndApplyTrafficLimit \/ ResetUserTrafficQuota \/ CheckTrafficAfterQuotaUpdate
           \/ ResetAllDailyTraffic \/ Refresh
    PROVE  TrafficInv'
<1> USE TrafficAssumption
<1>0. month \in 1..Months /\ raw \in 0..MaxRaw /\ TrafficTypeOK /\ quota \in Quotas
  BY DEF TrafficInv, TrafficTypeOK
<1> DEFINE old == Record(month)
<1>a. old \in Records
  BY <1>0, RecordType
<1> HIDE DEF old
<1>b. /\ old.offset \in 0..MaxRaw /\ old.used \in 0..MaxRaw /\ old.limited \in BOOLEAN
      /\ ClampTrafficBytes(raw, old.offset) \in 0..MaxRaw
  BY <1>0, <1>a, ClampType DEF Records
<1>1. CASE CheckAndApplyTrafficLimit
  <2> DEFINE used == ClampTrafficBytes(raw, old.offset)
             over == Over(used, quota)
             new == [old EXCEPT !.used = used, !.limited = over]
             do == IF over = old.limited THEN "none"
                   ELSE IF holder = "user" /\ over THEN "penalty" ELSE "apply"
             o == [pc |-> "save", month |-> month, old |-> old, new |-> new, do |-> do]
  <2>1. GoOp("checker", o) /\ Free("checker")
    BY <1>1 DEF CheckAndApplyTrafficLimit, old
  <2>2. over \in BOOLEAN
    BY DEF Over
  <2>3. new \in Records /\ new.limited = over
    BY <1>a, <1>b, <2>2 DEF Records
  <2>4. o \in Steps /\ o.pc = "save" /\ o.month = month
    BY <1>0, <1>a, <2>3 DEF Steps
  <2>5. o.new.limited # o.old.limited => o.do # "none"
    <3>1. o.new = new /\ o.old = old /\ o.do = do
      OBVIOUS
    <3> HIDE DEF new, o
    <3> QED BY <2>3, <3>1
  <2>6. /\ op["checker"] = None /\ "checker" \in Ops
        /\ UNCHANGED <<holder, bandwidth, quota, month, raw, rec, slow, due, parted>>
    BY <1>1, <2>1 DEF CheckAndApplyTrafficLimit, Free, Idle, Ops
  <2> HIDE DEF o
  <2> QED BY <1>0, <2>1, <2>4, <2>5, <2>6, Starts
<1>2. CASE ResetUserTrafficQuota
  <2> DEFINE new == [offset |-> raw, used |-> 0, limited |-> FALSE]
             o == [pc |-> "save", month |-> month, old |-> old, do |-> "apply", new |-> new]
  <2>1. GoOp("reset", o) /\ Free("reset")
    BY <1>2 DEF ResetUserTrafficQuota, old
  <2>2. o \in Steps
    BY <1>0, <1>a DEF Steps, Records
  <2>3. /\ op["reset"] = None /\ "reset" \in Ops
        /\ UNCHANGED <<holder, bandwidth, quota, month, raw, rec, slow, due, parted>>
    BY <1>2, <2>1 DEF ResetUserTrafficQuota, Free, Idle, Ops
  <2> QED BY <1>0, <2>1, <2>2, <2>3, Starts
<1>3. CASE CheckTrafficAfterQuotaUpdate
  <2> DEFINE used == IF holder = "user" THEN old.used ELSE ClampTrafficBytes(raw, old.offset)
             limited == old.limited /\ Over(used, quota')
             save == holder = "user" => limited # old.limited
             new == [old EXCEPT !.used = used, !.limited = limited]
             o == [pc |-> IF save THEN "save" ELSE "apply", month |-> month,
                   old |-> old, do |-> "apply", new |-> new]
  <2>1. GoOp("update", o) /\ Free("update")
    BY <1>3 DEF CheckTrafficAfterQuotaUpdate, old
  <2>2. limited \in BOOLEAN /\ used \in 0..MaxRaw
    BY <1>b DEF Over
  <2>3. new \in Records
    BY <1>a, <2>2 DEF Records
  <2>4. o \in Steps
    BY <1>0, <1>a, <2>3 DEF Steps
  <2>5. /\ op["update"] = None /\ "update" \in Ops /\ quota' \in Quotas
        /\ UNCHANGED <<holder, bandwidth, month, raw, rec, slow, due, parted>>
    BY <1>3, <2>1 DEF CheckTrafficAfterQuotaUpdate, Free, Idle, Ops
  <2> QED BY <1>0, <2>1, <2>4, <2>5, Starts
<1>4. ApplyOnly \in Steps /\ ApplyOnly.pc = "apply" /\ ApplyOnly # None
  BY DEF ApplyOnly, Steps
<1>5. CASE ResetAllDailyTraffic
  <2> DEFINE o == IF Record(month - 1).limited THEN ApplyOnly ELSE None
  <2>1. /\ GoOp("monthly", o) /\ op["monthly"] = None /\ "monthly" \in Ops /\ due' = FALSE
        /\ UNCHANGED <<holder, bandwidth, quota, month, raw, rec, slow, parted>>
    BY <1>5 DEF ResetAllDailyTraffic, Free, Idle, Ops
  <2>2. /\ o \in Steps \cup {None} /\ ~ (o # None /\ o.pc = "save")
        /\ Record(month - 1).limited => o # None /\ o.pc = "apply"
    BY <1>4
  <2> QED BY <1>0, <2>1, <2>2, Starts
<1>6. CASE Refresh
  <2>1. /\ GoOp("refresh", ApplyOnly) /\ op["refresh"] = None /\ "refresh" \in Ops
        /\ UNCHANGED <<holder, bandwidth, quota, month, raw, rec, slow, due, parted>>
    BY <1>6 DEF Refresh, Free, Idle, Ops
  <2> QED BY <1>0, <1>4, <2>1, Starts
<1> QED BY <1>1, <1>2, <1>3, <1>5, <1>6

(* The second halves: the record, ...                                      *)
LEMMA SaveKeeps ==
    ASSUME TrafficInv, parted = {}, NEW p \in Ops, Save(p)
    PROVE  TrafficInv'
<1> USE TrafficAssumption
<1> DEFINE o == op[p]
           then == IF o.do = "none" THEN None ELSE [pc |-> "apply", do |-> o.do]
<1>1. /\ op[p] # None /\ o.pc = "save"
      /\ UNCHANGED <<holder, bandwidth, quota, month, raw, slow, due>>
  BY DEF Save, Idle
<1>2. /\ o.month \in 1..Months /\ o.old \in Records /\ o.new \in Records
      /\ o.do \in {"none", "apply", "penalty"}
  BY <1>1 DEF TrafficInv, TrafficTypeOK, Steps
<1>3. then \in Steps \cup {None} /\ (o.do # "none" => then # None /\ then.pc = "apply")
  <2>1. o.do # "none" => [pc |-> "apply", do |-> o.do] \in Steps
    BY <1>2 DEF Steps
  <2> QED BY <2>1
<1>4. \/ /\ rec' = [rec EXCEPT ![o.month] = o.new] /\ op' = [op EXCEPT ![p] = then]
         /\ parted' = {} => Record(o.month) = o.old
         /\ parted' \subseteq {"stale"}
      \/ /\ parted' = {"failed"} /\ rec' = rec
         /\ \E to \in {None, then} : op' = [op EXCEPT ![p] = to]
  BY DEF Save, Parts, GoOp
<1> HIDE DEF o, then
<1>5. \E to \in {None, then} : op' = [op EXCEPT ![p] = to]
  BY <1>4
<1>6. rec' \in [1..Months -> Records \cup {None}] /\ op' \in [Ops -> Steps \cup {None}]
  BY <1>2, <1>3, <1>4, <1>5 DEF TrafficInv, TrafficTypeOK
<1>7. TrafficTypeOK'
  BY <1>1, <1>4, <1>6 DEF TrafficInv, TrafficTypeOK
<1>8. MonthsInv'
  BY <1>1 DEF TrafficInv, MonthsInv
<1>9. ToComeInv'
  BY <1>1, <1>2, <1>4 DEF TrafficInv, ToComeInv, SavesInv, TrafficTypeOK, o
<1>10. SavesInv'
  <2> SUFFICES ASSUME NEW q \in Ops, op'[q] # None, op'[q].pc = "save"
               PROVE  /\ op'[q].month =< month'
                      /\ op'[q].new.limited # op'[q].old.limited => op'[q].do # "none"
    BY DEF SavesInv
  <2>1. q # p
    BY <1>5 DEF TrafficInv, TrafficTypeOK, then
  <2>2. op'[q] = op[q]
    BY <1>5, <2>1 DEF TrafficInv, TrafficTypeOK
  <2> QED BY <1>1, <2>2 DEF TrafficInv, SavesInv
<1>11. RateInv'
  <2> SUFFICES ASSUME parted' = {}, slow' # IsTrafficLimited'
               PROVE  Pending' \/ (due' /\ Record(month - 1)'.limited)
    BY DEF RateInv
  <2>1. /\ rec' = [rec EXCEPT ![o.month] = o.new] /\ op' = [op EXCEPT ![p] = then]
        /\ Record(o.month) = o.old
    BY <1>4
  <2>2. CASE o.do # "none"
    <3>1. op'[p] = then
      BY <2>1 DEF TrafficInv, TrafficTypeOK
    <3> QED BY <1>3, <2>2, <3>1 DEF Pending
  <2>3. CASE o.do = "none"
    <3>1. o.new.limited = o.old.limited
      BY <1>1, <2>3 DEF TrafficInv, SavesInv, o
    <3>2. \A m \in 1..Months : Record(m)'.limited = Record(m).limited
      BY <1>2, <2>1, <3>1 DEF Record, TrafficInv, TrafficTypeOK
    <3>3. month \in 1..Months /\ (due => month - 1 \in 1..Months)
      BY DEF TrafficInv, MonthsInv, TrafficTypeOK
    <3>4. Pending => Pending'
      <4> SUFFICES ASSUME NEW q \in Ops, op[q] # None, op[q].pc \in {"apply", "write"}
                   PROVE  Pending'
        BY DEF Pending
      <4>1. q # p /\ op'[q] = op[q]
        BY <1>1, <2>1 DEF TrafficInv, TrafficTypeOK, o
      <4> QED BY <4>1 DEF Pending
    <3> QED BY <1>1, <3>2, <3>3, <3>4 DEF TrafficInv, RateInv, IsTrafficLimited
  <2> QED BY <2>2, <2>3
<1> QED BY <1>7, <1>8, <1>9, <1>10, <1>11 DEF TrafficInv

(* ... and the rate, set as the record has it unless it parts from it.     *)
LEMMA RateSet ==
    ASSUME TrafficInv, parted = {}, NEW p \in Ops, ApplyVPCSwitchBandwidth(p) \/ WriteRate(p)
    PROVE  TrafficInv'
<1> USE TrafficAssumption
<1>1. /\ op' = [op EXCEPT ![p] = None]
      /\ UNCHANGED <<holder, bandwidth, quota, month, raw, rec, due>>
  BY DEF ApplyVPCSwitchBandwidth, WriteRate, GoOp
<1>2. IsTrafficLimited \in BOOLEAN /\ IsTrafficLimited' = IsTrafficLimited
  BY <1>1, RecordType DEF IsTrafficLimited, TrafficInv, TrafficTypeOK, Records, Record
<1>3. slow' \in BOOLEAN /\ parted' \subseteq {"late", "failed", "unlimited"}
  BY <1>2 DEF ApplyVPCSwitchBandwidth, WriteRate, Parts, Idle, TrafficInv, TrafficTypeOK, Steps
<1>4. parted' = {} => slow' = IsTrafficLimited
  BY DEF ApplyVPCSwitchBandwidth, WriteRate, Parts
<1>5. TrafficTypeOK'
  BY <1>1, <1>3 DEF TrafficInv, TrafficTypeOK
<1>6. MonthsInv' /\ ToComeInv' /\ SavesInv'
  BY <1>1 DEF TrafficInv, MonthsInv, ToComeInv, SavesInv, TrafficTypeOK
<1>7. RateInv'
  BY <1>2, <1>4 DEF RateInv
<1> QED BY <1>5, <1>6, <1>7 DEF TrafficInv

LEMMA ReadKeeps ==
    ASSUME TrafficInv, NEW p \in Ops, ReadRate(p)
    PROVE  TrafficInv'
<1> USE TrafficAssumption
<1>1. PICK o \in [pc : {"write"}, blind : BOOLEAN, slow : BOOLEAN] : op' = [op EXCEPT ![p] = o]
  <2>1. IsTrafficLimited \in BOOLEAN
    BY RecordType DEF IsTrafficLimited, TrafficInv, TrafficTypeOK, Records
  <2> DEFINE blind == op[p].do = "apply" /\ bandwidth = "unlimited"
             rate == op[p].do = "penalty" \/ (IsTrafficLimited /\ ~ blind)
             o == [pc |-> "write", blind |-> blind, slow |-> rate]
  <2>2. op' = [op EXCEPT ![p] = o]
    BY DEF ReadRate, GoOp
  <2>3. blind \in BOOLEAN /\ rate \in BOOLEAN
    OBVIOUS
  <2> HIDE DEF blind, rate
  <2>4. o \in [pc : {"write"}, blind : BOOLEAN, slow : BOOLEAN]
    BY <2>3
  <2> QED BY <2>2, <2>4
<1>2. UNCHANGED <<holder, bandwidth, quota, month, raw, rec, slow, due, parted>>
  BY DEF ReadRate
<1>3. o \in Steps /\ o.pc = "write" /\ o # None
  BY DEF Steps
<1>4. TrafficTypeOK'
  BY <1>1, <1>2, <1>3 DEF TrafficInv, TrafficTypeOK
<1>5. MonthsInv' /\ ToComeInv' /\ SavesInv'
  BY <1>1, <1>2, <1>3 DEF TrafficInv, MonthsInv, ToComeInv, SavesInv, TrafficTypeOK
<1>6. Pending'
  BY <1>1, <1>3 DEF TrafficInv, TrafficTypeOK, Pending
<1> QED BY <1>4, <1>5, <1>6 DEF TrafficInv, RateInv

(* Traffic is counted, and the month turns.                                *)
LEMMA TimePasses ==
    ASSUME TrafficInv, Traffic \/ MonthTurns
    PROVE  TrafficInv'
<1> USE TrafficAssumption DEF TrafficInv
<1>1. CASE Traffic
  <2>1. /\ raw' \in 0..MaxRaw
        /\ UNCHANGED <<holder, bandwidth, quota, month, rec, slow, due, op, parted>>
    BY <1>1 DEF Traffic, TrafficTypeOK
  <2> QED BY <2>1 DEF TrafficTypeOK, MonthsInv, ToComeInv, SavesInv, RateInv, Pending,
     IsTrafficLimited, Record
<1>2. CASE MonthTurns
  <2>1. /\ month' = month + 1 /\ month \in 1..Months /\ month' \in 1..Months /\ ~ due /\ due'
        /\ UNCHANGED <<holder, bandwidth, quota, rec, slow, op, parted>>
    BY <1>2 DEF MonthTurns, TrafficTypeOK
  <2>2. TrafficTypeOK' /\ MonthsInv' /\ ToComeInv' /\ SavesInv'
    BY <1>2, <2>1 DEF MonthTurns, TrafficTypeOK, MonthsInv, ToComeInv, SavesInv, Steps
  <2>3. IsTrafficLimited' = FALSE /\ Record(month - 1)' = Record(month)
    BY <2>1 DEF IsTrafficLimited, Record, ToComeInv
  <2>4. slow \in BOOLEAN /\ IsTrafficLimited \in BOOLEAN /\ (Pending <=> Pending')
    BY <2>1, RecordType DEF TrafficTypeOK, IsTrafficLimited, Records, Pending
  <2>5. RateInv'
    BY <2>1, <2>3, <2>4 DEF RateInv, IsTrafficLimited
  <2> QED BY <2>2, <2>5
<1> QED BY <1>1, <1>2

(* The inductive invariant of a traffic quota over any number of months.   *)
THEOREM TrafficInvariant == TrafficSpec => []TrafficInv
<1>1. TrafficInv /\ [TrafficNext]_trafficVars => TrafficInv'
  <2> SUFFICES ASSUME TrafficInv, [TrafficNext]_trafficVars PROVE TrafficInv'
    OBVIOUS
  <2>1. CASE UNCHANGED trafficVars
    BY <2>1 DEF trafficVars, TrafficInv, TrafficTypeOK, MonthsInv, ToComeInv, SavesInv, RateInv,
       Pending, IsTrafficLimited, Record
  <2>2. CASE TrafficCrash
    <3>1. /\ op' = [p \in Ops |-> None] /\ due' = FALSE /\ "failed" \in parted'
          /\ parted' = parted \cup {"failed"}
          /\ UNCHANGED <<holder, bandwidth, quota, month, raw, rec, slow>>
      BY <2>2 DEF TrafficCrash, Parts
    <3> QED BY <3>1 DEF TrafficInv, TrafficTypeOK, MonthsInv, ToComeInv, SavesInv, RateInv
  <2>3. CASE TrafficNext /\ ~ TrafficCrash
    BY <2>3, FirstHalves, SaveKeeps, RateSet, ReadKeeps, TimePasses DEF TrafficNext
  <2> QED BY <2>1, <2>2, <2>3
<1> QED BY TrafficStarts, <1>1, PTL DEF TrafficSpec

(* Records, rates and operations keep their types.                         *)
THEOREM TrafficTypes == TrafficSpec => []TrafficTypeOK
<1>1. TrafficInv => TrafficTypeOK
  BY DEF TrafficInv
<1> QED BY TrafficInvariant, <1>1, PTL

(* Whoever is over the traffic quota of the month, and nobody else, is     *)
(* slowed when nothing is under way, but for the windows named             *)
(* (traffic/quota.go, network/vpc/traffic.go, lightweight/traffic.go): for *)
(* any number of months and of operations side by side.                    *)
THEOREM LimitedAreSlowed == TrafficSpec => []LimitedIsSlowed
<1>1. TrafficInv => LimitedIsSlowed
  <2> SUFFICES ASSUME TrafficInv, parted = {}, Quiet PROVE slow <=> IsTrafficLimited
    BY DEF LimitedIsSlowed, Agrees
  <2>1. slow \in BOOLEAN /\ IsTrafficLimited \in BOOLEAN
    BY RecordType DEF TrafficInv, TrafficTypeOK, IsTrafficLimited, Records
  <2>2. ~ Pending
    BY DEF Quiet, Idle, Pending
  <2>3. slow = IsTrafficLimited
    BY <2>2 DEF TrafficInv, RateInv, Quiet
  <2> QED BY <2>1, <2>3
<1> QED BY TrafficInvariant, <1>1, PTL
=============================================================================
