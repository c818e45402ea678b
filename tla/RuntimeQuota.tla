---------------------------- MODULE RuntimeQuota ----------------------------
(***************************************************************************)
(* The quota of running time, of a user (service/user/runtime_quota.go) or *)
(* of one machine of the lightweight cloud, its twin.  A row keeps what    *)
(* was used up to the last observation and how many machines ran then.     *)
(* The collector, the edit of a quota and the shutdown task observe, each  *)
(* with a copy of the row, and none waits for another; past the limit one  *)
(* of them submits the shutdown task, unless a flag in memory is up.       *)
(***************************************************************************)
EXTENDS Naturals, FiniteSets, NoValue

CONSTANTS
    VMs,         \* the machines of a user; one of them in the lightweight cloud
    Tasks,       \* ids of shutdown tasks
    Slots,       \* workers of the queue
    Limits,      \* the limits an administrator gives; 0 is none
    Horizon,     \* bound: the last moment of the clock
    MaxEdits,    \* bound: edits of the quota
    MaxFaults,   \* bound: errors and crashes
    MaxLooks     \* bound: observations that go on at a time

ASSUME QuotaAssumption ==
    /\ IsFiniteSet(VMs) /\ VMs # {}
    /\ Tasks \cap {"collector", "edit"} = {}
    /\ Limits \subseteq Nat
    /\ Horizon \in Nat /\ MaxEdits \in Nat /\ MaxFaults \in Nat

VARIABLES
    kind,        \* whose quota it is
    now,
    on,          \* machines that run or are paused
    starting,    \* machines past CheckRuntimeQuotaAvailable
    limit,       \* MaxRuntimeHours
    row,         \* the other columns of the quota
    flag,        \* runtimeQuotaEnforcementState
    phase,       \* the shutdown tasks, as the queue promises them
    look,        \* observations under way
    edits, faults,
    steady,      \* history: machines that have run from the start
    slack,       \* history: time observed again by older observations
    dropped      \* history: the task the flag stands for was canceled

history == <<steady, slack, dropped>>
vars == <<kind, now, on, starting, limit, row, flag, phase, look, edits, faults, history>>

Queue == INSTANCE TaskLifecycle

Kinds == {"user", "lightweight"}
Machines == IF kind = "user" THEN VMs ELSE {CHOOSE v \in VMs : TRUE}
Observers == {"collector", "edit"} \cup Tasks

(* The columns of a quota, and what an observation carries from one of its *)
(* stages to the next: libvirt was asked, or its row was read, or both.    *)
Rows == [used : Nat, count : 0..Cardinality(VMs), seen : Nat]

Asked == [pc : {"row"}, at : Nat, count : 0..Cardinality(VMs)]
Listing == [pc : {"list"}, at : Nat, row : Rows, limit : Limits]
Writing == [pc : {"persist"}, at : Nat, count : 0..Cardinality(VMs),
            row : Rows, limit : Limits]
Settling == [pc : {"settle"}, enforce : BOOLEAN]
Staged == [pc : {"stop", "begin", "release"}]

Looks == Asked \cup Listing \cup Writing \cup Settling \cup Staged

ASSUME NoneAssumption == None \notin Looks

Init ==
    /\ kind \in Kinds
    /\ now = 0
    /\ on \in SUBSET Machines /\ starting = {}
    /\ limit \in Limits
    /\ row = [used |-> 0, count |-> Cardinality(on), seen |-> 0]
    /\ flag = FALSE
    /\ Queue!Init
    /\ look = [o \in Observers |-> None]
    /\ edits = 0 /\ faults = 0
    /\ steady = on /\ slack = 0 /\ dropped = FALSE

At(o, pc) == look[o] # None /\ look[o].pc = pc
Busy(o) == look[o] # None
(* The observation o goes on with c. *)
Set(o, c) == look' = [look EXCEPT ![o] = c]
Observing == {o \in Observers : Busy(o) /\ look[o].pc \in {"row", "list", "persist", "settle"}}
MayObserve == Cardinality(Observing) < MaxLooks
Fault == faults < MaxFaults /\ faults' = faults + 1

-----------------------------------------------------------------------------
(* What BuildUserRuntimeQuotaSnapshot computes: nothing is added when the  *)
(* row was observed later than this observation.                           *)
Used(r, at) == r.used + (IF at >= r.seen THEN (at - r.seen) * r.count ELSE 0)
Reached(r, l, at) == l > 0 /\ Used(r, at) >= l

-----------------------------------------------------------------------------
(* Time, users and administrators.                                         *)

Tick ==
    /\ now < Horizon /\ now' = now + 1
    /\ UNCHANGED <<kind, on, starting, limit, row, flag, phase, look, edits, faults, history>>

MachineStops(v) ==
    /\ v \in on
    /\ on' = on \ {v} /\ steady' = steady \ {v}
    /\ UNCHANGED <<kind, now, starting, limit, row, flag, phase, look, edits, faults, slack, dropped>>

CheckRuntimeQuotaAvailable(v) ==
    /\ v \in Machines \ (on \cup starting)
    /\ ~ Reached(row, limit, now)
    /\ starting' = starting \cup {v}
    /\ UNCHANGED <<kind, now, on, limit, row, flag, phase, look, edits, faults, history>>

StartVM(v) ==
    /\ v \in starting
    /\ starting' = starting \ {v} /\ on' = on \cup {v}
    /\ UNCHANGED <<kind, now, limit, row, flag, phase, look, edits, faults, history>>

UpdateQuota ==
    /\ edits < MaxEdits /\ edits' = edits + 1
    /\ ~ Busy("edit")
    /\ limit' \in Limits
    /\ Set("edit", [pc |-> "begin"])
    /\ UNCHANGED <<kind, now, on, starting, row, flag, phase, faults, steady, slack, dropped>>

CancelTask(t) ==
    /\ Queue!Skip(t)
    /\ dropped' = flag
    /\ UNCHANGED <<kind, now, on, starting, limit, row, flag, look, edits, faults, steady,
                   slack>>

-----------------------------------------------------------------------------
(* An observation.  The collector asks libvirt first and then reads the    *)
(* rows; an edit and a task read their row first.                          *)

Unobserved == UNCHANGED <<kind, now, on, starting, limit, phase, edits, steady>>

Collect ==
    /\ ~ Busy("collector") /\ MayObserve
    /\ Set("collector", [pc |-> "row", at |-> now, count |-> Cardinality(on)])
    /\ Unobserved /\ UNCHANGED <<row, flag, faults, slack, dropped>>

SyncAllUserRuntimeQuotaStates ==
    /\ At("collector", "row")
    /\ LET c == look["collector"] IN
         Set("collector", [pc |-> "persist", at |-> c.at, count |-> c.count,
                           row |-> row, limit |-> limit])
    /\ Unobserved /\ UNCHANGED <<row, flag, faults, slack, dropped>>

SyncUserRuntimeQuotaState(o) ==
    /\ At(o, "begin") /\ MayObserve
    /\ Set(o, [pc |-> "list", at |-> now, row |-> row, limit |-> limit])
    /\ Unobserved /\ UNCHANGED <<row, flag, faults, slack, dropped>>

(* A task goes on to its end, whatever came of its observation. *)
Ended(o) == IF o \in Tasks THEN [pc |-> "release"] ELSE None

GetRuntimeActiveVMSetFails(o) ==
    /\ At(o, "list")
    /\ Fault /\ Set(o, Ended(o))
    /\ Unobserved /\ UNCHANGED <<row, flag, slack, dropped>>

(* What o is about to write: the machines an edit or a task counts are     *)
(* those that run now.                                                     *)
Copy(o) ==
    IF o = "collector" THEN look[o]
    ELSE [at |-> look[o].at, count |-> Cardinality(on), row |-> look[o].row,
          limit |-> look[o].limit]

(* Fault: the time is added to the row instead of written.                 *)
AddToRow(o) ==
    /\ At(o, "persist") \/ At(o, "list")
    /\ LET c == Copy(o)
           delta == Used(c.row, c.at) - c.row.used
       IN  /\ row' = [row EXCEPT !.used = @ + delta, !.count = c.count, !.seen = c.at]
           /\ slack' = slack + (IF c.at < c.row.seen THEN c.row.seen - c.at ELSE 0)
           /\ Set(o, [pc |-> "settle", enforce |-> FALSE])
    /\ Unobserved /\ UNCHANGED <<flag, faults, dropped>>

(* Fault: only the observation that crosses the limit enforces it.         *)
EnforceOnCrossing(o) ==
    /\ At(o, "persist") \/ At(o, "list")
    /\ LET c == Copy(o) IN
         /\ row' = [row EXCEPT !.used = Used(c.row, c.at), !.count = c.count, !.seen = c.at]
         /\ Set(o, [pc |-> "settle", enforce |-> /\ Reached(c.row, c.limit, c.at)
                                                /\ c.row.used < c.limit /\ c.count > 0])
         /\ slack' = slack + (IF c.at < c.row.seen THEN c.row.seen - c.at ELSE 0)
    /\ Unobserved /\ UNCHANGED <<flag, faults, dropped>>

persistUserRuntimeQuotaState(o) ==
    /\ At(o, "persist") \/ At(o, "list")
    /\ LET c == Copy(o)
           used == Used(c.row, c.at)
           enforce == Reached(c.row, c.limit, c.at) /\ c.count > 0
       IN  /\ row' = [used |-> used, count |-> c.count, seen |-> c.at]
           /\ slack' = slack + (IF c.at < c.row.seen THEN c.row.seen - c.at ELSE 0)
           /\ Set(o, [pc |-> "settle", enforce |-> enforce])
    /\ Unobserved /\ UNCHANGED <<flag, faults, dropped>>

maybeRelease(o) ==
    /\ At(o, "settle") /\ ~ look[o].enforce
    /\ flag' = FALSE /\ dropped' = FALSE
    /\ Set(o, Ended(o))
    /\ Unobserved /\ UNCHANGED <<row, faults, slack>>

(* The flag goes up and the task is submitted, or neither.                 *)
maybeSubmit(o) ==
    /\ At(o, "settle") /\ look[o].enforce
    /\ \/ ~ flag /\ flag' = TRUE /\ (\E t \in Tasks : Queue!Accept(t)) /\ UNCHANGED faults
       \/ ~ flag /\ Fault /\ UNCHANGED <<flag, phase>>
       \/ /\ flag \/ \A t \in Tasks : phase[t] # "new"
          /\ UNCHANGED <<flag, phase, faults>>
    /\ Set(o, Ended(o))
    /\ UNCHANGED <<kind, now, on, starting, limit, row, edits, steady, slack, dropped>>

-----------------------------------------------------------------------------
(* The shutdown task.                                                      *)

Execute(t) ==
    /\ Queue!Execute(t)
    /\ Set(t, [pc |-> "stop"])
    /\ UNCHANGED <<kind, now, on, starting, limit, row, flag, edits, faults, steady, slack, dropped>>

(* A machine of a user that does not stop is a warning; the one machine of *)
(* a lightweight quota makes the task fail, with no observation.           *)
stopUserVMsForDisable(t) ==
    /\ At(t, "stop")
    /\ \/ on' = {} /\ Set(t, [pc |-> "begin"]) /\ UNCHANGED faults
       \/ /\ Fault
          /\ on' \in (SUBSET on) \ {{}}
          /\ Set(t, [pc |-> IF kind = "user" THEN "begin" ELSE "release"])
    /\ steady' = steady \cap on'
    /\ UNCHANGED <<kind, now, starting, limit, row, flag, phase, edits, slack, dropped>>

(* Fault: only a task that reached its end takes the flag down.            *)
ReleaseIfStopped(t) ==
    /\ At(t, "release")
    /\ flag' = (flag /\ on # {}) /\ dropped' = (dropped /\ flag')
    /\ Queue!Settle(t)
    /\ Set(t, None)
    /\ UNCHANGED <<kind, now, on, starting, limit, row, edits, faults, steady, slack>>

(* The deferred release, on every path. *)
releaseRuntimeQuotaEnforcement(t) ==
    /\ At(t, "release")
    /\ flag' = FALSE /\ dropped' = FALSE
    /\ Queue!Settle(t)
    /\ Set(t, None)
    /\ UNCHANGED <<kind, now, on, starting, limit, row, edits, faults, steady, slack>>

(* The panel dies and comes up again: memory is lost, the row is not.      *)
Crash ==
    /\ Fault
    /\ look' = [o \in Observers |-> None]
    /\ flag' = FALSE /\ dropped' = FALSE /\ starting' = {}
    /\ phase' = [t \in Tasks |-> IF phase[t] = "new" THEN "new" ELSE "settled"]
    /\ UNCHANGED <<kind, now, on, limit, row, edits, steady, slack>>

Observe(o) ==
    \/ o # "collector" /\ (SyncUserRuntimeQuotaState(o) \/ GetRuntimeActiveVMSetFails(o))
    \/ persistUserRuntimeQuotaState(o)
    \/ maybeRelease(o) \/ maybeSubmit(o)

Collector == Collect \/ SyncAllUserRuntimeQuotaStates \/ Observe("collector")
Task(t) == stopUserVMsForDisable(t) \/ Observe(t) \/ releaseRuntimeQuotaEnforcement(t)

Next ==
    \/ Tick \/ UpdateQuota \/ Crash
    \/ \E v \in VMs : MachineStops(v) \/ CheckRuntimeQuotaAvailable(v) \/ StartVM(v)
    \/ Collector \/ Observe("edit")
    \/ \E t \in Tasks : CancelTask(t) \/ Execute(t) \/ Task(t)

(* The collector's loop, the workers of the queue and a started handler    *)
(* run on.                                                                 *)
Fairness ==
    /\ WF_vars(Collector) /\ WF_vars(Observe("edit"))
    /\ \A t \in Tasks : WF_vars(Execute(t)) /\ WF_vars(Task(t))

Spec == Init /\ [][Next]_vars /\ Fairness

-----------------------------------------------------------------------------
TypeOK ==
    /\ kind \in Kinds /\ now \in 0..Horizon
    /\ on \subseteq Machines /\ starting \subseteq Machines /\ limit \in Limits
    /\ row \in Rows /\ row.seen <= now
    /\ flag \in BOOLEAN /\ phase \in [Tasks -> Queue!Phases]
    /\ look \in [Observers -> Looks \cup {None}]
    /\ edits \in 0..MaxEdits /\ faults \in 0..MaxFaults
    /\ steady \subseteq on /\ slack \in Nat /\ dropped \in BOOLEAN

(* However many observations read the row before one writes it, the time   *)
(* of a machine is charged once: never more than all machines running all  *)
(* the time, counting twice only what an older observation that wrote last *)
(* made the row forget, and never less than the machines that ran on.      *)
ChargedOnce ==
    /\ row.used <= Cardinality(Machines) * (row.seen + slack)
    /\ row.used >= Cardinality(steady) * row.seen

(* While the flag is up no other task is submitted, so a task that takes   *)
(* it down must be on its way: through errors of the task and of the       *)
(* submission, and observations that release it early.  The code is        *)
(* exposed to a task canceled before it was executed.                      *)
FlagIsBacked ==
    flag => dropped \/ \E t \in Tasks : phase[t] \in {"waiting", "executing"}

(* A quota that is used up with machines running does not stay so: the     *)
(* machines are stopped, also when a first task could not stop them.       *)
Exceeded == limit > 0 /\ row.used >= limit /\ on # {}
ExceededIsStopped ==
    []<> \/ ~ Exceeded \/ dropped
         \/ \A t \in Tasks : phase[t] = "settled"
=============================================================================
