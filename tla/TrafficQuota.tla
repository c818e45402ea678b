---------------------------- MODULE TrafficQuota ----------------------------
(***************************************************************************)
(* The monthly traffic quota of a user (service/traffic/quota.go), of a    *)
(* VPC switch (service/network/vpc/traffic.go) or of a machine of the      *)
(* lightweight cloud (service/lightweight/traffic.go), in one direction.   *)
(* A record per month holds whether the quota is passed; the rate in force *)
(* is set from it afterwards, by whoever changed the record.  The periodic *)
(* check, a reset, an edit of the quota, the job at the turn of the month  *)
(* and the start of a machine run side by side.                            *)
(***************************************************************************)
EXTENDS Naturals, FiniteSets, NoValue

CONSTANTS
    Quotas,      \* traffic an administrator allows; 0 is no limit
    MaxRaw,      \* bound: traffic of a month
    Months,      \* bound: months that pass
    MaxOps      \* bound: operations that run side by side

VARIABLES
    holder,        \* "user", "switch" or "machine"
    bandwidth,   \* "limited" or "unlimited": a user's own bandwidth
    quota, month,
    raw,         \* traffic of this month, as the statistics add up to
    rec,         \* the record of each month, or None
    slow,        \* the rate in force is the penalty
    due,         \* the timer at the turn of the month has fired
    op,          \* operations under way
    parted       \* history: what may have parted the record and the rate

trafficVars == <<holder, bandwidth, quota, month, raw, rec, slow, due, op, parted>>

Records == [offset : 0..MaxRaw, used : 0..MaxRaw, limited : BOOLEAN]
Steps == [pc : {"save", "apply"}, month : 1..Months, old : Records, new : Records,
          do : {"none", "apply", "penalty"}]
         \cup [pc : {"apply"}, do : {"apply", "penalty"}]
         \cup [pc : {"write"}, blind : BOOLEAN, slow : BOOLEAN]

ASSUME TrafficAssumption ==
    /\ Quotas \subseteq Nat /\ MaxRaw \in Nat /\ Months \in Nat \ {0}
    /\ None \notin Records \cup Steps

TrafficKinds == {"user", "switch", "machine"}
Ops == {"checker", "reset", "update", "monthly", "refresh"}

InitTraffic ==
    /\ holder \in TrafficKinds
    /\ bandwidth \in {"limited", "unlimited"} /\ (holder # "user" => bandwidth = "limited")
    /\ quota \in Quotas
    /\ month = 1 /\ raw = 0
    /\ rec = [m \in 1..Months |-> None]
    /\ slow = FALSE /\ due = FALSE
    /\ op = [p \in Ops |-> None]
    /\ parted = {}

Record(m) == IF rec[m] = None THEN [offset |-> 0, used |-> 0, limited |-> FALSE] ELSE rec[m]
IsTrafficLimited == Record(month).limited
ClampTrafficBytes(n, offset) == IF n > offset THEN n - offset ELSE 0
Over(used, q) == q > 0 /\ used >= q
Idle(p) == op[p] = None
Free(p) == Idle(p) /\ Cardinality({q \in Ops : ~ Idle(q)}) < MaxOps
GoOp(p, to) == op' = [op EXCEPT ![p] = to]
Parts(w, happens) == parted' = parted \cup (IF happens THEN {w} ELSE {})

-----------------------------------------------------------------------------
Traffic ==
    /\ raw < MaxRaw /\ raw' = raw + 1
    /\ UNCHANGED <<holder, bandwidth, quota, month, rec, slow, due, op, parted>>

(* The timer of a turn is served long before the next.                     *)
MonthTurns ==
    /\ month < Months /\ ~ due /\ month' = month + 1
    /\ raw' = 0 /\ due' = TRUE
    /\ UNCHANGED <<holder, bandwidth, quota, rec, slow, op, parted>>

-----------------------------------------------------------------------------
(* The first half of an operation reads the record and decides.            *)

(* Users without a quota are passed over.                                  *)
CheckAndApplyTrafficLimit ==
    /\ Free("checker") /\ (holder = "user" => quota > 0)
    /\ LET old == Record(month)
           used == ClampTrafficBytes(raw, old.offset)
           over == Over(used, quota)
       IN GoOp("checker", [pc |-> "save", month |-> month, old |-> old,
                         new |-> [old EXCEPT !.used = used, !.limited = over],
                         do |-> IF over = old.limited THEN "none"
                                ELSE IF holder = "user" /\ over THEN "penalty" ELSE "apply"])
    /\ UNCHANGED <<holder, bandwidth, quota, month, raw, rec, slow, due, parted>>

(* Fault: the rate is left to the next check.                              *)
ResetWithoutRate ==
    /\ Free("reset")
    /\ GoOp("reset", [pc |-> "save", month |-> month, old |-> Record(month), do |-> "none",
                    new |-> [offset |-> raw, used |-> 0, limited |-> FALSE]])
    /\ UNCHANGED <<holder, bandwidth, quota, month, raw, rec, slow, due, parted>>

ResetUserTrafficQuota ==
    /\ Free("reset")
    /\ GoOp("reset", [pc |-> "save", month |-> month, old |-> Record(month), do |-> "apply",
                    new |-> [offset |-> raw, used |-> 0, limited |-> FALSE]])
    /\ UNCHANGED <<holder, bandwidth, quota, month, raw, rec, slow, due, parted>>

(* An edit may end the penalty and never begins it; a user's goes by the   *)
(* traffic of the last check and writes only when something changes.       *)
CheckTrafficAfterQuotaUpdate ==
    /\ Free("update")
    /\ quota' \in Quotas
    /\ LET old == Record(month)
           used == IF holder = "user" THEN old.used ELSE ClampTrafficBytes(raw, old.offset)
           limited == old.limited /\ Over(used, quota')
           save == holder = "user" => limited # old.limited
       IN GoOp("update", [pc |-> IF save THEN "save" ELSE "apply", month |-> month,
                        old |-> old, do |-> "apply",
                        new |-> [old EXCEPT !.used = used, !.limited = limited]])
    /\ UNCHANGED <<holder, bandwidth, month, raw, rec, slow, due, parted>>

ApplyOnly == [pc |-> "apply", do |-> "apply"]

(* Fault: the job looks for the records of the month that begins.          *)
ResetThisMonth ==
    /\ due /\ Free("monthly")
    /\ due' = FALSE
    /\ GoOp("monthly", IF Record(month).limited THEN ApplyOnly ELSE None)
    /\ UNCHANGED <<holder, bandwidth, quota, month, raw, rec, slow, parted>>

ResetAllDailyTraffic ==
    /\ due /\ Free("monthly")
    /\ due' = FALSE
    /\ GoOp("monthly", IF Record(month - 1).limited THEN ApplyOnly ELSE None)
    /\ UNCHANGED <<holder, bandwidth, quota, month, raw, rec, slow, parted>>

(* A machine is started, made or deleted, a runtime restored.              *)
Refresh ==
    /\ Free("refresh")
    /\ GoOp("refresh", ApplyOnly)
    /\ UNCHANGED <<holder, bandwidth, quota, month, raw, rec, slow, due, parted>>

-----------------------------------------------------------------------------
(* The second half writes the record and then sets the rate.               *)

(* A switch or machine whose record is not written keeps its rate; a user  *)
(* goes on as if it were.                                                  *)
Save(p) ==
    /\ ~ Idle(p) /\ op[p].pc = "save"
    /\ LET o == op[p]
           then == IF o.do = "none" THEN None ELSE [pc |-> "apply", do |-> o.do]
       IN  \/ /\ rec' = [rec EXCEPT ![o.month] = o.new]
              /\ Parts("stale", Record(o.month) # o.old)
              /\ GoOp(p, then)
           \/ /\ Parts("failed", TRUE)
              /\ GoOp(p, IF holder = "user" THEN then ELSE None) /\ UNCHANGED rec
    /\ UNCHANGED <<holder, bandwidth, quota, month, raw, slow, due>>

(* ApplyVPCSwitchBandwidth holds the lock of the switch while it reads the *)
(* record and sets the rate.                                               *)
ApplyVPCSwitchBandwidth(p) ==
    /\ holder = "switch"
    /\ ~ Idle(p) /\ op[p].pc = "apply"
    /\ \/ slow' = IsTrafficLimited /\ UNCHANGED parted
       \/ Parts("failed", TRUE) /\ UNCHANGED slow
    /\ GoOp(p, None)
    /\ UNCHANGED <<holder, bandwidth, quota, month, raw, rec, due>>

(* Fault: the record is read before the lock is taken.                     *)
ReadBeforeLock(p) ==
    /\ holder = "switch"
    /\ ~ Idle(p)
    /\ \/ /\ op[p].pc = "apply"
          /\ GoOp(p, [pc |-> "write", slow |-> IsTrafficLimited]) /\ UNCHANGED slow
       \/ /\ op[p].pc = "write"
          /\ slow' = op[p].slow /\ GoOp(p, None)
    /\ UNCHANGED <<holder, bandwidth, quota, month, raw, rec, due, parted>>

(* RebalanceUserBandwidth and ApplyLightweightVMBandwidth: a user with no  *)
(* bandwidth of its own is set free without a look at the record.  The     *)
(* penalty of a check is set without another look.                         *)
ReadRate(p) ==
    /\ holder # "switch"
    /\ ~ Idle(p) /\ op[p].pc = "apply"
    /\ LET blind == op[p].do = "apply" /\ bandwidth = "unlimited" IN
         GoOp(p, [pc |-> "write", blind |-> blind,
                slow |-> op[p].do = "penalty" \/ (IsTrafficLimited /\ ~ blind)])
    /\ UNCHANGED <<holder, bandwidth, quota, month, raw, rec, slow, due, parted>>

WriteRate(p) ==
    /\ holder # "switch"
    /\ ~ Idle(p) /\ op[p].pc = "write"
    /\ LET o == op[p] IN
         \/ /\ slow' = o.slow
            /\ Parts(IF o.blind THEN "unlimited" ELSE "late", o.slow # IsTrafficLimited)
         \/ Parts("failed", TRUE) /\ UNCHANGED slow
    /\ GoOp(p, None)
    /\ UNCHANGED <<holder, bandwidth, quota, month, raw, rec, due>>

(* What was under way is lost, and a turn of the month not acted upon.     *)
TrafficCrash ==
    /\ due \/ \E p \in Ops : ~ Idle(p)
    /\ Parts("failed", TRUE)
    /\ op' = [p \in Ops |-> None] /\ due' = FALSE
    /\ UNCHANGED <<holder, bandwidth, quota, month, raw, rec, slow>>

(* Nothing is claimed of what follows a window; the model ends there.      *)
TrafficNext ==
    /\ parted = {}
    /\ \/ Traffic \/ MonthTurns \/ TrafficCrash
       \/ CheckAndApplyTrafficLimit \/ ResetUserTrafficQuota \/ CheckTrafficAfterQuotaUpdate
       \/ ResetAllDailyTraffic \/ Refresh
       \/ \E p \in Ops : Save(p) \/ ApplyVPCSwitchBandwidth(p) \/ ReadRate(p) \/ WriteRate(p)

TrafficSpec == InitTraffic /\ [][TrafficNext]_trafficVars

-----------------------------------------------------------------------------
TrafficTypeOK ==
    /\ holder \in TrafficKinds /\ bandwidth \in {"limited", "unlimited"} /\ quota \in Quotas
    /\ month \in 1..Months /\ raw \in 0..MaxRaw
    /\ rec \in [1..Months -> Records \cup {None}] /\ op \in [Ops -> Steps \cup {None}]
    /\ slow \in BOOLEAN /\ due \in BOOLEAN
    /\ parted \subseteq {"stale", "late", "failed", "unlimited"}

Quiet == ~ due /\ \A p \in Ops : Idle(p)
Agrees == Quiet => (slow <=> IsTrafficLimited)

(* When nothing is under way the penalty is in force just for those whose  *)
(* record of this month says so: through the turn of the month, resets and *)
(* edits racing the check, in whatever order records and rates are set.    *)
(* The code is exposed to four windows: a record written over a newer one, *)
(* a rate set later than a change of the record (of a switch it cannot     *)
(* be), an error or crash in between, and users without a bandwidth.       *)
LimitedIsSlowed == parted = {} => Agrees

(* As the comment of UpdateUserQuota has it, setting a user's bandwidth    *)
(* minds the traffic limit: also for a user without a bandwidth quota.     *)
RebalanceMindsTraffic == parted \subseteq {"unlimited"} => Agrees
=============================================================================
