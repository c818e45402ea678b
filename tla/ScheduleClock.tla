---------------------------- MODULE ScheduleClock ----------------------------
(***************************************************************************)
(* The calendar of scheduled actions: calculateNextRun of                  *)
(* service/vm/schedule.go, which answers the next time a plan is due after *)
(* a given instant, and the runner, which asks for the next time when it   *)
(* has submitted a run.  An instant is a tick counted from the midnight    *)
(* that starts a Monday, in the schedule's time zone; a day has DayLength  *)
(* ticks (changes of daylight saving time are left out).                   *)
(***************************************************************************)
EXTENDS Integers, FiniteSets, NoValue

CONSTANTS
    DayLength,   \* ticks of a day
    Weeks       \* bound on the clock

ASSUME ClockAssumption == DayLength \in Nat \ {0} /\ Weeks \in Nat /\ None \notin Int

VARIABLES
    plan,        \* what the user asked for
    base,        \* the instant the last answer was computed for
    next         \* that answer: vm_schedules.next_run_at

clockVars == <<plan, base, next>>

Weekdays == 1..7
TimesOfDay == 0..(DayLength - 1)
Instants == 0..(7 * Weeks * DayLength)
Plans(instants) ==
    [type : {"once"}, runAt : instants]
      \cup [type : {"daily"}, at : TimesOfDay]
      \cup [type : {"weekly"}, at : TimesOfDay, on : (SUBSET Weekdays) \ {{}}]

Day(t) == t \div DayLength
isoWeekday(day) == (day % 7) + 1

(* time.Date of the day offset days after t, at the plan's time of day.    *)
Candidate(p, t, offset) == (Day(t) + offset) * DayLength + p.at

(* A fault for the checks: a loop over seven days.                         *)
OffsetsOfSevenDays(p, t) ==
    {d \in 0..6 : isoWeekday(Day(t) + d) \in p.on /\ Candidate(p, t, d) > t}

(* The offsets at which the loop over eight days could return.             *)
Offsets(p, t) ==
    {d \in 0..7 : isoWeekday(Day(t) + d) \in p.on /\ Candidate(p, t, d) > t}
Least(S) == CHOOSE d \in S : \A e \in S : d =< e

(* A fault for the checks: a candidate that may be the instant itself.     *)
RunsAgainAtOnce(p, t) ==
    LET D == {d \in 0..1 : Candidate(p, t, d) >= t} IN
    CASE p.type = "once" -> IF p.runAt > t THEN p.runAt ELSE None
      [] p.type = "daily" -> Candidate(p, t, Least(D))
      [] p.type = "weekly" -> IF Offsets(p, t) = {} THEN None
                              ELSE Candidate(p, t, Least(Offsets(p, t)))

(* None is the error: there is no such time.                               *)
calculateNextRun(p, t) ==
    CASE p.type = "once" -> IF p.runAt > t THEN p.runAt ELSE None
      [] p.type = "daily" ->
            IF Candidate(p, t, 0) > t THEN Candidate(p, t, 0) ELSE Candidate(p, t, 1)
      [] p.type = "weekly" ->
            IF Offsets(p, t) = {} THEN None ELSE Candidate(p, t, Least(Offsets(p, t)))

(* buildVMScheduleModel: a plan without a next run is refused.             *)
InitClock ==
    /\ plan \in Plans(Instants)
    /\ base \in Instants
    /\ next = calculateNextRun(plan, base)
    /\ next # None

(* queueDueVMSchedule at the instant t: a one-off plan is over; the next   *)
(* run of a repeating one is computed from t, which is not before the run. *)
queueDueVMSchedule(t) ==
    /\ next # None /\ next =< t
    /\ base' = t
    /\ next' = IF plan.type = "once" THEN None ELSE calculateNextRun(plan, t)
    /\ UNCHANGED plan

ClockNext == \E t \in Instants : queueDueVMSchedule(t)
ClockSpec == InitClock /\ [][ClockNext]_clockVars

-----------------------------------------------------------------------------
(* Whether a plan asks for a run at the instant t.                         *)
Asks(p, t) ==
    \/ p.type = "once" /\ t = p.runAt
    \/ /\ p.type # "once"
       /\ t % DayLength = p.at
       /\ p.type = "weekly" => isoWeekday(Day(t)) \in p.on

(* The first time after t at which the plan asks for a run.                *)
IsNextRun(p, t, n) ==
    n > t /\ Asks(p, n) /\ \A u \in (t + 1)..(n - 1) : ~ Asks(p, u)

ClockTypeOK ==
    /\ plan \in Plans(Instants)
    /\ base \in Instants
    /\ next \in Nat \cup {None}

(* The answer is the first later time the plan asks for: no day is         *)
(* skipped and no run is given twice, however late the runner comes.       *)
NextIsLeast == next # None => IsNextRun(plan, base, next)

(* A repeating plan always has a next run: the error at the end of the     *)
(* loop over the days (service/vm/schedule.go:643) is never returned.      *)
RepeatsForEver == plan.type # "once" => next # None
=============================================================================
